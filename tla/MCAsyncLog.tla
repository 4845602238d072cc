----------------------------- MODULE MCAsyncLog -----------------------------
(* Model-checking instance of AsyncLog.                                     *)
EXTENDS AsyncLog

CONSTANTS a, b, w1, w2

MCMaxLogs == a :> 2 @@ b :> 1
MCTask == [by : {a, b}, n : 1..2] \cup {[by |-> "flusher", n |-> 0]}
=============================================================================
