---------------------------- MODULE MCSkipList -----------------------------
(* Model-checking instance of SkipList.                                     *)
EXTENDS SkipList
=============================================================================
