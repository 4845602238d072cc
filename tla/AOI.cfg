SPECIFICATION Spec
CONSTANTS
  n1 = n1
  n2 = n2
  n3 = n3
  Nil = Nil
  Node = {n1, n2, n3}
  Axis = {"x", "y"}
  AxisOrder <- MCAxisOrder
  Coord <- MCCoord
  SinksOn = {"x"}
  NegativeBoundary = {n1}
  PositiveBoundary = {n2}
  Hide = {n3}
INVARIANTS ListsAreWhole  
 
