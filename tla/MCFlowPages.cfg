SPECIFICATION Spec
CONSTANTS
  Flows = {"f", "g"}
  Names = {"v"}
  MaxOnTheWay = 2
INVARIANTS ListCurrent  
