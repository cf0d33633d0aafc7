SPECIFICATION Spec
CONSTANTS
  Plain = {"services"}
  Pages = {"dashboard", "devices", "wizard"}
  NoAnswer = NoAnswer
  MaxLoads = 2
  MaxEdits = 2
  MaxDrops = 1
  MaxAnswers = 2
INVARIANTS LoadedAtRest 
PROPERTY ListsGoForward
CHECK_DEADLOCK FALSE
