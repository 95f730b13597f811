CONSTANTS
  Frame = 3
  Rdrf = 2
  Late = 1
  MaxLag = 4
  Commands <- MCCommands
  Answers <- MCAnswers
  AnySave = FALSE
SPECIFICATION Spec
INVARIANTS
  CardKeepsTheLine
PROPERTIES
  ThinkLeavesNothingHeld
