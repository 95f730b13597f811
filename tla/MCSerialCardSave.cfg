CONSTANTS
  Frame = 3
  Rdrf = 2
  Late = 1
  MaxLag = 4
  Commands <- MCCommands
  Answers <- MCAnswers
  AnySave = TRUE
SPECIFICATION Spec
INVARIANT
  NextByteOnly
