CONSTANTS
  card = card
  mouse = mouse
  Devices <- MCDevices
  Starts <- MCAllStarts
  SavedStates <- MCSaved
  DebugCode <- MCCode
  StackBottom = 0
  OverSteps = 3
  SessionCommands <- MCCommands
  PageLines <- MCPage
  BufferLines = 3
  MaxSessionSteps = 5
  ListSlots = 2
  IoAddresses = {}
  ListArguments <- MCArguments
  MaxListSteps = 6
  MemoryPages = 4
  PageBytes = 2
  KeptPages = 1
  ByteBase = 2
  FillSpans <- MCSpans
  RangeArguments <- MCRanges
  Entries <- MCEntries
  DebugFiles <- MCFiles
  GuestAddresses = {1, 4, 5}
  KnownType <- MCKnown
  MaxMemorySteps = 4
  Instructions <- MCInstructions
  BranchOpcodes = {208}
  AsmLines <- MCLines
  SymbolTables = {2, 3}
  AssemblyTable = 2
  ShownAtFirst = {2, 3}
  SymbolFiles <- MCSymbolFiles
  SymbolNames = {"LOOP"}
  AsmTop = 8
  MaxAsmSteps = 4
  HostDisks <- MCHostDisks
  SlotCards <- MCSlotCards
  Extensions <- MCExtensions
  MaxEntries = 4
  PageSize = 2
  Finals <- MCFinals
  HighBytes = {"hi", "lead", "tail"}
  ShiftedTokens <- MCShifted
  MaxEscape = 5
  Scenes <- MCScenes
  LoadedCards <- MCLoaded
  HardDiskSlot = 7
  Measures <- MCMeasures
  ScreenSizes <- MCSizes
  Contents <- MCContents
  HostText <- MCHostText
  BranchRows <- MCBranches
  Views <- MCViews
  FirstLost = 1
  RefreshEvery = 2
  FlashEvery = 1
  LargestWidth = 100
  LargestHeight = 60
SPECIFICATION ConsoleSpec
INVARIANTS
  FramesHoldTheReturn
  DebuggerPredictsTheCpu
  SessionHolds
  ListsTellTheTruth
  DebuggerWritesLast
  OperandsResolve
  TerminalIsFollowed
  ScreenIsWhatWasDrawn
PROPERTIES
  ReturnsWhereItLeft
  DecimalArithmeticIsExact
SYMMETRY Lines
CHECK_DEADLOCK FALSE
