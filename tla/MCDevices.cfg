SPECIFICATION Spec
CONSTANTS
  \* the slots: two commands, two loads
  Built <- MCBuilt
  Settings <- MCSettings
  MaxCommands = 2
  MaxLoads = 1
  \* the Mockingboard: two bits a counter byte, four levels, two frames
  ByteValues = 2
  Top = 3
  CyclesPerTick = 3
  FrameCycles = 3
  MaxFrames = 2
  Writes <- MCWrites
  Reads <- MCReads
  MaxAccesses = 2
  Shapes <- MCShapes
  \* the mouse and its 6821
  PiaControls <- MCControls
  MaxPiaSteps = 5
  MouseCalls <- MCCalls
  Moves <- MCMoves
  Period60 = 2
  Period50 = 3
  MouseSlack = 1
  MaxMouseSteps = 3
  \* the expansion ROM window: a card that answers its page itself in slot 1,
  \* ROMs in 2 and 3, neither in 4
  Slots = {1, 2, 3, 4}
  RomCards = {2, 3}
  HandlerCards = {1}
  \* the keyboard
  MatrixKeys = {"a", "8"}
  KeypadKeys = {"8"}
  AppleKeys = {"left alt", "left gui"}
  HeldCapacity = 1
  VideoFrame = 2
  RepeatDelay = 2
  RepeatPhase = 2
  RepeatPeriod = 1
  ReptPeriod = 2
  Spans = {1, 3}
  MaxCycles = 7
  MaxHostEvents = 3
  \* the game port
  StickDevices = {"none", "joystick", "keyboard"}
  QueueCapacity = 2
  Positions = {0, 2}
  LeadIn = 1
  MaxPortCycles = 2
  MaxPortEvents = 3
  \* block images: two calls, two commands of the host
  Images <- MCImages
  BlockNumbers = {0, 1}
  MaxBlockCalls = 2
  MaxBlockSteps = 2
  \* a track of four short sectors
  SectorsPerTrack = 4
  Groups = 2
  Gap1 = 6
  Gap3 = 7
  SlotNibbles = 172
  TrackNumber = 5
  Contents <- MCContents
  Rewritten = {0, 2}
  Phases = {0, 10}
  Rotations = {7, 133}
  MaxGuestWrites = 2
  \* floppy images
  FloppyFiles <- MCFloppyFiles
  QuarterTracks <- MCQuarterTracks
  Threshold = 4
  RatioLimit = 3
  MaxOpens = 2
  \* the serial far end: rings of two bytes, one call of the host
  SerialKinds = {"pty", "loopback", "modem", "file"}
  ReceiveSize = 2
  HighWater = 2
  TransmitSize = 2
  ReadChunk = 1
  RetryTicks = 2
  KernelRoom = 1
  MaxSent = 3
  MaxSerialSteps = 1
  \* the printer
  Appends = {TRUE, FALSE}
  MaxPrinted = 4
  MaxPrinterSteps = 4
  \* the display: two columns, a flash of two frames
  VideoColumns = 1
  VideoPlaces <- MCPlaces
  VideoBytes = {20, 65}
  VideoModes <- MCModes
  FlashFrames = 2
  ScanCycles <- MCScan
  MaxVideoSteps = 2
  \* the colours: five lines, text from the fourth on a mixed screen
  MixLines = 5
  MixTop = 3
  LineColours = {0, 2, 4}
  MaxMixSteps = 4
  \* the program in a file: a table of four keywords
  SyncTexts <- MCTexts
  SyncTyped <- MCTyped
  SyncKeywords <- MCKeywords
  TokenRem = 178
  CheckInterval = 2
  SyncRoom = 20
  MaxLineNumber = 4
  MaxSyncSteps = 3
INVARIANTS
  SlotsAreKept
  CardKeepsTime
  MouseKeepsItsPromises
  KeysFollowTheHand
  PortFollowsTheHand
  VolumesKeepTheirBlocks
  TracksKeepTheirSectors
  ImagesAreOpenedWhole
  CableIsTransparent
  PrinterKeepsItsBytes
  DisplayIsTrue
  ColoursMatchTheDots
PROPERTIES
  LoadIsWhole
  HandshakeFollowsTheData
  SelectedRomAnswers
  BasicStaysInStep
CHECK_DEADLOCK FALSE
