CONSTANTS
  MAX_PERIPHERALS = 3
  Peripherals = {p1, p2}
  ADDR_MAX = 3
  Sizes = {1, 2}
  FIFO_SIZE = 2
  Bytes = {0, 1}
  CAPACITY = 4
  SECTOR_SIZE = 2
  PAGE_SIZE = 1
  WORD_BYTES = 4
  MAX_WORDS = 2
  BurstWords <- FirmwareWords
  MaxRx = 1
  Slaves = {sensor, nobody}
  DEFAULT_ADDR = sensor
  Words <- OneWord
  Temps <- Temperatures
  Nodes = {1, 2, 3}
  MAX_NODES = 2
  RX_CAPACITY = 2
  IdBits = {x}
  MaxFrames = 3
  WORD_BITS = 16
  MSB = 32768
  CELL = 16
  SIZE = 16
  FLASH_SIZE = 8
  SRAM_BASE = 8192
  SRAM_SIZE = 4
  RESET_SP = 8
  Instrs <- Opcodes
  Starts <- RegisterFiles
  RunSteps = {2}
  MaxCycles = 2
  SEG = 4
  Lines <- HexLines
  Binaries <- Images
  LoadAddrs = {0, 13, 8192, 4096}
  MainSteps = 1
  MaxLines = 3
SPECIFICATION DevicesSpec
INVARIANT FullRaisesIrq
INVARIANT ReadyMeansFresh
INVARIANT AnswersAreRight
INVARIANT ImageIsRight
INVARIANT NoDanglingNode
INVARIANT StatusIsTrue
INVARIANT FramesInOrder
PROPERTY TargetsAreStable
PROPERTY BytesInOrder
PROPERTY FlashProtected
PROPERTY NoStaleCommand
INVARIANT WindowsAnswer
PROPERTY FlagsAreExact
PROPERTY ShiftsAreExact
PROPERTY CallsReturn
PROPERTY StackRoundTrip
PROPERTY TraceIsTrue
CHECK_DEADLOCK FALSE
