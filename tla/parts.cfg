\* Five parts that do not interact, each on its own instance.
SPECIFICATION PartsSpec
CONSTANTS
  DRAM <- MCDRAM
  IRAM <- MCIRAM
  RTC <- MCRTC
  DROM <- MCDROM
  IROM <- MCIROM
  LOADER_DRAM <- MCLoaderDRAM
  LOADER_IRAM <- MCLoaderIRAM
  ALIAS = 120
  LOADS_FROM = 16
  WIDTH = 1024
  PAGE = 32
  MMU_ENTRIES = 8
  SECTOR = 32
  MAX_SEGMENTS = 16
  MAX_OTA = 3
  Boards <- MCBoards
  TagLen <- MCTagLen
  MAX_FIELD_LEN = 64
  FieldLens = {64, 65}
  BackingLens = {0, 2}
  MaxDeclared = 3
  USIZE = 32
  U64 = 1024
  Sides = {0, 1, 2, 3, 4, 6, 31}
  BufferLens = {0, 1, 2, 3, 4, 6, 8, 9, 12, 16, 23, 24, 31}
  Strides = {1, 2, 3, 4, 6}
  MICROS = 10
  Rates = {1, 3, 7, 10, 12}
  MaxChannels = 3
  MAX_U64 = 60
  Stamps = {0, 50}
  DataLens = {0, 1, 2, 3, 4, 6, 8, 12, 24}
  MaxBlocks = 3
  MILLION = 4
  Ppm = 3
  MAX_I64 = 63
  Epochs <- MCEpochs
  MaxStep = 3
  MaxAge = 8
INVARIANTS
  FirstGoodStarts
  GivesUpLast
  LoaderUntouched
  MappedRight
  VouchedRuns
  SameFactsSameBytes
  SizedExactly
  RoundTrips
  AcceptedIsValid
  CutOnlyDrops
  NewerIsUnsupported
  PixelsInside
  CodedIsMarked
  StampsLag
  SizedForBlock
  ErrorCovers
PROPERTIES
  NeverWorse
\* images are started or refused, and the bounds are used up
CHECK_DEADLOCK FALSE
