\* A device whose environment has used up its accesses may stop.
CONSTANT Chosen = {"timer", "clint", "clic", "ipc", "dma", "uart", "hbn", "i2c", "spi", "pwm", "i2s",
                   "audio", "dma2d", "sf", "glb", "usb", "emac", "sec", "aes", "cores", "pds", "boot"}
CONSTANTS
  FlashSize = 4
  PageSize = 2
  Aperture = 4
  AddrSpace = 8
  EraseSizes = {2, 4}
  FlashAddrs = {1, 3, 5, 7}
  Offsets = {0, 1, 5}
  ResetOffset = 0
  FlashBytes <- MCFlashBytes
  FlashOps = 5
  BootConfs <- MCBootConfs
  BootHeaders <- MCBootHeaders
  AgeWrap = 100
  MaxDamage = 1
  BootOps = 7
  Images <- MCImages
  SlotSize = 3
  Chunk = 2
  StoreFaults = 3
  StoreOps = 3
  RecordFaults = 2
  RecordOps = 2
SPECIFICATION MCSpec
CHECK_DEADLOCK FALSE
INVARIANTS DeadlinesKept LinesExact WorkScheduled DataInOrder StatusTrue FlashShown EngineExact PowerFollowed
PROPERTIES EventsSeen JobsExact FlashGuarded BootSurvives
