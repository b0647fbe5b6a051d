\* A part whose callers have used up their calls may stop.
CONSTANT Chosen = {"tlsf", "anchor", "lwip", "ulist", "wifista", "sync", "channel", "asyncuart", "emacdrv",
                   "wasmstore", "retained"}
CONSTANTS
  FlashSize = 4
  PageSize = 2
  Aperture = 4
  AddrSpace = 8
  EraseSizes = {2, 4}
  FlashAddrs = {1, 3, 5, 7}
  Offsets = {0, 1, 5}
  ResetOffset = 0
  FlashBytes <- MCFlashBytes
  FlashOps = 5
  BootConfs <- MCBootConfs
  BootHeaders <- MCBootHeaders
  AgeWrap = 100
  MaxDamage = 1
  BootOps = 7
  Images <- MCImages
  SlotSize = 3
  Chunk = 2
  StoreFaults = 3
  StoreOps = 3
  RecordFaults = 2
  RecordOps = 2
SPECIFICATION MCSpec
CHECK_DEADLOCK FALSE
INVARIANTS HeapConsistent FlashedExactly TimeoutsKept RadioStateFaithful WaitersServed ChannelsFaithful DriversDeliver StoreSound RecordsTrue
