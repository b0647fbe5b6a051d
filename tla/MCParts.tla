------------------------------- MODULE MCParts -------------------------------
(***************************************************************************)
(* Small instances of the devices of the emulated machine and of parts of  *)
(* the firmware.  They do not share state, so one behaviour is about one   *)
(* of them (unit) and their state spaces add up; a configuration says      *)
(* which (Chosen).  A property is one promise, of all parts that make it;   *)
(* its conjuncts are stated and explained in their modules.                *)
(***************************************************************************)
EXTENDS Parts, FiniteSets, TLC

CONSTANT Chosen       \* the parts of this run

----------------------------------------------------------------------------
(* The emulated machine.                                                   *)

TimerRates == {[x \in 0..5 |-> CASE x = 0 -> 4 [] x \in {1, 2} -> 2 [] x = 3 -> b
                                 [] OTHER -> 0] : b \in {2, 4}}

Timer == INSTANCE BL808Timer WITH s <- st, NS <- 12, UINT32_MAX <- 15,
  WDT_MASK <- 7, ClockInputs <- TimerRates, Matches <- {1}, Dividers <- {0, 1},
  Used <- {0}, AccessInReset <- FALSE, MaxLate <- 1, MaxNow <- 4, MaxOps <- 3

Clint == INSTANCE TheadClint WITH s <- st, cpu <- env, Word <- 8, NsPerTick <- 2,
  Deadlines <- {0, 1, 3, 9}, Mtimes <- {0, 1}, MaxLate <- 1, MaxNow <- 10, MaxOps <- 3

Clic == INSTANCE XtClic WITH s <- st, cpu <- env, Irqs <- {3, 7}, CtlBits <- 2,
  Ctls <- {0, 192}, Thresholds <- {0, 127}, NlBits <- {1}, Trigs <- {0, 1},
  Vector <- TRUE, MaxNest <- 1

Ipc == INSTANCE BL808Ipc WITH s <- st, isr <- env, owed <- log, Signals <- {0, 1, 2}

DmaLlis == 4 :> [src |-> 8, dst |-> 3, lli |-> 0, xfer |-> 1, tc |-> TRUE]
DmaJob(flow, req, dreq, burst, width, n, lli) ==
  [desc |-> [src |-> 0, dst |-> 16, lli |-> lli, xfer |-> n, tc |-> TRUE],
   flow |-> flow, req |-> req, dreq |-> dreq, burst |-> burst, width |-> width,
   tcm |-> TRUE, errm |-> TRUE]
DmaJobs ==
  0 :> {DmaJob("P2M", 1, 0, 2, 1, 2, 4), DmaJob("M2P", 0, 2, 1, 1, 2, 0),
        DmaJob("P2P", 1, 2, 1, 1, 2, 0), DmaJob("M2P", 0, 3, 1, 1, 1, 0)} @@
  1 :> {DmaJob("M2M", 0, 0, 1, 1, 3, 0), DmaJob("M2P", 0, 3, 1, 0, 1, 0)}

Dma == INSTANCE BL808Dma WITH s <- st, Channels <- {0, 1}, Lines <- {1, 2},
  Depth <- 1, MaxSteps <- 2, Llis <- DmaLlis, Jobs <- DmaJobs, MaxOps <- 7

Uart == INSTANCE BL808Uart WITH s <- st, host <- env, acc <- job, out <- log,
  Depth <- 2, TxLens <- {0, 1}, RxLens <- {0, 2}, Thresholds <- {0, 1}, MaxOps <- 5

I2c == INSTANCE BL808I2c WITH s <- st,
  Depth <- 2, PktLens <- {1, 3}, SubLens <- {0, 1}, MaxOps <- 4

Spi == INSTANCE BL808Spi WITH s <- st,
  Depths <- <<2, 1>>, Ignores <- {0, 1}, Thresholds <- {0, 1}, MaxOps <- 5

Pwm == INSTANCE BL808Pwm WITH s <- st, Groups <- {0, 1}, Repeats <- {0, 2}, MaxOps <- 4

I2s == INSTANCE BL808I2s WITH s <- st, Depth <- 2, Thresholds <- {0, 1}, MaxOps <- 6

Audio == INSTANCE BL808Audio WITH s <- st, Depth <- 2, Thresholds <- {0, 1}, MaxOps <- 4

\* Two elements next to each other and two rows of none or two, of one or two
\* bytes, with and without a key that matches one of them.
BlitBase == [src |-> 0, dst |-> 6, sw |-> 1, dw |-> 1, si |-> TRUE, di |-> TRUE, n |-> 2,
             two_d |-> FALSE, xc |-> 0, yc |-> 2, sx |-> 1, sy |-> 0, dx |-> 1, dy |-> 0,
             key_en |-> FALSE, key |-> 2, strobe |-> {0}, int |-> TRUE]
Blits ==
  {[BlitBase EXCEPT !.sw = w, !.dw = v, !.key_en = k] : w, v \in {1, 2}, k \in BOOLEAN}
  \cup {[BlitBase EXCEPT !.two_d = TRUE, !.dst = 5, !.xc = xc, !.sy = sy, !.dy = dy,
                         !.key_en = k] :
        xc \in {0, 2}, sy \in {0, 1}, dy \in {1, 2}, k \in BOOLEAN}

Dma2d == INSTANCE BL808Dma2d WITH s <- st, Channels <- {0, 1},
  Memory <- [a \in 0 .. 11 |-> a + 1], Jobs <- Blits, MaxOps <- 4

\* What the guest puts into the buffer of the flash controller.
MCFlashBytes == {<<{0}, {3}>>, <<{3}, {1}>>}

\* Pulled-up and floating inputs with each kind of interrupt, a masked one with
\* both pulls, and an output.
PinBase == [ie |-> TRUE, mask |-> FALSE, swgpio |-> TRUE, oe |-> FALSE, o |-> FALSE,
            pu |-> TRUE, pd |-> FALSE, mode |-> "async_fall", stat |-> FALSE]
PinConfigs == {PinBase, [PinBase EXCEPT !.mask = TRUE, !.pd = TRUE],
               [PinBase EXCEPT !.mode = "async_rise", !.pu = FALSE],
               [PinBase EXCEPT !.mode = "sync_fall"], [PinBase EXCEPT !.mode = "high"],
               [PinBase EXCEPT !.ie = FALSE, !.pu = FALSE, !.oe = TRUE, !.o = TRUE]}
PadBase == [hw_ctrl |-> TRUE, oe |-> FALSE, pu |-> TRUE, pd |-> FALSE]

Glb == INSTANCE BL808Glb WITH s <- st, Pins <- {0, 40}, AonPins <- {40}, XtalPins <- {40},
  Clients <- {"u", "v"}, gate_mask <- [u |-> {1}, v |-> {2, 3}],
  reset_mask <- [u |-> {1}, v |-> {2}], Configs <- PinConfigs,
  Pads <- {PadBase, [PadBase EXCEPT !.oe = TRUE], [PadBase EXCEPT !.hw_ctrl = FALSE]},
  MaxOps <- 3

Usb == INSTANCE BL808Usb WITH s <- st, Capacity <- 2, Lengths <- {1, 3}, MaxOps <- 4

\* Descriptors with and without the ownership, interrupt and wrap bits.
BdStatuses == {[own |-> o, int |-> i, wrap |-> w] : o, i, w \in BOOLEAN}
              \ {[own |-> FALSE, int |-> TRUE, wrap |-> w] : w \in BOOLEAN}
Emac == INSTANCE BL808Emac WITH s <- st, MAX_BD <- 3, Statuses <- BdStatuses,
  MaxPackets <- 2, MaxOps <- 4

\* Registers of three bits and bytes of two; the input reflected, the output
\* reflected and inverted, or neither.
CrcBase == [poly |-> {0, 1}, iv |-> {0, 2}, din_ref |-> FALSE, dout_ref |-> TRUE,
            dout_inv |-> TRUE]

\* Both directions of every mode, with a counter about to wrap, data units
\* shorter than the data, one unit and the default, and overlapping memory.
AesBase == [link |-> FALSE, hw_key |-> FALSE, sboot |-> FALSE, mode |-> "ecb", key_mode |-> 0,
            dec |-> FALSE, iv |-> <<1, 1>>, unit |-> 2, single |-> FALSE, keysel0 |-> 0,
            keysel1 |-> 1, src |-> 0, dst |-> 1, n |-> 3]
AesJobs == {[AesBase EXCEPT !.mode = m, !.dec = d, !.n = n] :
              m \in {"ecb", "ctr", "cbc", "xts"}, d \in BOOLEAN, n \in {0, 1, 3}}
           \cup {[AesBase EXCEPT !.mode = "xts", !.dec = d, !.unit = u, !.single = o,
                                 !.iv = iv, !.dst = 0] :
                   d, o \in BOOLEAN, u \in {0, 1, 2}, iv \in {<<0, 1>>, <<1, 0>>}}
           \cup {[AesBase EXCEPT !.link = l, !.hw_key = h, !.sboot = b, !.mode = m,
                                 !.key_mode = k] :
                   l, h, b \in BOOLEAN, m \in {"cbc", "xts"}, k \in 0 .. 3}

Sec == INSTANCE BL808SecEng WITH s <- st, Width <- 3, ByteWidth <- 2, Links <- {1, 2},
  Params <- 0 :> [CrcBase EXCEPT !.iv = {0, 1, 2}, !.din_ref = TRUE]
            @@ 1 :> CrcBase @@ 2 :> [CrcBase EXCEPT !.din_ref = TRUE, !.dout_ref = FALSE],
  Messages <- {<<{1}, {}>>}, Algs <- {"sha256", "none"},
  Blocks <- 2, Base <- 2, Digits <- 2, Jobs <- {[AesBase EXCEPT !.n = 1]}, MaxOps <- 3

\* The cipher with the registers, and without hashing.
Aes == INSTANCE BL808SecEng WITH s <- st, Width <- 3, ByteWidth <- 2, Links <- {},
  Params <- 0 :> CrcBase, Messages <- {}, Algs <- {}, Blocks <- 4, Base <- 2, Digits <- 2,
  Jobs <- AesJobs, MaxOps <- 2

Cores == INSTANCE BL808Cores WITH
  s <- st, Boots <- {"dram"}, MaxOps <- 5

Pds == INSTANCE BL808Pds WITH
  s <- st, Pins <- {"p"}, Modes <- {"fall", "async_rise", "async_low"}, MaxOps <- 5

\* Levels, samples and edges, delayed or not, and a block that watches no pad.
HbnBase == [mode |-> "async_low", mask |-> {"p", "q"}, delay_en |-> TRUE, sel |-> 0,
            bod_en |-> FALSE]
Hbn == INSTANCE BL808Hbn WITH s <- st, Pins <- {"p", "q"},
  Configs <- {HbnBase, [HbnBase EXCEPT !.mask = {"q"}, !.delay_en = FALSE, !.bod_en = TRUE],
              [HbnBase EXCEPT !.mode = "low"], [HbnBase EXCEPT !.mode = "async_rise", !.sel = 2],
              [HbnBase EXCEPT !.mode = "fall", !.delay_en = FALSE]},
  Parts <- 2, Second <- 2, MaxTime <- 4, MaxOps <- 3

\* The options that change what is booted, an image that starts M0 alone, all
\* three cores or, being a part for another core, not M0.
ConfBase == [strict |-> FALSE, gpio39 |-> FALSE, m0elf |-> FALSE, d0elf |-> FALSE,
             lpelf |-> FALSE, image |-> FALSE]
MCBootConfs == {ConfBase, [ConfBase EXCEPT !.strict = TRUE, !.image = TRUE],
              [ConfBase EXCEPT !.gpio39 = TRUE, !.lpelf = TRUE],
              [ConfBase EXCEPT !.m0elf = TRUE, !.d0elf = TRUE]}
MCBootHeaders == {[ok |-> TRUE, run |-> {0}, mm |-> FALSE],
                [ok |-> TRUE, run |-> {0, 1, 2}, mm |-> TRUE],
                [ok |-> TRUE, run |-> {1}, mm |-> FALSE]}

----------------------------------------------------------------------------
(* The firmware and the flashing tool.                                     *)

Heap == INSTANCE Tlsf WITH s <- st, Pool <- 38, Overhead <- 2, Align <- 2, MinSize <- 4,
  Canary <- 1, SlLog2 <- 1, FlMax <- 5, SizeMax <- 255, Requests <- {1, 9, 22, 193, 254},
  MaxOps <- 5

\* Three bytes across the end of a page and of a sector, in two chunks, and two
\* bytes in one.
Anchor == INSTANCE FlashAnchor WITH s <- st, FlashSize <- 12, SectorSize <- 4, BlockSize <- 8,
  PageSize <- 2, DataMax <- 2, Base <- 3, Images <- {<<{0}, {1}, {0}>>, <<{0}, {1}>>}, ChunkSize <- 2,
  Attempts <- 3, MaxFaults <- 3

Lwip == INSTANCE LwipTimeouts WITH s <- st, Wrap <- 16, Interval <- [tcp |-> 2, arp |-> 3],
  Tcp <- "tcp", Once <- 1, PoolSize <- 2, MaxLate <- 1, MaxOps <- 3

Links == INSTANCE UtilsList WITH s <- st, Elements <- <<"b", "a", "d", "c">>, Lists <- {"l", "m"}, Pool <- "l",
  Rank <- [a |-> 1, b |-> 2, c |-> 2, d |-> 3], MaxOps <- 8

Sta == INSTANCE WifiSta WITH s <- st, CacheMax <- 2, DiagMax <- 2, AddTries <- 2, MaxSeen <- 3, MaxOps <- 5,
  Beacons <- {[ssid |-> "home", bssid |-> "p", rssi |-> 1, form |-> "whole"],
              [ssid |-> "home", bssid |-> "p", rssi |-> 3, form |-> "whole"],
              [ssid |-> "home", bssid |-> "q", rssi |-> 2, form |-> "whole"],
              [ssid |-> "work", bssid |-> "q", rssi |-> 2, form |-> "whole"],
              [ssid |-> "", bssid |-> "r", rssi |-> 4, form |-> "partial"],
              [ssid |-> "", bssid |-> "", rssi |-> 0, form |-> "bad"]}

\* Three tasks for one permit, the mutex and the event; as parties of the barrier.
Sync == INSTANCE AsyncSync WITH s <- st, Tasks <- {1, 2, 3}, Kinds <- {"sem", "mutex", "event", "barrier"},
  Permits <- 1, MaxPermits <- 2, MaxOps <- 6

\* Capacity 0 is the unbounded channel.
Chan == INSTANCE AsyncChannels WITH s <- st, Tasks <- {1, 2, 3}, Caps <- {0, 1, 2}, MaxOps <- 5

Recv == INSTANCE AsyncUart WITH s <- st, MaxIsrSlots <- 2, CompletionRingSize <- 4, MaxBytes <- 4, MaxOps <- 4

Eth == INSTANCE EmacDriver WITH s <- st, NumTxBd <- 1, NumRxBd <- 2, MaxIsrSlots <- 2, CompletionRingSize <- 2,
  MaxFrames <- 2, MaxOps <- 3

\* Programs of one chunk and of two.
MCImages == {<<1>>, <<2, 1, 2>>}

----------------------------------------------------------------------------
MCInit ==
  /\ unit \in Chosen
  /\ \/ Start
     \/ unit = "timer" /\ Timer!Init /\ env = 0 /\ job = 0 /\ log = 0
     \/ unit = "clint" /\ Clint!Init /\ job = 0 /\ log = 0
     \/ unit = "clic" /\ Clic!Init /\ now = 0 /\ job = 0 /\ log = 0 /\ ops = 0
     \/ unit = "ipc" /\ Ipc!Init /\ now = 0 /\ job = 0 /\ ops = 0
     \/ unit = "dma" /\ Dma!Init /\ now = 0 /\ env = 0
     \/ unit = "uart" /\ Uart!Init /\ now = 0
     \/ unit = "hbn" /\ Hbn!Init /\ env = 0 /\ job = 0 /\ log = 0
     \/ unit = "i2c" /\ I2c!Init /\ Plain
     \/ unit = "spi" /\ Spi!Init /\ Plain
     \/ unit = "pwm" /\ Pwm!Init /\ Plain
     \/ unit = "i2s" /\ I2s!Init /\ Plain
     \/ unit = "audio" /\ Audio!Init /\ Plain
     \/ unit = "dma2d" /\ Dma2d!Init /\ Plain
     \/ unit = "glb" /\ Glb!Init /\ Plain
     \/ unit = "usb" /\ Usb!Init /\ Plain
     \/ unit = "emac" /\ Emac!Init /\ Plain
     \/ unit = "sec" /\ Sec!Init /\ Plain
     \/ unit = "aes" /\ Aes!Init /\ Plain
     \/ unit = "cores" /\ Cores!Init /\ Plain
     \/ unit = "pds" /\ Pds!Init /\ Plain
     \/ unit = "tlsf" /\ Heap!Init /\ Plain
     \/ unit = "anchor" /\ Anchor!Init /\ Plain
     \/ unit = "lwip" /\ Lwip!Init /\ Plain
     \/ unit = "ulist" /\ Links!Init /\ Plain
     \/ unit = "wifista" /\ Sta!Init /\ Plain
     \/ unit = "sync" /\ Sync!Init /\ Plain
     \/ unit = "channel" /\ Chan!Init /\ Plain
     \/ unit = "asyncuart" /\ Recv!Init /\ Plain
     \/ unit = "emacdrv" /\ Eth!Init /\ Plain

MCNext ==
  /\ UNCHANGED unit
  /\ \/ Step
     \/ unit = "timer" /\ Timer!Next /\ UNCHANGED <<env, job, log>>
     \/ unit = "clint" /\ Clint!Next /\ UNCHANGED <<job, log>>
     \/ unit = "clic" /\ Clic!Next /\ UNCHANGED <<now, job, log, ops>>
     \/ unit = "ipc" /\ Ipc!Next /\ UNCHANGED <<now, job, ops>>
     \/ unit = "dma" /\ Dma!Next /\ UNCHANGED <<now, env>>
     \/ unit = "uart" /\ Uart!Next /\ UNCHANGED now
     \/ unit = "hbn" /\ Hbn!Next /\ UNCHANGED <<env, job, log>>
     \/ unit = "i2c" /\ I2c!Next /\ Others
     \/ unit = "spi" /\ Spi!Next /\ Others
     \/ unit = "pwm" /\ Pwm!Next /\ Others
     \/ unit = "i2s" /\ I2s!Next /\ Others
     \/ unit = "audio" /\ Audio!Next /\ Others
     \/ unit = "dma2d" /\ Dma2d!Next /\ Others
     \/ unit = "glb" /\ Glb!Next /\ Others
     \/ unit = "usb" /\ Usb!Next /\ Others
     \/ unit = "emac" /\ Emac!Next /\ Others
     \/ unit = "sec" /\ Sec!Next /\ Others
     \/ unit = "aes" /\ Aes!Next /\ Others
     \/ unit = "cores" /\ Cores!Next /\ Others
     \/ unit = "pds" /\ Pds!Next /\ Others
     \/ unit = "tlsf" /\ Heap!Next /\ Others
     \/ unit = "anchor" /\ Anchor!Next /\ Others
     \/ unit = "lwip" /\ Lwip!Next /\ Others
     \/ unit = "ulist" /\ Links!Next /\ Others
     \/ unit = "wifista" /\ Sta!Next /\ Others
     \/ unit = "sync" /\ Sync!Next /\ Others
     \/ unit = "channel" /\ Chan!Next /\ Others
     \/ unit = "asyncuart" /\ Recv!Next /\ Others
     \/ unit = "emacdrv" /\ Eth!Next /\ Others

MCSpec == MCInit /\ [][MCNext]_vars

----------------------------------------------------------------------------
\* A timer that something waits for is armed, for the right moment: the
\* watchdog, the core's deadline written in two halves, the alarm, delayed and
\* sampled pads, PWM periods.
DeadlinesKept ==
  /\ unit = "timer" => Timer!WatchdogArmed
  /\ unit = "clint" => Clint!DeadlineNotEarly /\ Clint!DeadlineNotLate /\ Clint!TickWithinCarry
  /\ unit = "hbn" => Hbn!AlarmOnTime /\ Hbn!DelaysServed /\ Hbn!DelayedLevelHeld
  /\ unit = "pds" => Pds!SamplingRuns
  /\ unit = "pwm" => Pwm!TimerFollowsGroup

\* An event that may interrupt does: no compare value is passed and no edge of
\* a pin goes by unnoticed, and what is pending stays until it is cleared.
EventsSeen ==
  [][/\ unit = "timer" => Timer!NoCompareSkippedStep /\ Timer!InterruptSignalledStep
     /\ unit = "glb" => Glb!EdgeSeenStep /\ Glb!PendingStaysStep]_vars

\* Interrupt lines and the order of interrupts are what the registers and
\* levels of this moment say, whichever access or callback came last; for the
\* serial port this is said of reception, for the security engine while owners
\* are only written unit by unit.
LinesExact ==
  /\ unit = "clic" => Clic!ActiveListExact /\ Clic!LineExact
  /\ unit = "ipc" => Ipc!SignalKept
  /\ unit = "uart" => Uart!ReceiveSignalled
  /\ unit = "i2s" => I2s!I2sLineExact
  /\ unit = "audio" => Audio!AudioLineExact
  /\ unit = "glb" => Glb!PinLinesExact
  /\ unit = "usb" => Usb!UsbLineExact
  /\ unit = "sec" => Sec!OwnersInterrupted
  /\ unit = "hbn" => Hbn!LiveStatusExact

\* A device with work that it could do is about to do it: every write, clock
\* or reset that makes work possible schedules its bottom half or timer.
WorkScheduled ==
  /\ unit = "dma" => Dma!NeverForgotten
  /\ unit = "i2c" => I2c!OnlyFifoStalls
  /\ unit = "spi" => Spi!TransferScheduled
  /\ unit = "i2s" => I2s!SamplesDrain
  /\ unit = "audio" => Audio!PlaybackDrains
  /\ unit = "dma2d" => Dma2d!BlitScheduled
  /\ unit = "usb" => Usb!LoopbackComes
  /\ unit = "emac" => Emac!TransmitterRests

\* Data go through a device once and in order, across full FIFOs, linked
\* descriptors, moved rings, gated clocks and resets.  Of packets only this is
\* said: none disappears while the driver leaves descriptors for them, and the
\* receiver stays in its ring; one that can be delivered overtakes those waiting.
DataInOrder ==
  /\ unit = "dma" => Dma!MovedInOrder
  /\ unit = "uart" => Uart!BytesInOrder
  /\ unit = "spi" => Spi!FramesInOrder
  /\ unit = "usb" => Usb!LoopbackInOrder
  /\ unit = "emac" => Emac!RxIndexInRing /\ Emac!NoPacketLost

\* A step that ends a job has done all of it, and nothing else: terminal count,
\* the end of a transfer, a blit, a request of the host, a run of the cipher.
JobsExact ==
  [][/\ unit = "dma" => Dma!TcMeansDoneStep
     /\ unit = "i2c" => I2c!EndIsExactStep
     /\ unit = "dma2d" => Dma2d!BlitExactStep
     /\ unit = "usb" => Usb!RequestsInTurnStep
     /\ unit = "aes" => Aes!RoundTripStep]_vars

\* What the guest polls is true: the bus is held exactly during a transfer, the
\* end flag is up only with nothing to send, a stopped group says so, the PHY
\* tells the link that decides about packets.
StatusTrue ==
  /\ unit = "i2c" => I2c!BusReleased
  /\ unit = "spi" => Spi!EndMeansSent
  /\ unit = "pwm" => Pwm!StopIsReported
  /\ unit = "emac" => Emac!PhyTellsLink

\* The security engine computes over the message and the position it was given,
\* however the message is cut: for a descriptor's CRC whatever else is computed
\* in between, for a digest or the registers' CRC while nobody else uses the
\* accumulator or the result register that all sessions share.
EngineExact ==
  /\ unit = "sec" => Sec!CrcOfWhole /\ Sec!DigestOfSession
  /\ unit = "aes" => Aes!TweakOfPosition

\* Clocks, resets, power and sleep take effect whatever the order of the writes:
\* clients and cores follow their registers, isolated pads hold, and no sleep
\* goes past a wake-up by a level or takes a change of mode for one.
PowerFollowed ==
  /\ unit = "glb" => Glb!ClientsFollow /\ Glb!IsolationHolds
  /\ unit = "cores" => Cores!CoresRunWhenReleased /\ Cores!LpParkedAtBoot /\ Cores!GatedCoresKeepPlace
  /\ unit = "pds" => Pds!NoSleepThroughWakeup /\ Pds!NoSpuriousEdge

\* Blocks of the heap fill the pool and know their neighbours, the lists and
\* bitmaps show exactly the free ones, what the program holds is its own and
\* keeps its content, and a request fails only when nothing fits.
HeapConsistent ==
  unit = "tlsf" => /\ Heap!HeapSound /\ Heap!FreeListsExact
                   /\ Heap!HeldIntact /\ Heap!FitFound

\* The host goes on only when the flash holds the image (for an image of one
\* chunk: if it did not have to repeat the erase), no other byte has changed,
\* and one fault on the wire or in the flash is repaired.
FlashedExactly ==
  unit = "anchor" => Anchor!ImageWritten /\ Anchor!OnlyNamedBytes /\ Anchor!OneFaultTolerated

\* Every due time-out is handled, a timer is pending once unless the pool had no
\* element for it, and the sleep time never goes past a due one, across the wrap
\* of the clock.
TimeoutsKept == unit = "lwip" => Lwip!DueHandled /\ Lwip!OnePending /\ Lwip!NoOversleep

\* What the radio support keeps is what happened: lists and free elements, the
\* interface, the tables of beacons, the connection.
RadioStateFaithful ==
  /\ unit = "ulist" => Links!ListsFaithful /\ Links!TakenDetached
  /\ unit = "wifista" => /\ Sta!InterfaceReal /\ Sta!DiagShowsLatest
                         /\ Sta!StrongestFound /\ Sta!ConnectionKnown

\* Permits and locks are never duplicated, and a task waits only for what is not
\* there, wherever time-outs and cancellation come; nothing is lost and nobody
\* is out of step unless a woken task uses the primitive inside the set, arrive
\* or time-out that woke it, which the code does not prevent.
WaitersServed ==
  unit = "sync" => /\ Sync!PermitsConserved /\ Sync!NoLostWaiter
                   /\ Sync!NoIdleWaiter /\ Sync!InStep

\* A value is never in two places or out of order, and no end of a channel waits
\* for what is there.  A value sent is in one place and a failed send in none,
\* unless a task uses the channel inside the time-out that resumed it.
ChannelsFaithful ==
  unit = "channel" => Chan!ValueConserved /\ Chan!SendOrder /\ Chan!NoIdleEnd

\* Bytes and frames reach the task once and in order, a task whose data are
\* there is about to be woken, and the slots taken are those waited for.
DriversDeliver ==
  /\ unit = "asyncuart" => Recv!BytesInOrder /\ Recv!ReaderWoken /\ Recv!NoSlotLeak
  /\ unit = "emacdrv" => Eth!FramesInOrder /\ Eth!SlotsMatch
===============================================================================
