------------------------------ MODULE BL808Emac ------------------------------
(***************************************************************************)
(* The Ethernet controller (hw/net/bl808_emac.c): two rings of descriptors *)
(* in one array, the PHY behind MDIO and the emulator's packet queue in    *)
(* front of it (external).  A packet is its number; a descriptor is its    *)
(* ownership bit (TX_BD_READY and RX_BD_EMPTY are the same bit), whether   *)
(* it asks for an interrupt and whether it ends its ring.                  *)
(***************************************************************************)
EXTENDS Integers, Sequences, FiniteSets

CONSTANTS MAX_BD,       \* BL808_EMAC_MAX_BD
          Statuses,     \* status words the driver writes
          MaxPackets,   \* bound on packets from the network
          MaxOps        \* bound on accesses

VARIABLES s,            \* BL808EmacState, the packet queue, and the packets
                        \* written to a descriptor (got) or refused for good
          ops           \* accesses so far

vars == <<s, ops>>

Min2(a, b) == IF a < b THEN a ELSE b

----------------------------------------------------------------------------
num_tx(d) == d.tx_bd_num
num_rx(d) == MAX_BD - num_tx(d)
rx_start(d) == num_tx(d)

next_tx_idx(d, idx) == IF d.bd[idx].wrap \/ idx + 1 >= num_tx(d) THEN 0 ELSE idx + 1

next_rx_idx(d, idx) ==
  IF d.bd[idx].wrap \/ idx + 1 >= MAX_BD THEN rx_start(d) ELSE idx + 1

update_irq(d) == [d EXCEPT !.irq = d.int_src \ d.int_mask # {}]

----------------------------------------------------------------------------
(* The PHY.                                                                *)

link_is_up(d) == ~d.pdown /\ d.carrier

phy_update_link(d) ==
  [d EXCEPT !.link_st = link_is_up(d), !.an_comp = link_is_up(d) /\ d.autoen]

phy_reset(d) == phy_update_link([d EXCEPT !.pdown = FALSE, !.autoen = TRUE])

\* A write of the PHY's control register.
mdio_write(d, pdown, autoen, reset) ==
  IF reset THEN phy_reset(d) ELSE phy_update_link([d EXCEPT !.pdown = pdown, !.autoen = autoen])

----------------------------------------------------------------------------
(* Transmission: from the current descriptor on while descriptors are      *)
(* ready, at most once round the ring.  Without a link they are consumed   *)
(* all the same.                                                           *)

do_tx(d) ==
  LET one(e) ==
        LET i == e.tx_bd_idx
        IN [e EXCEPT !.bd[i].own = FALSE,
                     !.int_src = IF e.bd[i].int THEN @ \cup {"TX_B"} ELSE @,
                     !.tx_bd_idx = next_tx_idx(e, i)]
      pass[k \in 0 .. MAX_BD] ==
        IF k = 0 THEN d
        ELSE LET e == pass[k - 1]
             IN IF e.bd[e.tx_bd_idx].own THEN one(e) ELSE e
  IN IF ~d.tx_en \/ num_tx(d) = 0 THEN d ELSE update_irq(pass[num_tx(d)])

----------------------------------------------------------------------------
(* Reception: a packet is "taken" (the size is returned), "refused" (-1)   *)
(* or wanted "later" (0).                                                  *)

can_receive(d) == d.rx_en /\ link_is_up(d) /\ num_rx(d) # 0 /\ d.bd[d.rx_bd_idx].own

receive(d, p) ==
  LET i == d.rx_bd_idx
  IN IF ~d.rx_en \/ ~link_is_up(d) THEN [d |-> d, fate |-> "taken"]
     ELSE IF num_rx(d) = 0 THEN [d |-> d, fate |-> "refused"]
     ELSE IF ~d.bd[i].own
       THEN [d |-> update_irq([d EXCEPT !.int_src = @ \cup {"BUSY"}]), fate |-> "later"]
     ELSE [d |-> update_irq([d EXCEPT !.bd[i].own = FALSE, !.got = @ \cup {p},
                                      !.int_src = IF d.bd[i].int THEN @ \cup {"RX_B"} ELSE @,
                                      !.rx_bd_idx = next_rx_idx(d, i)]),
           fate |-> "taken"]

\* External, the emulator's queue: what cannot be delivered now waits; a
\* receiver that once asked for "later" is left alone until it flushes.
deliver(d, p) ==
  LET r == receive(d, p)
  IN CASE r.fate = "taken"   -> r.d
       [] r.fate = "refused" -> [r.d EXCEPT !.refused = @ \cup {p}]
       [] r.fate = "later"   -> [r.d EXCEPT !.disabled = TRUE, !.queue = <<p>> \o @]

drain(d) ==
  LET pass[k \in 0 .. Len(d.queue)] ==
        IF k = 0 THEN d
        ELSE LET e == pass[k - 1]
             IN IF e.disabled THEN e ELSE deliver([e EXCEPT !.queue = Tail(@)], Head(e.queue))
  IN pass[Len(d.queue)]

flush_queued_packets(d) == drain([d EXCEPT !.disabled = FALSE])

\* A packet that can be delivered goes before the ones that wait.
send(d, p) ==
  IF d.disabled \/ ~can_receive(d) THEN [d EXCEPT !.queue = Append(@, p)]
  ELSE drain(deliver(d, p))

----------------------------------------------------------------------------
(* Registers.                                                              *)

write_bd(d, i, status) ==
  LET e == [d EXCEPT !.bd[i] = status]
  IN IF i < num_tx(d) /\ status.own THEN do_tx(e) ELSE e

write_mode(d, rx_en, tx_en) ==
  LET e == [d EXCEPT !.rx_en = rx_en, !.tx_en = tx_en]
      f == IF ~d.tx_en /\ tx_en THEN do_tx(e) ELSE e
  IN IF ~d.rx_en /\ rx_en /\ link_is_up(f) THEN flush_queued_packets(f) ELSE f

write_int_src(d, bits) == update_irq([d EXCEPT !.int_src = @ \ bits])

write_int_mask(d, bits) == update_irq([d EXCEPT !.int_mask = bits])

write_tx_bd_num(d, n) ==
  LET e == [d EXCEPT !.tx_bd_num = n,
                     !.tx_bd_idx = Min2(@, IF n = 0 THEN 0 ELSE n - 1),
                     !.rx_bd_idx = n]
  IN IF d.tx_en THEN do_tx(e) ELSE e

link_status_changed(d, carrier) ==
  LET e == phy_update_link([d EXCEPT !.carrier = carrier])
  IN IF e.rx_en /\ link_is_up(e) THEN flush_queued_packets(e) ELSE e

Blank == [own |-> FALSE, int |-> FALSE, wrap |-> FALSE]
Sources == {"TX_B", "RX_B", "BUSY"}

Cleared == [rx_en |-> FALSE, tx_en |-> FALSE, int_src |-> {}, int_mask |-> Sources,
            irq |-> FALSE, tx_bd_num |-> MAX_BD \div 2, tx_bd_idx |-> 0, rx_bd_idx |-> MAX_BD \div 2,
            bd |-> [i \in 0 .. MAX_BD - 1 |-> Blank], pdown |-> FALSE, autoen |-> TRUE,
            link_st |-> TRUE, an_comp |-> TRUE, carrier |-> TRUE, queue |-> <<>>,
            disabled |-> FALSE, n |-> 0, got |-> {}, refused |-> {}]

\* A reset touches neither the cable nor the queue.
reset(d) ==
  update_irq(phy_reset([Cleared EXCEPT !.carrier = d.carrier, !.queue = d.queue,
    !.disabled = d.disabled, !.n = d.n, !.got = d.got, !.refused = d.refused]))

Init == s = Cleared /\ ops = 0

\* What changes nothing does not count.
Step(d) == ops < MaxOps /\ ops' = ops + 1 /\ s' = d /\ s' # s

WriteBd == \E i \in 0 .. MAX_BD - 1, status \in Statuses : Step(write_bd(s, i, status))
WriteMode == \E rx, tx \in BOOLEAN : Step(write_mode(s, rx, tx))
ClearSource == \E b \in s.int_src : Step(write_int_src(s, {b}))
SetMask == \E bits \in {{}, Sources} : Step(write_int_mask(s, bits))
SetBdNum == \E n \in 0 .. MAX_BD : Step(write_tx_bd_num(s, n))
WritePhy == \E pdown, autoen, rst \in BOOLEAN : Step(mdio_write(s, pdown, autoen, rst))
Reset == Step(reset(s))
Cable == Step(link_status_changed(s, ~s.carrier))
Arrive == /\ s.carrier /\ s.n < MaxPackets
          /\ s' = send([s EXCEPT !.n = @ + 1], s.n + 1)
          /\ UNCHANGED ops

Next == \/ WriteBd \/ WriteMode \/ ClearSource \/ SetMask \/ SetBdNum \/ WritePhy \/ Reset
        \/ Cable \/ Arrive

Spec == Init /\ [][Next]_vars

----------------------------------------------------------------------------
\* A transmitter that is on never rests on a descriptor that is ready: in
\* whatever order the driver fills, moves and enables the ring.
TransmitterRests == s.tx_en /\ num_tx(s) > 0 => ~s.bd[s.tx_bd_idx].own

\* The receive position stays inside the receive ring as it is moved.
RxIndexInRing == num_rx(s) > 0 => s.rx_bd_idx \in rx_start(s) .. MAX_BD - 1

\* A packet from the network is in a descriptor, waits in the queue, or came
\* while the driver had left no descriptor to receive at all.  (Their order is
\* not kept: one that can be delivered at once overtakes those in the queue.)
NoPacketLost ==
  LET waiting == {s.queue[i] : i \in 1 .. Len(s.queue)}
  IN /\ 1 .. s.n = s.got \cup waiting \cup s.refused
     /\ s.got \cap waiting = {}

\* What the PHY's status says of the link is what decides about packets.
PhyTellsLink == s.link_st = link_is_up(s) /\ s.an_comp = (link_is_up(s) /\ s.autoen)
===============================================================================
