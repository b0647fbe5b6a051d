-------------------------------- MODULE WifiSta --------------------------------
(***************************************************************************)
(* The station side of the radio driver (wifi_vendor_support.c, built with *)
(* BL808_WIFI_CONNECT_CACHE_HINT): start-up, the interface, scanning with  *)
(* its two tables, connecting and the indications of the firmware.  The    *)
(* driver polls the firmware while it waits, so indications are delivered  *)
(* in the middle of its calls.  The firmware is external; rssi orders the  *)
(* signals, and an access point is told by ssid and bssid.                 *)
(***************************************************************************)
EXTENDS Integers, Sequences, FiniteSets, SequencesExt

CONSTANTS Beacons,      \* what the firmware may report: ssid, bssid, rssi and
                        \* form: "whole"; "partial" with an empty ssid, no
                        \* channel of the band or no specific bssid; or
                        \* "bad" with no indication or no length of an ssid
          CacheMax,     \* VENDOR_SCAN_CACHE_MAX
          DiagMax,      \* VENDOR_SCAN_DIAG_MAX
          AddTries,     \* attempts to add the interface
          MaxSeen,      \* bound on beacons of one scan
          MaxOps        \* bound on calls

VARIABLES s,            \* driver and firmware; seen is what was reported since the
                        \* scan began, last the last indication since the connect
          ops           \* calls so far

vars == <<s, ops>>
Nothing == [ssid |-> "", bssid |-> "", rssi |-> -1, form |-> "none"]
NoMac == ""
Unknown == "unknown"
Slots == 1 .. CacheMax
Ssids == {b.ssid : b \in {x \in Beacons : x.form = "whole"}}
Macs == {NoMac} \cup {b.bssid : b \in {x \in Beacons : x.form = "whole"}}

----------------------------------------------------------------------------
(* The tables of a scan *)

\* A rejected beacon leaves its place as it was, and is counted all the same.
scan_diag_store(d, b) ==
  IF b.form = "bad" THEN d ELSE [d EXCEPT !.diag[1 + (d.items % DiagMax)] = b]

diag_count(d) == IF d.items < DiagMax THEN d.items ELSE DiagMax
scan_diag_get(d, index) ==
  LET start == IF d.items > DiagMax THEN d.items % DiagMax ELSE 0
  IN d.diag[1 + ((start + index) % DiagMax)]

Used(d) == {i \in Slots : d.cache[i] # Nothing}
FirstOf(S) == CHOOSE i \in S : \A j \in S : i <= j

weakest_slot(d) == FirstOf({i \in Slots : \A j \in Slots : d.cache[i].rssi <= d.cache[j].rssi})

\* The entry of this access point, else a free one, else the weakest.
slot_for(d, b) ==
  LET same == {i \in Used(d) : d.cache[i].ssid = b.ssid /\ d.cache[i].bssid = b.bssid}
  IN CASE same # {} -> FirstOf(same)
       [] same = {} /\ Used(d) # Slots -> FirstOf(Slots \ Used(d))
       [] OTHER -> weakest_slot(d)

scan_cache_store(d, b) ==
  LET i == slot_for(d, b)
      weaker == d.cache[i] # Nothing /\ b.rssi < d.cache[i].rssi /\ d.cache[i].bssid = b.bssid
  IN IF b.form # "whole" \/ weaker THEN d
     ELSE [d EXCEPT !.cache[i] = b]

\* The strongest entry of a network, or of the access point asked for.
scan_cache_find(d, ssid, mac) ==
  LET fit == {i \in Used(d) : d.cache[i].ssid = ssid /\ mac \in {NoMac, d.cache[i].bssid}}
  IN IF fit = {} THEN Nothing
     ELSE d.cache[FirstOf({i \in fit : \A j \in fit : d.cache[j].rssi <= d.cache[i].rssi})]

----------------------------------------------------------------------------
(* Indications of the firmware *)

connect_cb(d, status) == [d EXCEPT !.connect_done = status, !.last_status = status]

disconnect_cb(d) == [d EXCEPT !.disconnect_done = TRUE, !.connect_done = Unknown,
                              !.last_status = "gone"]

\* The beacon goes into the first table at the place the count names.
beacon_cb(d, b) ==
  LET e == scan_diag_store(d, b)
  IN scan_cache_store([e EXCEPT !.items = @ + 1], b)

event_cb(d) == [d EXCEPT !.scan_done = @ + 1]

deliver(d, ind) ==
  CASE ind.kind = "beacon" -> [beacon_cb(d, ind.beacon) EXCEPT !.seen = Append(@, ind.beacon)]
    [] ind.kind = "scan_done" -> event_cb(d)
    [] ind.kind = "connect" -> [connect_cb(d, ind.status) EXCEPT !.last = ind.status]
    [] OTHER -> [disconnect_cb(d) EXCEPT !.last = "gone"]

----------------------------------------------------------------------------
(* Calls; a call that asks the firmware something is split at the request *)

\* bl606a0_wifi_init and bl_main_phy_up succeed or not.
vendor_init(d, ok) == IF d.started THEN d ELSE [d EXCEPT !.started = ok]

sta_enable_begins(d) ==
  IF ~d.started \/ d.enabled THEN d ELSE [d EXCEPT !.phase = "adding", !.tries = 0]

add_if_ok(rc, status) == rc = 0 /\ status = "ok"

\* The firmware added an interface or not, and its answer came or did not.
add_if(d, added, rc) ==
  LET e == IF added THEN [d EXCEPT !.ifs = @ \cup {Cardinality(@) + 1}] ELSE d
      inst == IF added /\ rc = 0 THEN Cardinality(e.ifs) ELSE 0
      status == IF added /\ rc = 0 THEN "ok" ELSE "fail"
  IN CASE add_if_ok(rc, status) -> [e EXCEPT !.vif = inst, !.enabled = TRUE, !.phase = "idle"]
       [] ~add_if_ok(rc, status) /\ d.tries + 1 < AddTries -> [e EXCEPT !.tries = @ + 1]
       [] OTHER -> [e EXCEPT !.phase = "idle", !.tries = 0]

\* Counts and tables are cleared before the request goes out.
scan_begins(d) ==
  [d EXCEPT !.phase = "scan", !.scan_done = 0, !.items = 0, !.seen = <<>>, !.scanning = TRUE,
            !.diag = [i \in 1 .. DiagMax |-> Nothing], !.cache = [i \in Slots |-> Nothing]]

scan_returns(d) == [d EXCEPT !.phase = "idle"]

\* The access point a connect is pointed at, if any.
connect_mac(d, ssid, mac) ==
  LET found == scan_cache_find(d, ssid, mac) IN IF found = Nothing THEN mac ELSE found.bssid

connect_begins(d, ssid, mac) ==
  [d EXCEPT !.phase = "connect", !.connect_done = Unknown, !.last_status = Unknown,
            !.disconnect_done = FALSE, !.last = Unknown, !.asked = TRUE,
            !.hint = connect_mac(d, ssid, mac)]

\* Mutant: the old result is forgotten once the request is out.
clearedAfterConnect(d) == [d EXCEPT !.phase = "idle", !.connect_done = Unknown]

connect_returns(d) == [d EXCEPT !.phase = "idle"]

----------------------------------------------------------------------------
Init ==
  /\ s = [started |-> FALSE, enabled |-> FALSE, vif |-> 0, ifs |-> {}, tries |-> 0,
          phase |-> "idle", cache |-> [i \in Slots |-> Nothing],
          diag |-> [i \in 1 .. DiagMax |-> Nothing], items |-> 0, scan_done |-> 0,
          connect_done |-> Unknown, last_status |-> Unknown, disconnect_done |-> FALSE,
          hint |-> NoMac, scanning |-> FALSE, asked |-> FALSE, linked |-> FALSE,
          seen |-> <<>>, last |-> Unknown]
  /\ ops = 0

Step(d) == ops < MaxOps /\ ops' = ops + 1 /\ s' = d
Goes(d) == s' = d /\ UNCHANGED ops

VendorInit == s.phase = "idle" /\ ~s.started /\ \E ok \in BOOLEAN : Step(vendor_init(s, ok))
StaEnable == s.phase = "idle" /\ s.started /\ ~s.enabled /\ Step(sta_enable_begins(s))
AddIf == s.phase = "adding" /\ \E added \in BOOLEAN, rc \in {0, 1} : Goes(add_if(s, added, rc))
Scan == s.phase = "idle" /\ s.enabled /\ Step(scan_begins(s))
ScanReturns == s.phase = "scan" /\ Goes(scan_returns(s))
Connect == /\ s.phase = "idle" /\ s.enabled
           /\ \E ssid \in Ssids, mac \in Macs : Step(connect_begins(s, ssid, mac))
ConnectReturns == s.phase = "connect" /\ Goes(connect_returns(s))
\* Changes nothing here: the firmware answers with an indication.
Disconnect == s.phase = "idle" /\ s.enabled /\ s.linked /\ Step(s)

\* What the firmware does and the driver's poll picks up.
Ind(kind) == [kind |-> kind, beacon |-> Nothing, status |-> Unknown]
FwBeacon == /\ s.scanning /\ Len(s.seen) < MaxSeen
            /\ \E b \in Beacons : Goes(deliver(s, [Ind("beacon") EXCEPT !.beacon = b]))
FwScanDone == s.scanning /\ Goes([deliver(s, Ind("scan_done")) EXCEPT !.scanning = FALSE])
FwConnect == /\ s.asked
             /\ \E status \in {"ok", "refused"} :
                  Goes([deliver(s, [Ind("connect") EXCEPT !.status = status])
                        EXCEPT !.asked = FALSE, !.linked = (status = "ok")])
FwDisconnect == s.linked /\ Goes([deliver(s, Ind("disconnect")) EXCEPT !.linked = FALSE])

Next == \/ VendorInit \/ StaEnable \/ AddIf \/ Scan \/ ScanReturns \/ Connect \/ ConnectReturns
        \/ Disconnect \/ FwBeacon \/ FwScanDone \/ FwConnect \/ FwDisconnect

Spec == Init /\ [][Next]_vars

----------------------------------------------------------------------------
\* The interface the driver uses is one the firmware has, whatever answers of
\* the earlier attempts were refused or lost.
InterfaceReal == s.enabled => s.vif \in s.ifs

\* The diagnostic table shows the last beacons of this scan, in order, also
\* those that came before the request returned.  In the place of a rejected
\* one, which counts too, it shows what was in the place before: nothing, or a
\* beacon that is older than the table is long.
DiagShowsLatest ==
  LET n == Len(s.seen)
      kept(k) == {m \in 1 .. k : (k - m) % DiagMax = 0 /\ s.seen[m].form # "bad"}
      shown(k) == IF kept(k) = {} THEN Nothing
                  ELSE s.seen[CHOOSE m \in kept(k) : \A l \in kept(k) : l <= m]
  IN /\ s.items = n
     /\ \A i \in 0 .. diag_count(s) - 1 : scan_diag_get(s, i) = shown(n - diag_count(s) + i + 1)

\* However many beacons came, an access point is cached once, and the strongest
\* one of this scan is what a connect to its network is pointed at: of those
\* whose beacon is whole, the others (a hidden network) are never cached.
StrongestFound ==
  /\ \A i, j \in Used(s) : s.cache[i].ssid = s.cache[j].ssid /\ s.cache[i].bssid = s.cache[j].bssid
                             => i = j
  /\ LET whole == {k \in 1 .. Len(s.seen) : s.seen[k].form = "whole"}
         best == {k \in whole : \A m \in whole : s.seen[m].rssi <= s.seen[k].rssi}
     IN best # {} => \E k \in best : scan_cache_find(s, s.seen[k].ssid, NoMac).rssi = s.seen[k].rssi

\* What the driver says of the connection is the last indication since the
\* connect was called, also one that came before the call returned.
ConnectionKnown ==
  /\ s.connect_done = (IF s.last = "gone" THEN Unknown ELSE s.last)
  /\ s.last = "gone" => s.disconnect_done
===============================================================================
