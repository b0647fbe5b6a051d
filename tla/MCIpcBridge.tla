---------------------------- MODULE MCIpcBridge ----------------------------
(* Instances of IpcBridge: three calls over two routes, the first two over *)
(* the same route; the last has no handler on the remote core.             *)
EXTENDS IpcBridge

CONSTANTS c1, c2, c3, d0, lp

MCRouteOf == [c \in Calls |-> IF c = c3 THEN lp ELSE d0]
MCOneRoute == [c \in Calls |-> d0]
=============================================================================
