\* The calls of one route may time out at any moment.
CONSTANTS
  c1 = c1  c2 = c2  c3 = c3  d0 = d0  lp = lp
  Calls = {c1, c2, c3}
  Routes = {d0, lp}
  RouteOf <- MCRouteOf
  Handled = {c1, c2}
  Timed = {c1, c2}
  MaxPendingCalls = 2
  MaxIpcCompletions = 1
  MaxToken = 3
  MaxRestarts = 0
  NoCall = NoCall
SPECIFICATION Spec
INVARIANTS TypeOK ResultMatches
PROPERTIES ImplementsRpc
