\* The first call may time out, the second has no timeout.
CONSTANTS
  c1 = c1  c2 = c2  c3 = c3  d0 = d0  lp = lp
  Calls = {c1, c2}
  Routes = {d0}
  RouteOf <- MCOneRoute
  Handled = {c1, c2}
  Timed = {c1}
  MaxPendingCalls = 2
  MaxIpcCompletions = 1
  MaxToken = 3
  MaxRestarts = 0
  NoCall = NoCall
SPECIFICATION FairSpec
PROPERTIES CallsFinish
