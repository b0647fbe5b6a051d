\* No call has a timeout; the caller core restarts once, and tokens are used
\* again.
CONSTANTS
  c1 = c1  c2 = c2  c3 = c3  d0 = d0  lp = lp
  Calls = {c1, c2, c3}
  Routes = {d0}
  RouteOf <- MCOneRoute
  Handled = {c1, c2}
  Timed = {}
  MaxPendingCalls = 1
  MaxIpcCompletions = 1
  MaxToken = 3
  MaxRestarts = 1
  NoCall = NoCall
SPECIFICATION FairSpec
INVARIANTS ResultMatches NoLostCall TokenPublishesRequest
PROPERTIES CallsFinish
