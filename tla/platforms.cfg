SPECIFICATION Spec
CONSTANTS
  Browsers = {b1, b2}
  Requests = {r1, r2}
  Threads = {t1, t2}
  Workspaces = {w1}
  MaxCalls = 3
  MaxGrants = 3
  MaxVisits = 2
  MaxFlows = 2
SYMMETRY Interchangeable
CHECK_DEADLOCK FALSE
INVARIANTS TypeOK NothingLeftBehind TokensAreKept
PROPERTIES IsOneCall CommitsWhatIsReady FailedRefreshIsShown
