SPECIFICATION Spec
CONSTANTS
  NumProjects = 1
  Requests = {due, forced, one}
  DefaultRequest = due
  Callers = {ui, poller}
  Poller = poller
  Threads = {t1, t2}
  Jobs = {j1, j2, j3, j4}
  Keep = 1
  MaxQueued = 2
  MaxRestarts = 1
  NoJob = NoJob
  NoKey = NoKey
  NoThread = NoThread
SYMMETRY Symmetry
INVARIANTS NoTwins Delivery Retention
PROPERTY KeepsPromise
