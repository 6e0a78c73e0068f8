SPECIFICATION FairSpec
CONSTANTS
  NumProjects = 2
  Requests = {due}
  DefaultRequest = due
  Callers = {ui, poller}
  Poller = poller
  Threads = {t1}
  Jobs = {j1, j2, j3}
  Keep = 1
  MaxQueued = 2
  MaxRestarts = 0
  NoJob = NoJob
  NoKey = NoKey
  NoThread = NoThread
PROPERTIES WaitingJobStarts EveryProjectRuns
