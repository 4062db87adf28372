SPECIFICATION MCSpec
CONSTANTS
  t1 = t1
  t2 = t2
  Tasks = {t1, t2}
  Threads = {0, 1}
  MaxCalls = 3
INVARIANTS ScheduledIsListed ListsOwned QuiescentIsUnlisted OneRunner DestroyedIsForgotten
PROPERTIES RescheduledRuns CleanupEnds
CHECK_DEADLOCK FALSE
