SPECIFICATION SummarySpec
CONSTANTS
  t1 = t1  t2 = t2  w1 = w1  ann = ann
  Users = {ann}
  Workers <- OneWorker
  Threads <- TwoThreads
  WorkerOf <- Shared
  Uses <- BothUses
  Period <- MonthOfThree
  MaxSpan = 1
  Limit = 1
  RateWindow = 2
  DedupWindow = 0
  FirstDay = 2
  TicksPerDay = 1
SYMMETRY EitherThread
INVARIANTS
  AnswersDescribeFigures
  OverrunIsBounded
PROPERTIES
  ShownOnceShownAgain
CHECK_DEADLOCK FALSE
