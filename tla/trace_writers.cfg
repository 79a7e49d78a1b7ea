\* Two writers of one run and one of another; two statements fail.
SPECIFICATION FairSpec
CONSTANTS
  Runs = {"r1", "r2"}
  Writers = {"w1", "w2", "other"}
  WriterRun <- MCWriterRun
  Clients = {"c1"}
  Watches <- MCWatches
  Quota = 2
  MaxFaults = 2
INVARIANTS TypeOK GapFree SoleWriterNeverConflicts AppendedOnceInOrder
PROPERTIES AppendAnswered ImplementsAppendLog
