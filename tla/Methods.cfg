\* All methods and the validation with two Foos and at most two workers.
CONSTANTS
  N = 2
  Limit = 1
  Ticks <- MCTicks
  MaxStill = 1
  MaxWorkers = 2
  Faults <- MCFaults
SPECIFICATION FairSpec
INVARIANTS SubjectOutlivesFoos LeavesNothing NoSharedDraws MeasuresWhatItSays ScoreWithinTwofold ValidationDetects EveryWorkerCounts
PROPERTY MethodsReturn
