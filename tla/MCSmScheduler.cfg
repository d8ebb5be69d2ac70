\* A table of three slots; callbacks start and cancel while it is walked.
SPECIFICATION FairSpec
CONSTANTS
  f = f
  g = g
  Fns <- MCFns
  NoFn = nofn
  Intervals = {1}
  Repeats <- MCRepeats
  NumTask = 3
  Forever = 9
  MaxRepeat = 2
  MaxStarts = 3
  MaxCancels = 1
INVARIANTS TableIsSound CancelledIsGone RunsAsAsked
PROPERTIES EveryTaskRuns
