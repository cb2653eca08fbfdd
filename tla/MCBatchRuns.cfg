CONSTANTS
  Runs = {r1}
  PROGRESS_EVERY = 3
  MaxItems = 5
SPECIFICATION FairSpec
INVARIANTS FinishedCountsAddUp CancelWithinOneWindow
PROPERTIES KeepsContract LiveRunEnds
