\* Eight leaves fill the tree and the ring of three roots wraps twice; every
\* path put together from nodes of the tree is tried.
SPECIFICATION InteropSpec
CONSTANTS
  Depth = 3
  RootHistoryLen = 3
  Commitments = {c1, c2}
  Zero = Zero
INVARIANTS HistoryHoldsReferenceRoots RebuiltPathsAreAccepted OnlyLeavesVerify InstructionsMatchPrograms 
\* The tree fills up, and an exchange is the last step.
CHECK_DEADLOCK FALSE
