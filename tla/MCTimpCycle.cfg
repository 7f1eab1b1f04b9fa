CONSTANTS
  V = 3
  MaxOut = 3
  Graphs <- MCGraphs
SPECIFICATION FairSpec
CHECK_DEADLOCK FALSE
INVARIANT TypeOK
INVARIANT Correct
INVARIANT DoneIsAcyclic
PROPERTY Terminates
