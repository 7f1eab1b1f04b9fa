CONSTANTS
  SwCount = 5
  MaxLen = 5
  Cablings <- MCCablings
  Dests <- MCTwoDests
SPECIFICATION Spec
CHECK_DEADLOCK FALSE
INVARIANT TypeOK
INVARIANT InstalledAcyclic
INVARIANT ShortestRoutesInstalled
INVARIANT PreviousMirrorsAlternates
