SPECIFICATION Spec
CONSTANTS
  Nodes = {n1, n2, n3}
  Values = {n1, n2, n3}
  Entry <- MCEntry
  NoValue = NoValue
  ProposalIncrement = 3
  MaxRnd = 2
  MaxPrepares = 2
  MaxLearners = 1
CONSTRAINT Bound
SYMMETRY Symmetry
INVARIANTS TypeOK OneValuePerRound Agreement LearnedIsChosen
PROPERTY ImplementsConsensus
CHECK_DEADLOCK FALSE
