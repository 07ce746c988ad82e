SPECIFICATION Spec
CONSTANTS
  Callers = {c1, c2}
  Fds = {n1, n2, n3, n4, n5}
  Backlog = 2
  Free = Free
  Foreign = Foreign
  Unset = Unset
SYMMETRY PairSymmetry
INVARIANTS TypeOK HeldIsOwned NoLeak FlagsAsAsked AcceptNeverWaits
PROPERTY ImplementsAtomicPair
