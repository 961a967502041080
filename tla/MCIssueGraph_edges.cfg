SPECIFICATION Spec
CONSTANTS
  Numbers = {1, 2, 3}
  Writers = {w1, w2}
SYMMETRY WriterSymmetry
INVARIANT Acyclic
INVARIANT RefusalJustified
INVARIANT NoDanglingEdges
INVARIANT BacklogMoves
