SPECIFICATION Spec
CONSTANTS
  QUEUE_SIZE = 2
  Elt = {e1, e2}
  NullElt = NullElt
  HiCrit = {2, 3}
SYMMETRY EltSymmetry
VIEW Rings
INVARIANT TypeOK
PROPERTY ImplementsPrioFifo
