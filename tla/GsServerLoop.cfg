\* Three connections and two descriptors for them. The process may end.
SPECIFICATION Spec
CONSTANTS
  First = GPCM
  Second = GPSP
  Available = Available
  Service = {GPCM, GPSP}
  Free = Free
  Connection = {c1, c2, c3}
  MaxDescriptor = 5
CHECK_DEADLOCK FALSE
SYMMETRY ConnectionSymmetry
INVARIANTS TypeOK EveryClientPassed NoStaleBit DescriptorsOwned StartedWhole
