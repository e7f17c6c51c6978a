\* The loop goes on for ever; two connections, and descriptors for both. The process may end.
SPECIFICATION FairSpec
CONSTANTS
  First = GPCM
  Second = GPSP
  Available = Available
  Service = {GPCM, GPSP}
  Free = Free
  Connection = {c1, c2}
  MaxDescriptor = 5
CHECK_DEADLOCK FALSE
PROPERTIES EndedClientIsDeleted WaitingIsAccepted
