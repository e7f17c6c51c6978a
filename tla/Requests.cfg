\* Three requests to a connection, cut and joined anywhere.
SPECIFICATION Spec
CONSTANTS
  Request <- MCRequest
  MaxSent = 3
CHECK_DEADLOCK FALSE
INVARIANTS HandledInOrder OneRequestActed
PROPERTIES WholeRequestHandled
