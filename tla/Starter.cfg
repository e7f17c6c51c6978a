\* Two servers, two lines of somebody else's, any number of runs.
SPECIFICATION Spec
CONSTANTS
  Own = {l1, l2}
  Address = {Localhost, Server}
  Localhost = Localhost
  Null = Null
SYMMETRY OwnSymmetry
INVARIANTS TypeOK PlayingIsRedirected OwnLinesKept AttributesRestored EndedIsClean
