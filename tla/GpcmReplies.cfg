\* One connection after another over a network that does everything, on MySQL; every
\* query may fail, and one that carries more than the name may become another of its kind.
SPECIFICATION FairSpec
CONSTANTS
  Reply <- MCReply
  p1 = txt
  p2 = txt
  Password = {txt}
  w1 = w1
  w2 = w1
  WirePassword = {w1}
  Decoded <- MCDecoded
  Email = {txt}
  Country = {txt}
  DefaultCountry = txt
  ServerChallenge = {s1, s2}
  ClientChallenge = {r1}
  Garbled = Garbled
  Empty = Empty
  NoData = NoData
  Name = {ann}
  Client = {c1}
  Plain = {ann}
  Backend = "mysql"
  FaultyQueries = {"count", "select", "insert", "update"}
  NetworkFaults = {"blocked", "partial", "error"}
  MaxUsers = 1
INVARIANTS OneReplyQueued RepliesFitState
PROPERTIES LoginNeedsProof FailedIsFrozen EndedIsDeleted ChallengeComes
