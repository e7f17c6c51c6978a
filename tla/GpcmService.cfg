\* The MySQL backend implements the service; two accounts, two connections;
\* insertions may fail.
SPECIFICATION Spec
CONSTANTS
  Reply <- MCReply
  p1 = p1
  p2 = p1
  Password = {p1}
  w1 = w1
  w2 = w1
  WirePassword = {w1}
  Decoded <- MCDecoded
  Email = {mail}
  Country = {zero, de}
  DefaultCountry = zero
  ServerChallenge = {s1}
  ClientChallenge = {r1}
  Garbled = Garbled
  Empty = Empty
  NoData = NoData
  Name = {ann, bob}
  Client = {c1, c2}
  Plain = {ann, bob, mail, zero, de, p1}
  Backend = "mysql"
  FaultyQueries = {"insert"}
  NetworkFaults = {}
  MaxUsers = 2
SYMMETRY ClientAndNameSymmetry
PROPERTIES IdentityFrozen ImplementsService CountryStored AccountsChangeOnlyByOwner
