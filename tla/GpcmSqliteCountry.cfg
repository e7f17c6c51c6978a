\* The SQLite backend loses the country of a player.
SPECIFICATION Spec
CONSTANTS
  Reply <- MCReply
  p1 = p1
  p2 = p2
  Password = {p1, p2}
  w1 = w1
  w2 = w2
  WirePassword = {w1, w2}
  Decoded <- MCDecoded
  Email = {mail}
  Country = {zero, de}
  DefaultCountry = zero
  ServerChallenge = {s1}
  ClientChallenge = {r1}
  Garbled = Garbled
  Empty = Empty
  NoData = NoData
  Name = {ann}
  Client = {c1}
  Plain = {}
  Backend = "sqlite3"
  FaultyQueries = {}
  NetworkFaults = {}
  MaxUsers = 2
PROPERTIES CountryStored
