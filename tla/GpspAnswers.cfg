\* Failing queries, a network that does everything, and names that MySQL's queries do
\* not carry as they are; one text for all other columns.
SPECIFICATION FairSpec
CONSTANTS
  Reply <- MCReply
  Client = {c1, c2}
  Name = {ann, bob}
  Password = {txt}
  Email = {txt}
  Country = {txt}
  DefaultCountry = txt
  Empty = Empty
  NoData = NoData
  Plain = {txt}
  Backend = "mysql"
  FaultyQueries = {"count", "select", "insert"}
  NetworkFaults = {"blocked", "partial", "error"}
  MaxUsers = 1
INVARIANTS TypeOK QueueShape 
PROPERTIES AnsweredIsDeleted
