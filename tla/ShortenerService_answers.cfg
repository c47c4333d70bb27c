CONSTANTS
  c1 = c1
  c2 = c2
  u1 = u1
  u2 = u2
  alice = alice
  bob = bob
  ShortCodes = {c1}
  OriginalURLs = {u1, u2}
  Users = {alice, bob}
  Handlers = {p1, p2}
  Deleter = worker
  Clients = {p1, p2, worker}
  NoRow = NoRow
  NoCall = NoCall
  NoHTTP = NoHTTP
  NotURL = NotURL
  FirstMiB <- MCFirstMiB
  Requests <- NoDeletes
  HTTPRequests <- MCFewHTTPRequests
SPECIFICATION ServiceFairSpec
PROPERTY EveryRequestIsAnswered
