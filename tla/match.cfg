\* Two hosts, two registrations.
SPECIFICATION FairSpec
CONSTANTS
  Host = {h1, h2}
  Session = {s1, s2}
  h1 = h1
  h2 = h2
  s1 = s1
  s2 = s2
  s3 = s3
  Country <- TwoCountries
  Command = {"register", "keepalive", "update", "unregister", "list"}
  MaxLocal = 1
  MaxAnswer = 2
  MaxUnclean = 1
  Unclean = {}
  NoHost = NoHost
  NoSession = NoSession
INVARIANTS
  TypeOK
  OneSessionPerHost
  NoKeepAliveLost
  AnswerFits
PROPERTY DeadSessionsGo
