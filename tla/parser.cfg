\* One host, one session.
SPECIFICATION FairParserSpec
CONSTANTS
  Host = {h1}
  Session = {s1}
  h1 = h1
  h2 = h2
  s1 = s1
  s2 = s2
  Country <- OneCountry
  Command = {"register", "unregister"}
  MaxLocal = 1
  MaxAnswer = 2
  MaxUnclean = 1
  Unclean = {}
  Answering = {h1}
  NoHost = NoHost
  NoSession = NoSession
INVARIANTS
  NoNullRead
  NoMoreThanCounted
PROPERTY ActiveServerIsAsked
