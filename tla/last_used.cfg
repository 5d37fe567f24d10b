\* Four servers, three slots.
SPECIFICATION Spec
CONSTANTS
  max_nb_servers = 3
  max_per_address = 2
  allow_loopback = TRUE
  hash_ports = FALSE
  Host = {h1, h2}
  Port = {p1, p2}
  h1 = h1
  h2 = h2
  h3 = h3
  p1 = p1
  p2 = p2
  g1 = g1
  Loopback = {}
  AddressHash <- ChainPerHost
  Mapping <- NoMapping
  Challenge = {c1}
  Game = {g1}
  AcceptedGames = {g1}
  IPv6Host = {}
  Request <- AnyServer
  InfoMessage <- Answers
  NoAddress = NoAddress
  NoChallenge = NoChallenge
  NoGame = NoGame
  NoRequest = NoRequest
  TIMEOUT_HEARTBEAT = 0
  TIMEOUT_INFORESPONSE = 1
  TIMEOUT_CHALLENGE = 0
  MaxTime = 3
INVARIANT LastUsedSlotIsLast
