\* One game server and a master with room for it.  Time in minutes: two
\* between heartbeats, 15 after an answer, the 2 seconds of the others are 0.
\* The clock stops at MaxTime.
SPECIFICATION GameSpec
CONSTANTS
  max_nb_servers = 1
  max_per_address = 0
  allow_loopback = TRUE
  hash_ports = FALSE
  Host = {h1}
  Port = {p1}
  h1 = h1
  p1 = p1
  g1 = g1
  Loopback = {}
  AddressHash <- ChainPerHost
  Mapping <- NoMapping
  Challenge = {c1}
  Game = {g1}
  AcceptedGames = {g1}
  IPv6Host = {}
  Request <- AnyServer
  InfoMessage = {}
  NoAddress = NoAddress
  NoChallenge = NoChallenge
  NoGame = NoGame
  NoRequest = NoRequest
  TIMEOUT_HEARTBEAT = 0
  TIMEOUT_INFORESPONSE = 15
  TIMEOUT_CHALLENGE = 0
  MaxTime = 4
  Self <- SelfAddress
  HEARTBEAT_MSEC = 2
CHECK_DEADLOCK FALSE
PROPERTY KnownAlive
