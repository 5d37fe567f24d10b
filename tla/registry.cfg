\* Two slots, all addresses in one chain, one server per host, three hosts.
SPECIFICATION FairSpec
CONSTANTS
  max_nb_servers = 2
  max_per_address = 1
  allow_loopback = TRUE
  hash_ports = FALSE
  Host = {h1, h2, h3}
  Port = {p1, p2}
  h1 = h1
  h2 = h2
  h3 = h3
  p1 = p1
  p2 = p2
  g1 = g1
  Loopback = {}
  AddressHash <- OneChain
  Mapping <- NoMapping
  Challenge = {c1}
  Game = {g1}
  AcceptedGames = {g1}
  IPv6Host = {}
  Request <- AnyServer
  InfoMessage <- Answers
  NoAddress = NoAddress
  NoChallenge = NoChallenge
  NoGame = NoGame
  NoRequest = NoRequest
  TIMEOUT_HEARTBEAT = 1
  TIMEOUT_INFORESPONSE = 2
  TIMEOUT_CHALLENGE = 1
  MaxTime = 4
INVARIANT QuotaRespected
PROPERTY RegistrySpec
  ListingEnds
