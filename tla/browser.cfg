\* Three servers in the list, so three rows fill the array, and an array for
\* one additional server; two queries at a time.
SPECIFICATION FairBrowserSpec
CONSTANTS
  a = a
  b = b
  c = c
  Server = {a, b, c}
  NoServer = NoServer
  MAX_PACKET_SIZE_OUT = 50
  headersize = 22
  MAX_GLOBAL_SERVERS = 3
  MAX_ADDRESSES = 1
  MAX_PINGREQUESTS = 2
  MaxPing = 2
  Name <- Names
  Command = {"RefreshServers", "RefreshFilter", "UpdateFilter", "ServerSort", "ping", "globalservers"}
  Typed = {a}
  MasterList <- Answers
  MaxCommands = 2
  MAX_SERVERSPERPACKET = 3
  Garbled = Garbled
CHECK_DEADLOCK FALSE
INVARIANTS
  BrowserTypeOK
  OneRowPerServer
  InfoIsOwn
PROPERTIES
  InsertionKeepsOrder
  NoneForgotten
  RefreshEnds
