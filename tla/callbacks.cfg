\* Two players and a lobby call; players are let in after two failures.
\* The game may crash, and nothing happens then.
SPECIFICATION FairSpec
CONSTANTS
  User = {u1, u2}
  Lobby = {l1}
  u1 = u1
  u2 = u2
  l1 = l1
  MaxFailures = 1
  DefaultCapacity = 1
  NoCall = NoCall
  Nothing = Nothing
CHECK_DEADLOCK FALSE
INVARIANTS
  LastResortIsLast
  DeniedStayOut
PROPERTY QuietResultsArrive
