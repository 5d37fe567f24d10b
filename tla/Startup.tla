------------------------------- MODULE Startup -------------------------------
(***************************************************************************)
(* The start of dpmaster, from main to the first select: ParseCommandLine  *)
(* (dpmaster.c), the address mappings (servers.c), the listening sockets   *)
(* and the security initializations (system.c).  What it establishes are   *)
(* the constants of Dpmaster: AcceptedGames, Mapping, the sizes of the     *)
(* list, and the families it listens on.                                   *)
(*                                                                         *)
(* An argument is an option, with the parameter attached to it if any, or  *)
(* a plain value.  One step handles one option or opens one socket.        *)
(***************************************************************************)
EXTENDS StartupTables, FiniteSets

CONSTANTS
  CommandLine,  \* bound: the argument lists the program is started with
  IntOf,        \* what strtol makes of the strings that are numbers
  MappingOf,    \* the two halves of the strings with an '='
  ResolveIPv4,  \* the names gethostbyname resolves, with their port or 0
  ResolveAny,   \* the names getaddrinfo resolves: a family, and the port or 0
  Loopback,     \* the IPs of 127.0.0.0/8
  EmptyString, NoName

MAX_LISTEN_SOCKETS == 8
MAX_HASH_SIZE == 16
MSG_DEBUG == 4
DEFAULT_MASTER_PORT == 20810

Family == {"AF_INET", "AF_INET6"}

Flag == {"allow-loopback", "hash-ports", "help", "log", "daemon"}
Setting == {"hash-size", "log-file", "info-file", "max-servers", "max-servers-per-addr",
            "port", "jail-path", "user"}
Option == Flag \cup Setting \cup {"verbose", "game-policy", "listen", "map"}

Argument == [option : Option \cup {"value", "unknown"}, attached : BOOLEAN, text : Value]

ASSUME StartupAssumption ==
  /\ CommandLine \subseteq Seq(Argument)
  /\ \A v \in DOMAIN IntOf : v \in Value /\ IntOf[v] \in Int
  /\ \A v \in DOMAIN MappingOf : v \in Value /\ MappingOf[v] \in Value \X Value
  /\ \A v \in DOMAIN ResolveIPv4 : v \in Value /\ ResolveIPv4[v] \in Endpoint
  /\ \A v \in DOMAIN ResolveAny : v \in Value /\ ResolveAny[v] \in [family : Family, port : Nat]
  /\ EmptyString \in Value /\ NoName \notin Value

VARIABLES
  argv,      \* the arguments after the program's name
  families,  \* the address families the system supports
  phase,     \* what main is doing
  why,       \* why it failed
  ind,       \* the argument ParseCommandLine looks at
  game_names, reject_when_known,
  addrmaps,
  settings,  \* the last parameter accepted for an option
  listen_sockets, nb_sockets,
  sock_ind   \* loop variable of Sys_CreateListenSockets

options == <<game_names, reject_when_known, addrmaps, settings>>
sockets == <<listen_sockets, nb_sockets>>
vars == <<argv, families, phase, why, ind, options, sockets, sock_ind>>

NewSocket(name) == [name |-> name, family |-> "unresolved", port |-> 0, optional |-> FALSE, open |-> FALSE]

Init ==
  /\ argv \in CommandLine
  /\ families \in SUBSET Family
  /\ phase = "options"
  /\ why = "nothing"
  /\ ind = 1
  /\ game_names = <<>>
  /\ reject_when_known = TRUE
  /\ addrmaps = <<>>
  /\ settings = [o \in Flag \cup Setting \cup {"verbose"} |-> NoName]
  /\ listen_sockets = [i \in 0 .. MAX_LISTEN_SOCKETS - 1 |-> NewSocket(NoName)]
  /\ nb_sockets = 0
  /\ sock_ind = 0

Fail(reason) == phase' = "failed" /\ why' = reason

-----------------------------------------------------------------------------
(* ParseCommandLine                                                        *)

MinParams(option) == IF option = "game-policy" THEN 2
                     ELSE IF option \in Setting \cup {"listen", "map"} THEN 1 ELSE 0
MaxParams(option) == IF option = "game-policy" THEN Len(argv)
                     ELSE IF option \in Flag THEN 0 ELSE 1

IsValue(i) == i \in DOMAIN argv /\ argv[i].option = "value"

(* "Gather as many parameters as possible": the end of the values from i.  *)
EndOfValues(i) == FirstIndex({j \in i .. Len(argv) : ~IsValue(j)}, Len(argv) + 1)

(* The parameters the option takes without looking at them, the first      *)
(* argument after those, and the first one after all.                      *)
Attached == IF argv[ind].attached THEN 1 ELSE 0
Needed == MinParams(argv[ind].option)
AfterNeeded == IF Attached = 1 /\ Needed = 0 THEN ind + 1 ELSE ind + 1 - Attached + Needed
AfterParams == EndOfValues(AfterNeeded)

OneShort == AfterParams - 1   \* mutant: the option itself is not counted
NextOption == AfterParams

NbParams == AfterParams - ind - 1 + Attached

HasOption == phase = "options" /\ ind \in DOMAIN argv

OptionStatus ==
  IF argv[ind].option \notin Option THEN "invalid option"
  ELSE IF AfterNeeded > Len(argv) + 1 THEN "not enough parameters"
  ELSE IF NbParams > MaxParams(argv[ind].option) THEN "too many parameters"
  ELSE "ok"

(* The parameters of an option: an attached one stands alone, or is the    *)
(* first of several (then see MisplacedParams).                            *)
Params == IF Attached = 1 THEN <<argv[ind].text>>
          ELSE [n \in 1 .. NbParams |-> argv[ind + n].text]

Is(option) == HasOption /\ OptionStatus = "ok" /\ argv[ind].option = option

BadOption ==
  /\ HasOption
  /\ OptionStatus # "ok"
  /\ Fail(OptionStatus)
  /\ UNCHANGED <<argv, families, ind, options, sockets, sock_ind>>

(* An attached parameter and others: opt_params is filled from the bytes   *)
(* of the next argument instead of from argv, so the names are wild        *)
(* pointers.                                                               *)
MisplacedParams ==
  /\ Is("game-policy")
  /\ Attached = 1
  /\ phase' = "undefined"
  /\ UNCHANGED <<argv, families, why, ind, options, sockets, sock_ind>>

ParamsRejected ==
  /\ Fail("invalid parameters")
  /\ UNCHANGED <<argv, families, ind, options, sockets, sock_ind>>

(* Game_DeclarePolicy: all instances set the same policy.                  *)
PolicyFits(policy) ==
  \/ policy = "accept" /\ (game_names = <<>> \/ ~reject_when_known)
  \/ policy = "reject" /\ (game_names = <<>> \/ reject_when_known)

AppendGame(names, game) == IF game \in ToSet(names) THEN names ELSE Append(names, game)   \* mutant: not sorted
WithGame(names, game) == AddGame(names, game)

WithGames(games) == Loop(LAMBDA names, i : WithGame(names, games[i]), game_names, Len(games))

DeclarePolicy ==
  /\ Is("game-policy")
  /\ Attached = 0
  /\ IF PolicyFits(Head(Params))
     THEN /\ reject_when_known' = (Head(Params) = "reject")
          /\ game_names' = WithGames(Tail(Params))
          /\ ind' = NextOption
          /\ UNCHANGED <<argv, families, phase, why, addrmaps, settings, sockets, sock_ind>>
     ELSE ParamsRejected

RoomForOneMore == nb_sockets <= MAX_LISTEN_SOCKETS   \* mutant
Room == nb_sockets < MAX_LISTEN_SOCKETS

(* Sys_DeclareListenAddress                                                *)
Listen ==
  /\ Is("listen")
  /\ IF Params[1] # EmptyString /\ Room
     THEN /\ listen_sockets' = [listen_sockets EXCEPT ![nb_sockets] = NewSocket(Params[1])]
          /\ nb_sockets' = nb_sockets + 1
          /\ ind' = NextOption
          /\ UNCHANGED <<argv, families, phase, why, options, sock_ind>>
     ELSE ParamsRejected

Unresolved == [ip |-> 0, port |-> 0]
NewAddrmap(from, to) == [from_string |-> from, to_string |-> to, from |-> Unresolved, to |-> Unresolved]

(* Sv_AddAddressMapping: on top of the list.                               *)
AddMapping ==
  /\ Is("map")
  /\ IF Params[1] \in DOMAIN MappingOf
     THEN /\ addrmaps' = <<NewAddrmap(MappingOf[Params[1]][1], MappingOf[Params[1]][2])>> \o addrmaps
          /\ ind' = NextOption
          /\ UNCHANGED <<argv, families, phase, why, game_names, reject_when_known, settings, sockets, sock_ind>>
     ELSE ParamsRejected

ShowHelp ==
  /\ Is("help")
  /\ Fail("help")
  /\ UNCHANGED <<argv, families, ind, options, sockets, sock_ind>>

(* master_port is an unsigned short.                                       *)
PortOf(v) == IntOf[v] % 65536

(* What the options accept; the casts to unsigned make negative numbers    *)
(* large.                                                                  *)
Accepts(option, v) ==
  /\ option \in {"hash-size", "max-servers", "max-servers-per-addr", "port", "verbose"} => v \in DOMAIN IntOf
  /\ option = "hash-size" => IntOf[v] \in 0 .. MAX_HASH_SIZE
  /\ option = "max-servers" => IntOf[v] # 0
  /\ option = "port" => PortOf(v) # 0
  /\ option = "verbose" => IntOf[v] \in 0 .. MSG_DEBUG
  /\ option \in {"log-file", "info-file"} => v # EmptyString

Set(option) ==
  /\ Is(option)
  /\ option # "help"
  /\ IF Params = <<>> \/ Accepts(option, Params[1])
     THEN /\ settings' = [settings EXCEPT ![option] = IF Params = <<>> THEN "given" ELSE Params[1]]
          /\ ind' = NextOption
          /\ UNCHANGED <<argv, families, phase, why, game_names, reject_when_known, addrmaps, sockets, sock_ind>>
     ELSE ParamsRejected

OptionsEnd ==
  /\ phase = "options"
  /\ ind \notin DOMAIN argv
  /\ phase' = "mappings"
  /\ UNCHANGED <<argv, families, why, ind, options, sockets, sock_ind>>

-----------------------------------------------------------------------------
(* UnsecureInit                                                            *)

(* Sv_ResolveAddrmap: no address is 0.0.0.0, no target a loopback address. *)
Resolves(m) ==
  /\ m.from_string \in DOMAIN ResolveIPv4 /\ m.to_string \in DOMAIN ResolveIPv4
  /\ ResolveIPv4[m.from_string].ip # 0 /\ ResolveIPv4[m.to_string].ip # 0
  /\ ResolveIPv4[m.to_string].ip \notin Loopback

Resolved(m) == [m EXCEPT !.from = ResolveIPv4[m.from_string], !.to = ResolveIPv4[m.to_string]]

Sv_ResolveAddressMappings ==
  /\ phase = "mappings"
  /\ IF \E i \in DOMAIN addrmaps : ~Resolves(addrmaps[i])
     THEN Fail("mapping") /\ UNCHANGED addrmaps
     ELSE LET result == InsertAllAddrmaps([i \in DOMAIN addrmaps |-> Resolved(addrmaps[i])])
          IN  /\ addrmaps' = result.maps
              /\ IF result.ok THEN phase' = "addresses" /\ UNCHANGED why ELSE Fail("mapping")
  /\ UNCHANGED <<argv, families, ind, game_names, reject_when_known, settings, sockets, sock_ind>>

DefaultPort == IF settings["port"] = NoName THEN DEFAULT_MASTER_PORT ELSE PortOf(settings["port"])

WithAddress(s) ==
  LET address == ResolveAny[s.name]
  IN  [s EXCEPT !.family = address.family, !.port = IF address.port = 0 THEN DefaultPort ELSE address.port]

DefaultSocket(family) ==
  [NewSocket(NoName) EXCEPT !.family = family, !.port = DefaultPort, !.optional = TRUE]

Sys_ResolveListenAddresses ==
  /\ phase = "addresses"
  /\ IF nb_sockets = 0
     THEN /\ listen_sockets' = [listen_sockets EXCEPT ![0] = DefaultSocket("AF_INET"), ![1] = DefaultSocket("AF_INET6")]
          /\ nb_sockets' = 2
          /\ phase' = "security" /\ UNCHANGED why
     ELSE IF \E i \in 0 .. nb_sockets - 1 : listen_sockets[i].name \notin DOMAIN ResolveAny
     THEN Fail("address") /\ UNCHANGED sockets
     ELSE /\ listen_sockets' = [i \in DOMAIN listen_sockets |->
                                  IF i < nb_sockets THEN WithAddress(listen_sockets[i]) ELSE listen_sockets[i]]
          /\ phase' = "security" /\ UNCHANGED <<nb_sockets, why>>
  /\ UNCHANGED <<argv, families, ind, options, sock_ind>>

(* Sys_SecurityInit: chroot and the change of the user, when run as root.  *)
Sys_SecurityInit ==
  /\ phase = "security"
  /\ phase' = "sockets"
  /\ UNCHANGED <<argv, families, why, ind, options, sockets, sock_ind>>

-----------------------------------------------------------------------------
(* Sys_CreateListenSockets                                                 *)

Sys_CloseAllSockets ==
  /\ listen_sockets' = [i \in DOMAIN listen_sockets |->
                          IF i < nb_sockets THEN [listen_sockets[i] EXCEPT !.open = FALSE] ELSE listen_sockets[i]]
  /\ nb_sockets' = 0

HasSocket == phase = "sockets" /\ sock_ind < nb_sockets
Current == listen_sockets[sock_ind]

ReopenFirst(socks) == [socks EXCEPT ![0].open = TRUE]   \* mutant: the socket is stored in the wrong record
Opened(socks) == [socks EXCEPT ![sock_ind].open = TRUE]

OpenSocket ==
  /\ HasSocket
  /\ Current.family \in families
  /\ listen_sockets' = Opened(listen_sockets)
  /\ sock_ind' = sock_ind + 1
  /\ UNCHANGED <<argv, families, phase, why, ind, options, nb_sockets>>

(* The memmove moves one record less than there are after sock_ind, and    *)
(* the loop stays at sock_ind.                                             *)
DropOptional ==
  /\ HasSocket
  /\ Current.family \notin families /\ Current.optional
  /\ listen_sockets' = [i \in DOMAIN listen_sockets |->
                          IF i >= sock_ind /\ i < nb_sockets - 2 THEN listen_sockets[i + 1] ELSE listen_sockets[i]]
  /\ nb_sockets' = nb_sockets - 1
  /\ UNCHANGED <<argv, families, phase, why, ind, options, sock_ind>>

FamilyMissing ==
  /\ HasSocket
  /\ Current.family \notin families /\ ~Current.optional
  /\ Sys_CloseAllSockets
  /\ Fail("family")
  /\ UNCHANGED <<argv, families, ind, options, sock_ind>>

(* SecureInit: the number of sockets, then Sv_Init.                        *)
SocketsEnd ==
  /\ phase = "sockets"
  /\ sock_ind >= nb_sockets
  /\ IF nb_sockets <= 0 THEN Fail("no socket") ELSE phase' = "running" /\ UNCHANGED why
  /\ UNCHANGED <<argv, families, ind, options, sockets, sock_ind>>

(* A call of the system fails: malloc or realloc for an option, the log    *)
(* file, getaddrinfo, getpwnam, chroot, setuid, signal (before the sockets *)
(* are touched), socket, setsockopt, bind, or malloc in Sv_Init.           *)
CallFails ==
  /\ \/ Is("map") \/ Is("game-policy")
     \/ phase \in {"mappings", "addresses", "security", "sockets"}
  /\ Fail("system")
  /\ IF HasSocket THEN Sys_CloseAllSockets ELSE UNCHANGED sockets
  /\ UNCHANGED <<argv, families, ind, options, sock_ind>>

-----------------------------------------------------------------------------
ParseCommandLine ==
  \/ BadOption
  \/ MisplacedParams
  \/ DeclarePolicy
  \/ Listen
  \/ AddMapping
  \/ ShowHelp
  \/ \E option \in DOMAIN settings : Set(option)
  \/ OptionsEnd

Initialize ==
  \/ Sv_ResolveAddressMappings
  \/ Sys_ResolveListenAddresses
  \/ Sys_SecurityInit
  \/ OpenSocket
  \/ DropOptional
  \/ FamilyMissing
  \/ SocketsEnd
  \/ CallFails

Done == phase \in {"running", "failed", "undefined"} /\ UNCHANGED vars

Next == ParseCommandLine \/ Initialize \/ Done

Spec == Init /\ [][Next]_vars

-----------------------------------------------------------------------------
\* In the order main passes them; a start ends in one of the last three.
Phases == <<"options", "mappings", "addresses", "security", "sockets", "running", "failed", "undefined">>

(* What the rest of the program relies on: the cursors stay within argv    *)
(* and listen_sockets.                                                     *)
TypeOK ==
  /\ argv \in Seq(Argument)
  /\ families \subseteq Family
  /\ phase \in ToSet(Phases)
  /\ ind \in 1 .. Len(argv) + 1
  /\ game_names \in Seq(Value)
  /\ addrmaps \in Seq(Addrmap)
  /\ nb_sockets \in 0 .. MAX_LISTEN_SOCKETS
  /\ sock_ind \in 0 .. MAX_LISTEN_SOCKETS

(* What a command line says, read without the parser: the options, and the *)
(* values that follow them.                                                *)
At(option) == {i \in DOMAIN argv : argv[i].option = option}
Values(i) == {j \in i + 1 .. Len(argv) : \A k \in i + 1 .. j : IsValue(k)}
Text(i) == IF argv[i].attached THEN argv[i].text ELSE argv[i + 1].text

(* No option stands where a parameter must; the parser takes it for one.   *)
Plain ==
  \A i \in DOMAIN argv :
    argv[i].option \in Option /\ ~argv[i].attached =>
      \A n \in 1 .. MinParams(argv[i].option) : IsValue(i + n)

Listed == {argv[j].text : j \in UNION {Values(i) \ {i + 1} : i \in At("game-policy")}}

(* The sorted table and its binary search accept the games the command     *)
(* line accepts, in however many options and in whatever order they come   *)
(* ("All non-listed games will implicitely get the opposite policy").      *)
PolicyAsDeclared ==
  phase = "running" /\ Plain =>
    \A game \in Value :
      Game_IsAccepted(game_names, reject_when_known, game) <=>
        \A i \in At("game-policy") : argv[i + 1].text = "accept" <=> game \in Listed

Declared(i) == Resolved(NewAddrmap(MappingOf[Text(i)][1], MappingOf[Text(i)][2]))
DeclaredFrom(from) == {Declared(i) : i \in {j \in At("map") : Declared(j).from = from}}

Known == {ResolveIPv4[v] : v \in DOMAIN ResolveIPv4}
Lookups == [ip : {e.ip : e \in Known}, port : {e.port : e \in Known}]

(* Every lookup in the sorted list of mappings finds the exact mapping,    *)
(* else the one for all ports of the address, else none; no address has    *)
(* two.                                                                    *)
MappingAsDeclared ==
  phase = "running" /\ Plain =>
    /\ \A i, j \in At("map") : Declared(i).from = Declared(j).from => i = j
    /\ \A addr \in Lookups :
         LET found == Sv_GetAddrmap(addrmaps, addr)
             exact == DeclaredFrom(addr)
             general == DeclaredFrom([addr EXCEPT !.port = 0])
         IN  IF exact \cup general = {} THEN found = 0
             ELSE found # 0 /\ addrmaps[found] \in IF exact # {} THEN exact ELSE general

LastPort ==
  IF At("port") = {} THEN DEFAULT_MASTER_PORT
  ELSE PortOf(Text(CHOOSE i \in At("port") : \A j \in At("port") : j <= i))

OpenAt(i) == i < nb_sockets /\ listen_sockets[i].open

(* A running master listens on every address of the command line, or else  *)
(* on every family of the system, and holds no record without a socket; an *)
(* address without a port gets the last --port, wherever that stands.      *)
ListensAsDeclared ==
  phase = "running" /\ Plain =>
    /\ \A k \in 0 .. nb_sockets - 1 : OpenAt(k)
    /\ \A i \in At("listen") :
         \E k \in DOMAIN listen_sockets :
           /\ OpenAt(k)
           /\ listen_sockets[k].name = Text(i)
           /\ listen_sockets[k].port = LET given == ResolveAny[Text(i)].port
                                       IN  IF given = 0 THEN LastPort ELSE given
    /\ At("listen") = {} =>
         \A family \in families :
           \E k \in DOMAIN listen_sockets :
             OpenAt(k) /\ listen_sockets[k].family = family /\ listen_sockets[k].port = LastPort

(* Every step of the start leaves less to do: it enters a later phase, or  *)
(* has fewer arguments to read, or fewer sockets to open, although the two *)
(* loops step by an amount they compute and shorten the list they walk.    *)
Rank(p) == CHOOSE n \in DOMAIN Phases : Phases[n] = p

StartMoves ==
  [][ \/ Rank(phase') > Rank(phase)
      \/ phase = "options" /\ phase' = phase /\ ind' > ind
      \/ phase = "sockets" /\ phase' = phase /\ nb_sockets' - sock_ind' < nb_sockets - sock_ind ]_vars

(* "If the address family isn't supported but the socket is optional,      *)
(* don't fail!", system.c:395: the start fails for want of sockets only    *)
(* when no family is supported.                                            *)
OptionalNeverFails == phase = "failed" /\ why = "no socket" => families = {}
=============================================================================
