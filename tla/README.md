# Verification of IRANREV-MW2

TLA+ models of the programs in this repository that have logic of their own,
the TLC runs that check small instances of them, and TLAPS proofs of their
safety properties for every value of the constants. Paths below are relative to the
directory of each program under `src/`.

1. [Inventory](#inventory): the parts of the system, their state, their operations
2. [Models](#models): which module models which part, and how
3. [Runs](#runs): what is checked, on what instance, and what it shows
4. [Findings](#findings): where the code disagrees with its own comments
5. [Proofs](#proofs): what holds for every instance, and why
6. [Not modelled](#not-modelled)
7. [Plan](#plan)

## Inventory

The repository holds four programs of a game network. There are no tests.

```
 game client (Client) ---- UDP 1500 / 3005 / 3100.. ----+
      |  steam_api.dll                                   v
      |                                      IWNet server (IWNET SERVER Emulator)
      | getservers                               |  ^            |
      v                                          |  | infoResp.  | HTTP /servers
   dpmaster  <--- heartbeat, infoResponse --- dedicated server   v
  (DPMASTER)  ---- getinfo ----------------->  (Dedicated Server, steam_api.dll)
```

### dpmaster (`IRANREV MW2[1.0.182] DPMASTER`, C, one thread)

| part | state | operations |
|---|---|---|
| command line (`dpmaster.c`) | `ind` while it is read; sizes, port, paths, flags | `ParseCommandLine`, `Cmdline_Option`, `Sys_Cmdline_Option` |
| game policy (`games.c`) | sorted `game_names`, `reject_when_known` | `Game_DeclarePolicy`, `Game_IsAccepted` |
| sockets (`system.c`) | `listen_sockets`, `nb_sockets` | declare, resolve, create, close |
| server list (`servers.c`) | `servers[]`, `nb_servers`, `last_used_slot`, `first_free_slot`, two hash tables, `crt_server_ind`, `last_server_ind`, `addrmaps` | `Sv_GetByAddr`, `Sv_Remove`, `Sv_IsActive`, `Sv_CheckTimeouts`, `Sv_GetFirst`, `Sv_GetNext`, the mappings |
| message handlers (`messages.c`) | challenge and timeouts in a `server_t` | heartbeat, infoResponse, getservers, getserversExt |
| main loop (`dpmaster.c`, `common.c`) | `crt_time`, `must_open_log` and the log file | `select`, one message at a time, signals |

*Interaction.* Plain calls: the main loop calls `HandleMessage`, the handlers
call the functions of the list, the list calls nobody. A heartbeat makes the
master send a `getinfo` with a challenge; the `infoResponse` with that challenge
makes the server visible; a `getservers` is answered from the list.

*Hard behaviour.* Timeouts are found lazily: nearly every function may remove
servers while another one iterates or searches, and `Sv_Remove` moves the
cursors of those loops. Messages are lost, repeated, late and in any order.
Three counters (`nb_servers`, `first_free_slot`, `last_used_slot`) are kept in
step by different functions with different rules. At the start, tables are
sorted, searched and shortened with indices computed by hand.

*Correct means:* the counters describe the array; no address has two slots and
no host more than its quota; only servers that answered a valid challenge are
listed, once each, and while they are alive; a request is answered in the end;
what the command line declares is what the running program has.

### IWNet server (`IRANREV MW2[1.0.182] IWNET SERVER Emulator`, C#)

`Program.cs` starts an IP server (1500), a log server (3005), the CI server
(3100), 19 `MatchServer`s (one per playlist), an HTTP server and the
`ServerParser`. Each UDP server has a thread. The main thread loops every five
seconds over `Client.UpdateBanList`, `MatchServer.CleanMyOldMessySessions`,
`Client.CleanClientsThatAreLongGone` and `Log.WriteAway`, all inside one `try`.

| part | state | operations | threads on it |
|---|---|---|---|
| sessions of a playlist (`IWNet/MatchServer.cs`, `IWNet/Matchmaking/`) | the list `Sessions` | register, update, unregister, keep-alive, list, clean | its UDP thread, main thread, parser |
| server list (`IWNet/ServerParser.cs`) | dictionary `Servers`, `PendingSessions` | a round of queries, `QueryReceived` | parser, callback, HTTP, UDP threads, main thread |
| UDP server (`Base/UdpServer.cs`) | - | receive, handle, log exceptions | its own |
| HTTP pages (`Base/HttpHandler.cs`) | - | `/servers`, `/stats`, `/clean/<xuid>` ... | HTTP |
| clients and bans (`Base/Client.cs`) | dictionary of clients, three ban lists | `Get`, `SetLastTouched`, the cleaner, `UpdateBanList` | all |
| CI server (`IWNet/CIServer.cs`) | clean state per player | heartbeats of the client's integrity check | its own, match threads, HTTP |
| log and IP server (`IWNet/LogServer.cs`, `IWNet/IPServer.cs`) | - | login, alias, keep-alive; each ends in the table of clients | one each |
| log (`Base/Log.cs`) | a StringBuilder | append, write away | all |

*Hard behaviour.* Some accesses to a shared list or dictionary hold a lock, most
do not; LINQ queries are lazy and evaluated several times; exceptions of
concurrent modification are part of normal operation and end a packet, a
round of the parser or a round of the main loop.

*Correct means:* one session per host; a live session is not lost and a dead one
goes; an answer names sessions that exist and fits its buffer; the page reads no
null; a live server is asked although rounds fail; the table of clients is
not changed under an enumeration, clients nobody touches go, the ban list comes
back in each round, a detection lasts six hours.

### Client: the list of servers (`patch_mw2_serverlist.cpp`, C++, the game's thread)

| state | operations |
|---|---|
| `cls.globalServers`, `globalServerAddresses` | the request to the master, `CL_ServersResponsePacket`, `CL_ServerInfoPacket` |
| `cl_pinglist`: 32 queries under way | `CL_Ping_f`, `CL_UpdateVisiblePings_f`, `CL_GetPing`, `CL_ClearPing` |
| `uiInfo.serverStatus`: rows, sort key, refresh | the menu scripts, `UI_DoServerRefresh`, `UI_BuildServerDisplayList`, `UI_BinaryServerInsertion`, `UI_ServersSort` |

*Interaction.* The master (dpmaster) answers `getservers` with packets of
addresses; the client asks each server with `getinfo`, a few at a time, shows
those that answer, and fills the place of those that do not with additional
addresses from the answer.

*Hard behaviour.* A ping of 0 means "being asked", "no answer" and "no address"
in one; slots are used again with what was in them; packets of an older request
arrive after a newer one; the player sorts, filters and refreshes in the middle. Two of
the arrays are written past their end when they are full.

*Correct means:* the rows are in order, each with its own info, and a server is one row
as long as the list is the answer to one request; when the refresh stops every server was
asked; and it stops.

### Dedicated server and client (`steam_api.dll`, C++/CLI)

Replacements of the Steam API. `Callbacks.h` holds the list of results and the
registered callbacks; `SteamAPI_RunCallbacks` delivers the results in the
game's thread; `ValidateConnection` asks a web server in a thread of the pool
and returns a result through a dictionary and a list, without a lock. The client's `steam_api.cpp`
holds the same class and function. `PatchMW2Dedicated.cpp` keeps the time of the next
heartbeat (`svs_nextHeartbeatTime`) and the address of the master, and sends; `PatchMW2Status.cpp`
answers `getinfo`. Everything else patches machine code of a program that is not in the
repository, or returns constants.

*Correct means:* a player who was found invalid stays out, and players are let in
unchecked only after enough failures, their own among them; a result is
delivered unless it is disturbed; a running server is in the list of the master.

## Models

Mutated forms of single definitions stand next to them with the comment
`mutant`: the bug each names is one the properties must find.

### `ServerList`, `Dpmaster`: the master server

`ServerList` holds the functions of `servers.c` as operators on a record with
the static variables of that file; `Dpmaster` holds the main loop and the
handlers as actions. The program has one thread and sets `crt_time` once per
`select`, so a handler is one step, with every call it makes inside. The
exception is `HandleGetServers`: its loop takes a step per slot, so that the
cursors of the iteration are seen between two calls of `Sv_GetNext`.

| action | code |
|---|---|
| `Heartbeat(a)` | `HandleMessage` for a heartbeat: `Sv_GetByAddr (a, true)`, `SendGetInfo` |
| `InfoResponse(a, info)` | `Sv_GetByAddr (a, false)`, `HandleInfoResponse`, with the removal of a server without credentials and `Sv_WriteInfo` |
| `InfoResponseFaults` | the uninitialized pointer in the API-key branch (messages.c:675-692): the process may end |
| `GetServers`, `GetNext`, `SendAnswer` | `HandleGetServers`; the start is random |
| `PrintServerList` | SIGUSR1 |
| `Tick` | a later `select`; `MaxTime` bounds the clock |
| `Restart` | a new process: nothing is persisted |

A lost message is one that is never handled, a repeated or late one is an
`InfoResponse` for any challenge at any time. An `infoResponse` is abstracted to
the first check it fails. Loops that remove several servers are one removal of a
set; `DpmasterLoops` writes them as the code does, turn by turn (`Loops`: a loop with
a known number of turns as a recursive function; one that breaks off has idle turns
after that), and compares the two on every reachable list. The order of a hash chain is not kept: which timed out
servers a walk passes before it finds its server is left open.

`GameServer` adds a dedicated server: `Frame` is `SV_MasterHeartbeat` as the game
calls it in every frame, `Kill` is `SV_MasterHeartbeat_OnKill`, `SetMaster` the console. The
resolver may know the name or not. Messages stay in `network` until they are received;
`HeartbeatArrives` and `InfoArrives` are the handlers of `Dpmaster`, on what the game
server really sends: `Content` is the first check of the master that `InfoKeys` fail.

`Registry` is what the list promises: who is admitted, how long it stays, and
that nothing but an answer extends its stay. `DpmasterRegistry` reads the end of a stay
(`UntilOf`, -1 for an address without a slot) and who has answered (`AnsweredOf`) off
the slots, and states that `Dpmaster` implements it.

### `StartupTables`, `Startup`: the start of dpmaster

From `main` to the first `select`. A step handles one option of the command
line (with its parameters and their checks), one of the initializations, or one
socket. `argv` is a sequence of arguments: an option with or without an attached
parameter, or a plain value; short and long names are not told apart. Names
resolve by constants, `families` says which address families `socket`
supports, and `CallFails` is the failure of any other call of the system. The
sorted tables (`Game_Find`, `Sv_InsertAddrmapIntoList`, `Sv_GetAddrmap`) are
operators of `StartupTables`; `Bisect` is one turn of the binary search. What the start establishes are constants of
`Dpmaster`: the accepted games, the mapping, the sizes.

`MisplacedParams` goes to the phase `undefined`: with an attached parameter
and others, `memcpy` reads the bytes of the next argument where it should read
the argument vector (dpmaster.c:618).

### `MatchServer`: the sessions of a playlist

A step is one access to the list `Sessions`: a query that is evaluated, an
`Add`, one half of a `Remove`. `handler` is the UDP thread, `cleaner` the
main thread. Lock and unlock are as in the code: `keepalive` and `list`
and the cleaner hold the lock, `register`, `update` and `unregister` do not.
An enumeration over which the list changes throws; `UdpServer.Run` or the main
loop catches. Sessions have an identity, since a thread may hold one that has
left the list (`Held`); an identity that is neither listed nor held is used again for the
next new object, so that hosts register and leave without end. `enumerating` are the threads
whose enumerator is still valid: every change of the list empties it. `ByHost` is the places
of the list that hold a session of a host. An unclean client gets an answer padded with
made-up sessions (`Pad`). A round of the main loop goes through the ban list and the other
playlists first (`Round`, `Reach`), and may end there (`RoundFails`). Time is the age of a session in minutes: the tests are for 60,
120 and 180 seconds, `MaxAge` = 4 stands for anything above.

### `ServerParser`: the server list

Adds to `MatchServer` the parser thread, the callback, the network and the page
`/servers`. `MatchStep` is any step of `MatchServer`. The parser collects the sessions
one by one (`Queue`) and asks one server per step (`StartQuery`); an exception of either, or
of the list of another playlist, ends the round (`ParseFails`). `network` has the queries
ever sent: a host of `Answering` may answer each of them late, again or never (`Received`).
The game server that answers is external.

### `Clients`: the table of clients, the bans and the CI server

A step is one access to what threads share. A thread of `Thread` is a UDP server
(log, IP or CI server) or a page; it handles one packet or page at a time, and an
exception ends that alone. `Client.Get` is four steps: `ContainsKey`, taking the
lock (`AddBegin`), `AddEnd`, the lookup (`Fetch`). Lookups take no lock and may
miss beside a write. What a packet is matters only after `Get` and is chosen
there (`Touch`, `Login`, `Alias`, `Status`, `Clean`). A thread whose client is
removed goes on with an object that is in the table no longer (`"orphan"`).

`CIServer.Get` has no lock at all: `race` remembers which `Add`s overlap. Of two that
do, one entry may be lost, or hidden behind the other; that is what
`Dictionary` does when two inserts take the same free entry.

The main loop empties the ban list (`Round`), opens the file (`OpenBans`), reads it line by
line (`ReadLine`, `BansRead`), cleans the sessions (`Sessions`, the subject of `MatchServer`)
and the clients (`CleanBegin`, `Scan`, `Remove`, `CleanEnd`). A line of `banlist` names a
client or has an id that cannot be parsed. `long.Parse` throws a `FormatException` for one
that is no number, which only skips the line, and an `OverflowException` for one that is too
long, which ends the round (`Throws`). `RoundFails` is any other exception: the file cannot be
opened, or the sessions change while they are cleaned. It may happen in every round.

### `AnswerPackets`, `ServerBrowser`: the list of the player

`AnswerPackets` splits a list of servers into the packets of an answer as
`HandleGetServers` does (messages.c:419-608), and reads them as
`CL_ServersResponsePacket` does. `ServerBrowser` takes what the master may answer
through these two: the packets the client gets are those the master sends.

Each function the game calls is one step. The functions under it are
operators on `cls`, `pinglist` and `ui`: `Ask` and `Collect` are the bodies of the two
loops of `CL_UpdateVisiblePings_f`, `Display` that of `UI_BuildServerDisplayList`;
`InsertPosition` is the binary search as it stands in the code, `Halve` one turn of it. Packets of a request
stay in `network` until they are received, or for ever; each carries the number of its request,
and `cls.requests` has those the list was filled from.

Two arrays of fixed size are written past their end. `displayServers` is `ui.shown` followed
by `ui.unused`, the entries behind the rows: moving the rows up writes one entry more than
there are rows, and when all 512 are taken that entry is `numDisplayServers`, the next
field, so the number of rows becomes the stale index that was moved
(`UI_InsertServerIntoDisplayList`). The array `globalServerAddresses` is asked for room once per
packet: what goes past its end lies over `pingUpdateSource` and `masterNum`, and then over data
behind `cls` that is not modelled; `ReadBack` leaves open which of those entries are read
back as they were (`Garbled` is one that was not), and `masterNum` is no longer 0.

### `SteamCallbacks`: results and validations

`Return` writes the dictionary `_calls` and adds to the list `_results`, and each step of it
may meet a step of another thread. `List<T>.Add` is what the framework does: make a larger
array when the array is full (`AddCheck`, `AddPublish`), read the size, write it, store the item,
perhaps into an array that is the old one by now, or too short (`AddThrows`). An insertion
into `_calls` takes two steps, and a use of the dictionary while somebody inserts tears it:
from then on a use may work, throw or never return (`Use`, `Hang`). `failureCount++` is two
steps. `Run` copies, delivers and clears; a null reference in the copy, or a size beyond the
array, ends the game (`NullResult`, `RunCopy`, `RunEnd`).

The `try` of `ValidateConnection` is around the request and both calls of `Return` that tell its
outcome. So `Caught` is reached by a request that fails (`Fail`) and by a `Return` that
throws, after the server has said "invalid" too. An exception anywhere else has no handler
and ends the process (`Throw`, `Crash`).

## Runs

Eight runs must pass and four show a finding. Every property of a passing run is
broken by a mutant listed in `PROJECT.json`.

| run | instance | properties | shows |
|---|---|---|---|
| `master` | 3 slots, 2 hosts with 2 ports each, 1 challenge, clock to 4 | `TypeOK`, `NbServersCounts`, `FirstFreeIsLowest`, `OneSlotPerAddress`, `FullListEnds`, `AnsweredInTime`, `ListedOnceAndLive`, `GetNextDefined`, `RemovalsCommute`, `CheckTimeoutsAgree`, `AddAgrees` | the list stays consistent and answers are right; loops with moving bounds do what `ServerList` says |
| `registry` | 2 slots, 3 hosts with 2 ports in one chain, quota 1 | `QuotaRespected`, `RegistrySpec`, `ListingEnds` | the list implements `Registry`; the iteration ends |
| `startup` | 4300 command lines, 4 sets of families | `TypeOK`, `PolicyAsDeclared`, `MappingAsDeclared`, `ListensAsDeclared`, `StartMoves` | a start that succeeds has what its command line says; every start ends |
| `match` | 2 hosts, 2 sessions at a time, all commands | `TypeOK`, `OneSessionPerHost`, `NoKeepAliveLost`, `AnswerFits`, `DeadSessionsGo` | what the few locks still guarantee |
| `parser` | 1 host, 1 session at a time, register and unregister | `NoNullRead`, `NoMoreThanCounted`, `ActiveServerIsAsked` | five threads on one dictionary, mostly without its lock |
| `callbacks` | 2 players, 1 lobby call, last resort after 2 failures | `LastResortIsLast`, `DeniedStayOut`, `QuietResultsArrive` | what races of `Return` can and cannot do to the players |
| `clients` | 2 clients, a UDP server with all packets, a page, two ban lists: one with a line that is skipped, one with a line that ends the round | `Undisturbed`, `DetectedStaysUnclean`, `DeadClientsGo`, `BansReturn` | what packets, pages and the main loop do to each other |
| `browser` | 3 servers, of which 2 can be rows, 1 additional, 2 queries at a time, 2 commands of the player | `BrowserTypeOK`, `OneRowPerServer`, `InfoIsOwn`, `InsertionKeepsOrder`, `NoneForgotten`, `RefreshEnds` | the arrays are left only where known; the rows are unique, sorted and filled right; no server is left out; a refresh ends |
| `last_used`, `safely_deleted`, `optional`, `known` | - | one each | see Findings |

### Bounds, and why they are enough

* *Slots and addresses.* `master` has more addresses than slots, so the list
  fills up; three slots leave room for a slot below, at and above each cursor, and
  for a gap between two slots that are removed. The quota
  needs two servers of one host and a host that is not affected; `registry` puts
  all addresses in one chain, so that walks pass servers of other hosts.
* *Clock.* With timeouts of 0 to 2 seconds, a clock to 4 lets a server be added,
  answer, time out and come back. Only comparisons of sums of these are made.
  The theorems hold for every size and timeout.
* *Challenge.* One challenge string: answers to an old challenge differ by its
  `challenge_timeout`, which is what the property is about. The proofs allow any
  set, and equal challenges.
* *Command lines.* Pairs of policies with up to three games each in every order;
  up to four mappings over an address without, with a low and with a high port
  and a second address; pairs of `--listen` and all the other options in both
  orders; nine `--listen`. A third clause of a kind meets the same tables.
* *Sessions.* Two hosts with a session each are enough for a removal to shift
  the index of another one. Objects are used again, so a host may register as often
  as it likes and disturb every round; only the objects of one time are bounded.
* *parser.* One host: entries of the dictionary do not interact, except through
  the count of the page, which one host can still make too small. What other sessions
  and playlists do to a round, ending it before this server is asked, is `ParseFails`.
* *callbacks.* Two workers and the game's thread can collide in pairs and all
  together. `MaxFailures` = 1 in place of 5 needs two failures, all that
  two players can have. `DefaultCapacity` = 1 in place of 4: the second result makes the
  array grow, the third again.
* *clients.* Two threads and the main loop meet in every pair and all together at
  each of the three structures; the page asks for one of the two clients, so that
  Adds with equal and with different keys overlap. One ban list has a line that is
  skipped in front of a good one, the other a line that ends the round between two good
  ones. Rounds may fail without bound.
* *browser.* Three servers give the binary search a middle, two of them have equal
  names, and the third row fills `displayServers`. The answers of the master are
  three servers, or two; a second answer fills the list and goes on to the additional
  address, and the first one appended goes past it. One packet holds an answer, so a
  packet that loses its last entry, and one request of several packets, are left to the
  theorems. Two queries for three servers fill the queue. Two commands let a second
  request, a filter, a sort or a ping meet a refresh in every state. `MaxPing` = 2: an
  answer in time and one too late.
* *known.* One server, and a master with room for it. Two heartbeats fit below `MaxTime`;
  with an API key among `InfoKeys` the same instance satisfies the property, so that the
  bound on the clock is not what breaks it.
* `Symmetry` is used in `master`, which checks invariants only.

### Fairness, and why the code justifies it

* `Dpmaster`: `WF(GetNext)` and `WF(SendAnswer)`. The loop of a request waits
  for nothing. Messages and the clock are not fair.
* `GameServer`: every frame comes, what is sent is received (strong fairness for the
  master, which may be answering a client again and again). It is what the property
  assumes, not what a network does.
* `MatchServer`: weak fairness of each thread, and `SF(CleanBegin)`: the lock is
  a .NET Monitor, which serves the waiting threads in turn. A round that has come to the
  lock gets it; nothing says that a round comes to it, for it may always fail before.
  Packets need not come.
* `ServerParser`: the parser thread only. Answers, the page and packets need not
  come, and a round may always fail.
* Fairness does not keep rounds from ending with exceptions, and some of these last for
  ever: a too long id in banlist.txt ends every round of the main loop before the cleaners,
  a busy playlist may change its list in every round of the parser. So the properties
  that need a round to get through (`DeadSessionsGo`, `ActiveServerIsAsked`, `DeadClientsGo`,
  `BansReturn`) say what follows when the rounds are not disturbed again and again, that
  is, after any finite number of disturbed ones: the first disjunct of each names the
  steps that count as one. In `DeadClientsGo` it also asks that no later round gets to the
  cleaner: rounds that fail now and then for ever do not excuse a client that stays.
* `Clients`: weak fairness of the main loop and of whoever holds the lock: the body
  of each lock statement is straight-line code. `SF(CleanBegin)`: as above, the
  cleaner waits in the queue of the Monitor. Packets, pages and time are not fair.
* `ServerBrowser`: the game calls `UI_DoServerRefresh` in every frame; 500 ms and
  `refreshtime` pass. Packets need not come.
* `SteamCallbacks`: the game runs callbacks every frame, and a thread in `Return` goes on;
  whether the thread pool begins an item is left open.
* `Startup` has no fairness: `StartMoves` says that every step leaves less to do,
  and the check for deadlocks that there always is one until the start has ended.
* `callbacks` has `CHECK_DEADLOCK FALSE`: the game may crash, and all players may
  be done; so has `browser`: the player may stop, and nothing is under way then; so has
  `known`: the clock ends. Elsewhere the system never stops (`Done` of `Startup` is the end).

## Findings

Each is the violation of one property that quotes the code.

* `LastUsedSlotIsLast` (servers.c:821). The search for the next free slot removes
  a timed out server while the record just taken still looks unused;
  `last_used_slot` can then fall below it, against `assert (sv_ind <=
  last_used_slot)`. With NDEBUG the server is not listed, and a `getservers` on a
  list of one server divides by zero.
* `OptionalNeverFails` (system.c:405). Dropping the optional IPv4 socket moves one
  record too few; on a system without IPv4 the start fails although IPv6 is
  there, against "don't fail!".
* `SafelyDeleted` (IWNet/MatchServer.cs:265). `unregister` takes no lock; between
  `IndexOf` and `RemoveAt` of the cleaner it shifts another session into the
  place, and the cleaner removes a session in use.
* `KnownAlive` (PatchMW2Status.cpp:230). dpmaster removes a server whose infoResponse has
  no `apikey` (messages.c:705), and no program of the repository sends one: a dedicated server
  leaves the list at each of its answers, against "Send a message to the masters every few
  minutes to let it know we are alive" (PatchMW2Dedicated.cpp:1083). With a key the master may
  also end, in the branch that checks it (`InfoResponseFaults`).

Further behaviour met while modelling, which no run states as a property:

* dpmaster: servers that time out from the random start of an iteration to its end make
  both cursors meet (servers.c:190-197), and the answer lacks the others, against
  "Add every relevant server" (messages.c:428). Mappings are looked up only when
  `allow_loopback` is off (servers.c:757), and it is never off: `--map` has no effect.
  `--port 65539` means 3.
* IWNet: the count in front of a list of sessions can differ from their number, because
  the lazy query is evaluated again (MatchRequestListHandler.cs:69); a pong that is late
  puts the server of a removed session back. A client touched between the scan and
  the removal of the cleaner, and a new one whose `LastTouched` is not set yet, is
  removed; with it goes the version "we need to keep" (LogServer.cs:221).
  `long.Parse` of a too long id in banlist.txt throws an `OverflowException`, which the
  `catch (FormatException)` (Base/Client.cs:90) does not catch: with such a line in the file every
  round ends there, the bans below it are never in force, and neither sessions nor clients
  are cleaned any more. A playlist whose sessions come and go can end every round of the parser
  before a server is asked (IWNet/ServerParser.cs:103). Adds that overlap in `CIServer.Get` can
  lose a detection. A log line appended between `ToString` and `Clear` is lost.
* Client: a server put in the place of a lost one in the last frame of a refresh is never
  asked, although the message counts it among those lost to "packet loss or pings higher
  than" (patch_mw2_serverlist.cpp:1446); a server whose query was just started has ping 0
  like a lost one. The command `globalservers` leaves its servers invisible until a refresh.
  The last server of a packet without end mark is not read (line 999). The 512th row
  overwrites `numDisplayServers` (lines 126, 127, 1469): the list shown shrinks to a stale
  index, and the rows cut off stay hidden until they are built again. A packet that finds room for
  one additional address may write up to 255 past the end of the array (line 1058). Packets of two
  requests, when both are appended, put a server in the list twice and give it two rows.
* Dedicated server: a name of the master that does not resolve once is cleared for good
  (PatchMW2Dedicated.cpp:1124), one that did is never resolved again; the arguments of `strstr`
  are swapped (1127), so the port is 20810 whatever the name says. A server that is started
  again after a kill keeps the time of the next heartbeat. When no map follows in the
  rotation, as with the default `map_restart`, `strlen` gets a null pointer (1000) before the
  "restarting current map" of line 1006. The answer to `getstatus` has the last player
  only: `playerLength` stays 0 (PatchMW2Status.cpp:294).
* Steam API: a result of `Callbacks::Return` that races another one or a `Clear` is lost,
  also the one of a player let in "as a last resort". A race can make `Return` throw inside the
  `try` of `ValidateConnection` (SteamGameServer009.cpp:57, 65): the exception counts like a failed
  request, and after the sixth the player the server called invalid is let in. A torn
  dictionary can also keep a thread for ever, that of the game included (Callbacks.h:88).

## Proofs

Every safety property and every action property of the passing runs is a theorem,
for every value of the constants, and so is the refinement of `Registry`. The runs
check them on small instances first; the theorems rest on nothing but the
assumptions on the constants, which the runs evaluate.

| theorem | property | module |
|---|---|---|
| `TypeCorrect` | `TypeOK` | `DpmasterProofs` |
| `CountCorrect` | `NbServersCounts` | |
| `FirstFreeCorrect` | `FirstFreeIsLowest` | |
| `AddressesDistinct` | `OneSlotPerAddress` | |
| `QuotaKept` | `QuotaRespected` | |
| `FullListCorrect` | `FullListEnds` | |
| `AnswersInTime` | `AnsweredInTime` | |
| `IterationSafe` | `GetNextDefined` | |
| `AnswersListedOnce` | `ListedOnceAndLive` | |
| `ListKeepsPromise` | `RegistrySpec` | |
| `RemovalsAnyOrder` | `RemovalsCommute` | |
| `CheckTimeoutsComplete` | `CheckTimeoutsAgree` | |
| `AddFindsLowest` | `AddAgrees` | |
| `StartTypeCorrect` | `TypeOK` | `StartupProofs` |
| `StartProgresses` | `StartMoves` | |
| `PolicyCorrect` | `PolicyAsDeclared` | |
| `MappingCorrect` | `MappingAsDeclared` | |
| `ListensCorrect` | `ListensAsDeclared` | |
| `GameFindIs`, `GetAddrmapIs` | what the searches of the tables find | |
| `MatchTypeCorrect` | `TypeOK` | `MatchServerProofs` |
| `MatchOneSessionPerHost` | `OneSessionPerHost` | |
| `MatchNoKeepAliveLost` | `NoKeepAliveLost` | |
| `MatchAnswerFits` | `AnswerFits` | |
| `ParserKeepsMatch` | these four, under `ParserSpec` | |
| `ParserNoNullRead` | `NoNullRead` | |
| `ParserNoMoreThanCounted` | `NoMoreThanCounted` | |
| `BrowserTypeCorrect` | `BrowserTypeOK` | `BrowserProofs` |
| `BrowserOneRow` | `OneRowPerServer` | |
| `BrowserInfoIsOwn` | `InfoIsOwn` | |
| `BrowserKeepsOrder` | `InsertionKeepsOrder` | |
| `BrowserForgetsNone` | `NoneForgotten` | |
| `PositionIs` | where the binary search of the rows ends | |
| `EnumerationsUndisturbed` | `Undisturbed` | `ClientsProofs` |
| `DetectionsStay` | `DetectedStaysUnclean` | |
| `LastResortEarned` | `LastResortIsLast` | `SteamCallbacksProofs` |
| `DenialsHold` | `DeniedStayOut` | |

### The master server (`ServerListProofs`, `DpmasterProofs`)

`ServerListProofs` holds the lemmas about the operators of the list. The
theorems hold for every number of slots, quota, hash function, set of addresses,
challenges and timeouts, under `ListAssumption` and `MasterAssumption`: the sizes
are natural numbers, the addresses are finitely many, and without `hash_ports` all
servers of a host are in one chain.

None of the properties is inductive alone. `IInv` is `Good(list)`
and the types of the other variables; `Good` joins

* `Counted`, `FirstFree`, `Addressed`, `Distinct`: the properties about slots, for
  any list. `FirstFree` needs `Counted` to know that a list that is not full has a
  free slot to take.
* `EndKnown`: when the last record is used, `last_used_slot` is that record. The
  natural claim, that no used slot lies above `last_used_slot`, is false (see
  Findings); this much survives, because the record the search may leave behind
  is never the last one: no search follows it. With `Counted` it gives
  `FullListEnds`.
* `Bounded`: the cursors are at most `last_used_slot`. The clamps of `Sv_Remove`
  and the remainder of `Sv_GetNext` keep it, and with it a step of the iteration
  that is not over has `last_used_slot >= 0`.
* `Answered` and `Quota`: `AnsweredInTime` and `QuotaRespected` for any list.

Each handler is made of three operations on the list: removing a set of servers
(`RemoveGood`), adding one (`AddGood`) and updating one record (`UpdateGood`). Each
preserves `Good`; a lemma per action puts them together, and `NextInv` joins
these. `MayAddCounts` is where the hash function matters: the servers of a host
are all in the chain that is walked.

*The answer.* `ListedOnceAndLive` needs to know where the circular iteration has
been. `ToVisit` are the slots it has still to look at; `Iterated` says that what is
listed lies `Behind` them: at other slots, live and wanted. A removal may clamp both
cursors (`RemoveCursor`), but only to slots that were passed or are empty, so
`ToVisit` gets no slot back; it may lose some, which is the incomplete answer among
the findings, and why no theorem says that every server is listed.

*The refinement* is proved action by action. A list that only lost dead servers has
only lost expired addresses (`Pruned`, `Cleans`), one with a new or updated record has
one address changed (`Refilled`); `HeartbeatKept`, `InfoResponseKept`, `VisitKept` and
`ListingKept` put them together. An abstract step is allowed to clean up with
whatever it does, and a lazy removal is that: the theorem says that it is never more.

*The loops.* `WalkIs` says where the walk of `Sv_Remove` ends, `RemoveSlotIs` what one
removal does to each field. `RemoveAgain` is the step of all that follows: one more
removal from a list that has lost a set of servers is the removal of one set.
`LastAgain` is its core, for `last_used_slot` walks down over slots that the removals
before have emptied. Then each loop by induction over its turns: `OrderIs`,
`CheckTimeoutsIs` (a turn that the lowered bound skips has no timed out server), `AddIs`.

### The start of dpmaster (`StartupProofs`)

For every command line, order of strings, result of the resolver and set of address
families, under `OrderAssumption` (strings with equal order are equal) and
`StartupAssumption` (`strtol` gives an integer).

* *Types and progress.* `IsTyped` bounds the cursor in `argv` and the one in the table
  of sockets. `NextAdvances`: a step goes to a later phase, or reads further, or has
  fewer sockets to look at.
* *The searches.* `GameFindIs` and `GetAddrmapIs` say, for sorted tables, that the search
  finds what is there and otherwise the place where it belongs, or the general mapping.
  `Right`: what is searched for is at no index outside the current bounds; each turn
  of `Bisect` leaves fewer, so that `Len(names)` turns are enough. `WithGameIs` and
  `InsertAddrmapIs` keep the tables sorted and lose nothing.
* *What was declared.* The properties speak of the whole command line, at its end. The
  invariants say the same of the part that was read: `ReadOf(option)` are the options of
  a kind in front of the cursor. `GamesRead`: the table has the games of the policies
  read. `MapsRead`: first the list as it was declared (`Collected`), after the phase
  that resolves it the sorted table (`Sorted`). `ListensRead`: the port of the last
  `--port` (`PortRead`), then the sockets with their names (`Named`), addresses
  (`Addressed`), the two defaults when none was asked for (`Defaulted`), and those
  that were opened or dropped (`Opening`). `Cursor` says that whoever leaves the options
  has read them all.

### The sessions and the server list (`MatchServerProofs`)

For every set of hosts, sessions and commands, and every size of an answer. The
invariant `IInv` of `MatchServer` joins `Typed`, `Locked` (whoever is between the ends of
a lock statement holds the lock), `Condemned` (the cleaner has sessions to remove only while
it holds the lock), `NoKeepAliveLost`, `Distinct` and `Room`.

* `Distinct` adds to `OneSessionPerHost` that the handler about to add a session
  found none of its host; only the handler adds, and the cleaner, which may run between
  the query and the `Add`, only removes.
* `NoKeepAliveLost` holds because both the keep-alive and the cleaner take the lock. The
  commands without it do not lose one, they make the cleaner remove another session
  (see Findings).
* `Room`: between the count and the write the sessions of the client's country may only
  become fewer, so the two lazy queries together fit.

`PInv` adds `Answers`, `NoNullRead` and `NoMoreThanCounted` for the threads of
`ServerParser`. `ParserStepKeepsMatch` and `MatchForgets` are the two sides of the
composition: those threads leave the sessions alone, and `MatchServer` only takes
entries out of the dictionary. `NoNullRead` rests on `callback.at = "store"`: the object
a pong stores was emptied a step before, and only one callback runs at a time.

### The list of the player (`BrowserProofs`)

For every size of the list, of the queue and of a packet, all orders of names and answers
of the master. `IInv` has the types, `Own` and `OwnAnswers` (a ping comes with the info of
its own server, in the list and in the queue), `Hidden` (the rows are different places of the list,
and none is still to be shown) and `Named` (the servers of the list have addresses).

* *The arrays.* `Filled`: rows and unused entries are the whole array, and one entry at
  least is unused, for the row that takes the last one hands the counter a stale index, which
  is smaller. `Bounded`: the check for room comes before a packet, so less than one packet
  goes past the end of the additional addresses.
* *One row.* That rows are different places of the list is not enough: the places must hold
  different addresses. `Different` says so of the list and the additional addresses
  together, `OneRequest` that it holds while the list answers one request: then no
  packet of this request still under way names an address of the list. `PacketsApart` is
  where this comes from, about the loop of dpmaster that splits an answer: no server is in two
  packets, or twice in one. `ServersResponse` moves addresses from a packet to the
  list (`GrownKnown`, `GrownDifferent`), a replacement from the additional ones to it
  (`MoveIs`). `RowsNamed`: overwritten entries (`Garbled`) may repeat, but they never answer,
  and so are no rows.
* *Order.* The search halves its bounds; `Placed`: the rows in front of the bounds do not
  rank above the new one, and those behind do not rank below it. `PositionIs` is
  where it ends, `InsertionIs` what a row put there does to the order. `OrderedSame`
  serves the steps that change pings: the property asks for order by the present
  pings only.
* *No one forgotten.* The refresh stops in a frame that is `Quiet`: no query is under way
  and none was sent. `Forgotten` is a visible server that has no ping and was never asked,
  other than one that has just taken the place of a lost one (see Findings). `AskLoop`:
  when the first loop of `CL_UpdateVisiblePings_f` leaves it quiet, it leaves no such server. The
  loop counts at least the queries under way (`Queued`, `QueuedOneMore`), so a full
  queue is never taken for an empty one.

### Clients, bans and detections (`ClientsProofs`)

For every set of threads, what they handle, clients, and ban list (`ClientsAssumption`:
the sets are of their types, the main loop and `Free` are no threads, `NoXuid` is no
client). The invariant joins the types, `Locked` (whoever is between the ends of a lock statement
holds the lock) and `Known` (a client in use is in the table, for the cleaner turns the
others into orphans, so that a touch never adds one). `Moves` is the lemma for a
thread that takes, releases or ignores the lock; the actions are instances of it. An
enumeration holds the lock, `AddEnd` and `Remove` do too, and there is one lock.
`DetectionsStay` needs only the types: an entry goes when an `Add` with
another in its `race` ends.

### Results and validations (`SteamCallbacksProofs`)

For every set of players and lobby calls, every `MaxFailures` and every size of the first
array (`CallbackAssumption`: the sets are finite and disjoint). What the callbacks say depends on
results that sit in the array, in a larger copy that is being made, in the copy of `Run` and
in the history, so the invariant follows a result through all four: `Honest` says that each
of them is `Good`. A good result with "last_resort" is `Earned` (its player is among the
failed, and they are more than `MaxFailures`), and one of a denied player that says anything but
"deny" is of the last resort, after some `Return` was disturbed. `Answered` says the same of a
caller before it has made its result. `Undercounted`: the counter, and each stale copy of it,
is at most the number of failures counted so far, for a lost update only makes it smaller;
so the test of the last resort gives `Earned`.

That a denied player can only fail after a race is `Quiet`: while no two `Return`s and no
`Return` and `Run` have met, there is one caller in `Return` at a time, the dictionary is not
torn, the size is within the array, and every step of the `Add` under way finds its slot
(`Placed`), so that nothing throws. `MoveInv` serves the steps inside `Return`, `UseInv` and
`ThrowInv` those that may throw, `RunInv` those of the game's thread; `Met` and `Alone` are
about the caller that enters.

### Loops in proofs (`Induction`)

The induction theorems of the library take an operator as a parameter, which the
provers cannot instantiate. `Induction` states what is needed for sets and functions:
`LeastNat`, `SetInduction` and `BoundedInduction` (a set that has 0 and, with a number, the next
one), `LoopRuns` (every step function has a run) and `TurnsStay`. A loop of the program is
a recursive function, that is a `CHOOSE`; what it computes is known once it is shown
that some function satisfies the recursion. That is done for each loop by a pair: the set of
its runs (`FindRun`, `SearchRun`, `WalkRun` ...) and the lemma that it is not empty
(`FindRuns`, `SearchRuns`, `WalkRuns` ...). The pairs look alike, since the body of the loop
cannot be a parameter of one lemma. Everything else is an invariant of the turns
of a run, proved by `BoundedInduction`.

### What is only model-checked

Liveness, which is out of the prover's reach: `ListingEnds`, `DeadSessionsGo`,
`ActiveServerIsAsked`, `QuietResultsArrive`, `DeadClientsGo`, `BansReturn` and
`RefreshEnds`. That `StartMoves` ends every start is an argument about a measure:
that each step lowers it is proved, that it then ends is not. The findings are
counterexamples, for which a run is the proof. `GameServer` has no theorem: its property is a
finding. What the models leave out, no proof sees either: the hash chains are sets by
definition of `ServerList`.

## Not modelled

* Text: parsing of info strings, `inet_ntoa`, log lines, HTML. The fields are
  abstracted to what a decision depends on.
* The log files of dpmaster and of the IWNet server: written for a reader, no decision
  depends on them. The pages that serve files, and `/cleanExt`.
* The answers of `IPServer` and `LogServer`: functions of one packet. GeoIP: a pure
  lookup in a vendored database. Kayak, libtomcrypt, the Steam, curl, CrashRpt, Mono and
  Detours headers: vendored.
* Of the list of the player: which row is selected, its columns, the text of the
  messages, the stubs that call these functions from the game.
* Of the dedicated server: the rotation of maps, chat, `getstatus` and remote commands, each a
  function of one string; the check of its version.
* Patches of machine code (the rest of `PatchMW2*.cpp`, `patch_*.cpp`, `Hooking.cpp`,
  `hwbrk.cpp`), dialogs and checks of game files: the program they change is not in
  the repository.
* Steam interfaces that return constants.

Most of the lines under `src/` are of these kinds: 352 source files have 61639 lines, and
the four programs' own logic is in about twenty of them. The models map the
decisions of those; the rest is headers, tables of addresses, machine code, and
functions without state, where a model would restate a line and show nothing.

`PROJECT.json` lists every component with its status, every hazard with the line
where it bites, and for each definition the lines it stands for.

## Plan

Done, in this order: the server list and the handlers of dpmaster; `Registry` and
its refinement; the loops; their proofs; the sessions and the server list of the
IWNet server; the callbacks; the start of dpmaster; the packets of an answer and
the client's list of servers; the clients, bans and CI states of the IWNet server, with
proofs; the heartbeats of the dedicated server with the master; the proofs about the
callbacks, with the exceptions of their races; the proofs about the sessions and the server list of the IWNet server, the
client's list, the start of dpmaster, the answers, the refinement and the loops of dpmaster.

Next, in order of weight:

1. The hash chains as pointers (servers.c:130-157), shown to implement `Bucket`: with
   the order of a chain `WalkRemovals` would be what the walk does instead of what it may do.
2. Theorems about `GameServer`: what is in `network` was sent, and a challenge that the
   master accepts is one it made for this server.
3. Theorems that bound what is incomplete: which servers an answer of dpmaster may lack.
4. The log of dpmaster (common.c:125-240, 341-370) with its signals.
