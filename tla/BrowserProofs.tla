---------------------------- MODULE BrowserProofs ----------------------------
(***************************************************************************)
(* The invariants of the server list of the client, for every size of the  *)
(* list and of the queries under way, and the two action properties: the   *)
(* rows stay in order, and no visible server is forgotten by a refresh.    *)
(* The loops of the program are runs of LoopRuns; what each loop keeps is  *)
(* proved by induction over its turns.                                     *)
(***************************************************************************)
EXTENDS ServerBrowser, FiniteSetTheorems, SequenceTheorems, Induction

Servers == [Index -> ServerInfo]

Cls == [numglobalservers : -1 .. MAX_GLOBAL_SERVERS,
        globalServers : Servers,
        additional : Seq(Address),
        masterNum : {0, 1},
        requests : SUBSET Nat]

UI == [refreshActive : BOOLEAN, shown : Seq(Index), unused : Seq(Index), displayDue : BOOLEAN,
       refreshDue : BOOLEAN, sortKey : {"ping", "host"}, sortDir : BOOLEAN]

(* The rows and the unused entries, of which there is one at least, are    *)
(* the whole array.                                                        *)
Filled(u) == Len(u.unused) > 0 /\ Len(u.shown) + Len(u.unused) = MAX_GLOBAL_SERVERS

(* Less than one packet is written past the end of the additional servers. *)
Bounded(c) == Len(c.additional) < MAX_ADDRESSES + MAX_SERVERSPERPACKET

(* A server with a ping carries its own info, and so does an answer.       *)
Own(servers) == \A i \in Index : servers[i].ping > 0 => servers[i].info = servers[i].adr
OwnAnswers(pings) ==
  \A j \in Slot : pings[j].adr # NoServer /\ pings[j].time > 0 => pings[j].info = pings[j].adr

(* The rows are different servers, and none of them is still to be shown.  *)
Hidden(servers, shown) ==
  /\ IsInjective(shown)
  /\ \A m \in DOMAIN shown : ~servers[shown[m]].visible

(* The servers the master named are servers.                               *)
Named(c) == \A i \in Index : i <= c.numglobalservers => c.globalServers[i].adr # NoServer

(* The addresses the list and the additional servers hold.                 *)
Known(c) ==
  IF c.numglobalservers = -1 THEN {}
  ELSE {c.globalServers[i].adr : i \in {k \in Index : k <= c.numglobalservers}} \cup ToSet(c.additional)

(* No address is held twice, except the one that stands for overwritten    *)
(* entries.                                                                *)
Different(c) ==
  c.numglobalservers # -1 =>
    /\ \A i, j \in Index :
         /\ i <= c.numglobalservers /\ j <= c.numglobalservers /\ i # j
         /\ c.globalServers[i].adr = c.globalServers[j].adr
         => c.globalServers[i].adr = Garbled
    /\ \A i \in Index, k \in DOMAIN c.additional :
         i <= c.numglobalservers /\ c.globalServers[i].adr = c.additional[k] => c.additional[k] = Garbled
    /\ \A k, l \in DOMAIN c.additional :
         k # l /\ c.additional[k] = c.additional[l] => c.additional[k] = Garbled

(* The packets of one request name different servers, and as long as the   *)
(* list answers one request, no packet of it names one of the list again.  *)
Apart(net) ==
  \A p, q \in net : p # q /\ p[2] = q[2] => ToSet(p[1].servers) \cap ToSet(q[1].servers) = {}

OneRequest(c, net, n) ==
  /\ \A p \in net : p[2] < n /\ IsInjective(p[1].servers)
  /\ Apart(net)
  /\ c.requests \subseteq 0 .. n - 1
  /\ \A p \in net : c.requests \subseteq {p[2]} => ToSet(p[1].servers) \cap Known(c) = {}
  /\ \A r : c.requests \subseteq {r} => Different(c)

(* No row shows an overwritten entry.                                      *)
RowsNamed(c, shown) ==
  \A m \in DOMAIN shown : shown[m] <= c.numglobalservers => c.globalServers[shown[m]].adr # Garbled

(* The list d holds addresses of c only, and none more often than c.       *)
SameList(c, d) ==
  /\ d.numglobalservers = c.numglobalservers /\ d.requests = c.requests
  /\ Known(d) \subseteq Known(c)
  /\ Different(c) => Different(d)

IInv ==
  /\ cls \in Cls
  /\ pinglist \in [Slot -> PingRequest]
  /\ ui \in UI
  /\ network \subseteq Packet \X Nat
  /\ commands \in Nat
  /\ Own(cls.globalServers)
  /\ OwnAnswers(pinglist)
  /\ Hidden(cls.globalServers, ui.shown)
  /\ Filled(ui)
  /\ Named(cls)
  /\ Bounded(cls)
  /\ OneRequest(cls, network, commands)
  /\ RowsNamed(cls, ui.shown)

(* The numbers from 1 to n are n.                                          *)
LEMMA Interval ==
  ASSUME NEW n \in Nat
  PROVE  IsFiniteSet(1 .. n) /\ Cardinality(1 .. n) = n
<1>1. /\ IsFiniteSet(1 .. n)
      /\ Cardinality(1 .. n) = IF 1 > n THEN 0 ELSE n - 1 + 1
  <2>1. 1 \in Int /\ n \in Int
    OBVIOUS
  <2> QED  BY <2>1, FS_Interval
<1> QED  BY <1>1

-----------------------------------------------------------------------------
(* The order of the rows                                                   *)

(* What a server is sorted by, so that rows in order ascend.               *)
Rank(servers, u, i) ==
  IF u.sortDir THEN -SortKey(servers[i], u.sortKey) ELSE SortKey(servers[i], u.sortKey)

(* LAN_CompareServers compares the ranks.                                  *)
LEMMA CompareIs ==
  ASSUME NEW servers \in Servers, NEW u \in UI, NEW m \in Index, NEW n \in Index
  PROVE  LET res == LAN_CompareServers(servers, u.sortKey, u.sortDir, m, n)
         IN  /\ Rank(servers, u, m) \in Int /\ Rank(servers, u, n) \in Int
             /\ res <= 0 <=> Rank(servers, u, m) <= Rank(servers, u, n)
             /\ res = 1 <=> Rank(servers, u, m) > Rank(servers, u, n)
             /\ res = 0 <=> Rank(servers, u, m) = Rank(servers, u, n)
<1>1. ASSUME NEW i \in Index PROVE SortKey(servers[i], u.sortKey) \in Int
  <2>1. servers[i] \in ServerInfo
    BY DEF Servers
  <2>2. servers[i].ping \in Int /\ servers[i].info \in Server \cup {NoServer}
    BY <2>1, BrowserAssumption DEF ServerInfo
  <2>3. Name[servers[i].info] \in Int
    BY <2>2, BrowserAssumption
  <2> QED  BY <2>2, <2>3 DEF SortKey
<1> DEFINE upper == SortKey(servers[m], u.sortKey)
           lower == SortKey(servers[n], u.sortKey)
<1>2. upper \in Int /\ lower \in Int
  BY <1>1
<1>3. u.sortDir \in BOOLEAN
  BY DEF UI
<1>4. /\ LAN_CompareServers(servers, u.sortKey, u.sortDir, m, n) =
           LET res == IF upper < lower THEN -1 ELSE IF upper > lower THEN 1 ELSE 0
           IN  IF u.sortDir THEN -res ELSE res
      /\ Rank(servers, u, m) = IF u.sortDir THEN -upper ELSE upper
      /\ Rank(servers, u, n) = IF u.sortDir THEN -lower ELSE lower
  BY DEF LAN_CompareServers, Rank
<1> HIDE DEF upper, lower
<1> DEFINE first == IF upper < lower THEN -1 ELSE IF upper > lower THEN 1 ELSE 0
<1>5. /\ first \in Int
      /\ first <= 0 <=> upper <= lower
      /\ first >= 0 <=> upper >= lower
      /\ first = 1 <=> upper > lower
      /\ first = -1 <=> upper < lower
      /\ first = 0 <=> upper = lower
  BY <1>2
<1> HIDE DEF first
<1>6. CASE u.sortDir
  <2>1. /\ LAN_CompareServers(servers, u.sortKey, u.sortDir, m, n) = -first
        /\ Rank(servers, u, m) = -upper /\ Rank(servers, u, n) = -lower
    BY <1>4, <1>6 DEF first
  <2> QED  BY <1>2, <1>5, <2>1
<1>7. CASE ~u.sortDir
  <2>1. /\ LAN_CompareServers(servers, u.sortKey, u.sortDir, m, n) = first
        /\ Rank(servers, u, m) = upper /\ Rank(servers, u, n) = lower
    BY <1>4, <1>7 DEF first
  <2> QED  BY <1>2, <1>5, <2>1
<1> QED  BY <1>3, <1>6, <1>7

(* Rows are in order when their ranks ascend.                              *)
LEMMA OrderedIs ==
  ASSUME NEW servers \in Servers, NEW u \in UI
  PROVE  /\ u.shown \in Seq(Index)
         /\ \A m \in 1 .. Len(u.shown) : u.shown[m] \in Index /\ Rank(servers, u, u.shown[m]) \in Int
         /\ Ordered(servers, u) <=>
              \A m, n \in 1 .. Len(u.shown) :
                m < n => Rank(servers, u, u.shown[m]) <= Rank(servers, u, u.shown[n])
<1>1. u.shown \in Seq(Index)
  BY DEF UI
<1>2. DOMAIN u.shown = 1 .. Len(u.shown) /\ \A m \in 1 .. Len(u.shown) : u.shown[m] \in Index
  BY <1>1
<1> QED  BY <1>1, <1>2, CompareIs DEF Ordered

(* The part of the rows the search has left, and what it knows of the rest.*)
Places(L) == {at \in [offset : 0 .. L, len : 0 .. L] : at.offset + at.len <= L}

Placed(servers, u, num, at) ==
  /\ \A m \in 1 .. at.offset : Rank(servers, u, u.shown[m]) <= Rank(servers, u, num)
  /\ \A m \in at.offset + at.len + 1 .. Len(u.shown) :
       Rank(servers, u, num) <= Rank(servers, u, u.shown[m])

(* A turn of the search leaves less of the rows, and in ordered rows the   *)
(* new one belongs into what is left.                                      *)
LEMMA HalveIs ==
  ASSUME NEW servers \in Servers, NEW u \in UI, NEW num \in Index, NEW at \in Places(Len(u.shown))
  PROVE  LET next == Halve(servers, u, num, at)
         IN  /\ next \in Places(Len(u.shown))
             /\ at.len > 0 => next.len < at.len
             /\ at.len = 0 => next = at
             /\ Ordered(servers, u) /\ Placed(servers, u, num, at) => Placed(servers, u, num, next)
<1> DEFINE L == Len(u.shown)
           mid == at.len \div 2
           row == u.shown[at.offset + mid + 1]
           res == LAN_CompareServers(servers, u.sortKey, u.sortDir, num, row)
           below == at.offset + IF res # 1 THEN 0 ELSE IF mid = 0 THEN 1 ELSE mid
           next == Halve(servers, u, num, at)
           r == Rank(servers, u, num)
           R(m) == Rank(servers, u, u.shown[m])
<1>1. L \in Nat /\ at.offset \in Nat /\ at.len \in Nat /\ at.offset + at.len <= L
      /\ at = [offset |-> at.offset, len |-> at.len]
  <2>1. u.shown \in Seq(Index)
    BY OrderedIs
  <2> QED  BY <2>1 DEF Places
<1>2. CASE at.len = 0
  <2>1. next = at
    BY <1>2 DEF Halve
  <2> QED  BY <1>2, <2>1
<1>3. CASE at.len > 0
  <2>1. mid \in Nat /\ mid < at.len /\ 2 * mid <= at.len /\ (mid = 0 => at.len = 1)
    BY <1>1, <1>3
  <2>2. at.offset + mid + 1 \in 1 .. L
    BY <1>1, <2>1
  <2>3. row \in Index
    BY <2>2, OrderedIs
  <2>4. next = [offset |-> IF res = 0 THEN at.offset + mid ELSE below,
                len |-> IF res = 0 \/ mid = 0 THEN 0 ELSE at.len - mid]
    BY <1>1, <1>3 DEF Halve
  <2>5. /\ r \in Int /\ R(at.offset + mid + 1) \in Int
        /\ res = 1 <=> r > R(at.offset + mid + 1)
        /\ res = 0 <=> r = R(at.offset + mid + 1)
    BY <2>3, CompareIs
  <2>6. \A m \in 1 .. L : R(m) \in Int
    BY OrderedIs
  <2> HIDE DEF next, res, mid, L, r, R
  <2>7. next.offset \in Nat /\ next.len \in Nat /\ next.len < at.len /\ next.offset + next.len <= L
    BY <1>1, <1>3, <2>1, <2>4
  <2>8. next \in Places(L)
    BY <1>1, <2>4, <2>7 DEF Places
  <2>9. ASSUME \A m, n \in 1 .. L : m < n => R(m) <= R(n),
               \A m \in 1 .. at.offset : R(m) <= r,
               \A m \in at.offset + at.len + 1 .. L : r <= R(m)
        PROVE  /\ \A m \in 1 .. next.offset : R(m) <= r
               /\ \A m \in next.offset + next.len + 1 .. L : r <= R(m)
    <3>1. \A m \in 1 .. at.offset + mid : R(m) <= R(at.offset + mid + 1)
      BY <1>1, <2>1, <2>2, <2>9
    <3>2. \A m \in at.offset + mid + 1 .. L : R(at.offset + mid + 1) <= R(m)
      <4>1. ASSUME NEW m \in at.offset + mid + 1 .. L PROVE R(at.offset + mid + 1) <= R(m)
        <5>1. CASE m = at.offset + mid + 1
          BY <2>5, <5>1
        <5>2. CASE m # at.offset + mid + 1
          BY <1>1, <2>1, <2>2, <2>9, <5>2
        <5> QED  BY <5>1, <5>2
      <4> QED  BY <4>1
    <3>3. CASE res = 0
      <4>1. next.offset = at.offset + mid /\ next.len = 0
        BY <2>4, <3>3
      <4> QED  BY <1>1, <2>1, <2>5, <3>1, <3>2, <3>3, <4>1
    <3>4. CASE res = 1
      <4>1. r > R(at.offset + mid + 1)
        BY <2>5, <3>4
      <4>2. \A m \in 1 .. at.offset + mid + 1 : R(m) <= r
        <5>1. ASSUME NEW m \in 1 .. at.offset + mid + 1 PROVE R(m) <= r
          <6>1. CASE m = at.offset + mid + 1
            BY <2>5, <4>1, <6>1
          <6>2. CASE m \in 1 .. at.offset + mid
            <7>1. R(m) <= R(at.offset + mid + 1) /\ R(m) \in Int
              BY <1>1, <2>1, <2>2, <2>6, <3>1, <6>2
            <7> QED  BY <2>5, <4>1, <7>1
          <6> QED  BY <1>1, <2>1, <6>1, <6>2
        <5> QED  BY <5>1
      <4>3. next.offset <= at.offset + mid + 1 /\ next.offset + next.len = at.offset + at.len
        BY <1>1, <1>3, <2>1, <2>4, <3>4
      <4> QED  BY <1>1, <2>1, <2>7, <2>9, <4>2, <4>3
    <3>5. CASE res # 0 /\ res # 1
      <4>1. r < R(at.offset + mid + 1)
        BY <2>5, <3>5
      <4>2. \A m \in at.offset + mid + 1 .. L : r <= R(m)
        <5>1. ASSUME NEW m \in at.offset + mid + 1 .. L PROVE r <= R(m)
          <6>1. R(at.offset + mid + 1) <= R(m) /\ m \in 1 .. L
            BY <1>1, <2>1, <3>2
          <6> QED  BY <2>5, <2>6, <4>1, <6>1
        <5> QED  BY <5>1
      <4>3. next.offset = at.offset /\ next.len = IF mid = 0 THEN 0 ELSE at.len - mid
        BY <1>1, <2>4, <3>5
      <4>4. next.offset + next.len >= at.offset + mid
        BY <1>1, <2>1, <4>3
      <4> QED  BY <1>1, <2>1, <2>7, <2>9, <4>2, <4>3, <4>4
    <3> QED  BY <3>3, <3>4, <3>5
  <2>10. Ordered(servers, u) => \A m, n \in 1 .. L : m < n => R(m) <= R(n)
    BY OrderedIs DEF R, L
  <2>11. Ordered(servers, u) /\ Placed(servers, u, num, at) => Placed(servers, u, num, next)
    BY <2>9, <2>10 DEF Placed, R, r, L
  <2> QED  BY <1>3, <2>7, <2>8, <2>11 DEF next, L
<1> QED  BY <1>1, <1>2, <1>3

-----------------------------------------------------------------------------
(* The loops                                                               *)

(* The runs of the loop of UI_BinaryServerInsertion.                       *)
SearchRun(servers, u, num, X) ==
  {g \in [0 .. Len(u.shown) -> X] :
     /\ g[0] = [offset |-> 0, len |-> Len(u.shown)]
     /\ \A i \in 1 .. Len(u.shown) : g[i] = Halve(servers, u, num, g[i - 1])
     /\ InsertPosition(servers, u, num) = g[Len(u.shown)].offset}

(* The loop of UI_BinaryServerInsertion has a run.                         *)
LEMMA SearchRuns ==
  ASSUME NEW servers, NEW u, NEW num, NEW X, Len(u.shown) \in Nat,
         [offset |-> 0, len |-> Len(u.shown)] \in X,
         \A v \in X : Halve(servers, u, num, v) \in X
  PROVE  SearchRun(servers, u, num, X) # {}
<1> DEFINE n == Len(u.shown)
           start == [offset |-> 0, len |-> n]
           step == [p \in (1 .. n) \X X |-> Halve(servers, u, num, p[2])]
           Turns(f) == [i \in 0 .. n |-> IF i = 0 THEN start
                                         ELSE CHOOSE next \in {Halve(servers, u, num, v) : v \in {f[i - 1]}} : TRUE]
           after == CHOOSE f : f = Turns(f)
<1>1. step \in [(1 .. n) \X X -> X]
  OBVIOUS
<1>2. \A i \in 1 .. n, v \in X : step[<<i, v>>] = Halve(servers, u, num, v)
  OBVIOUS
<1>3. ASSUME NEW f, NEW i \in 1 .. n PROVE Turns(f)[i] = Halve(servers, u, num, f[i - 1])
  OBVIOUS
<1>4. n \in Nat /\ start \in X
  OBVIOUS
<1> HIDE DEF step, Turns, n, start
<1>5. PICK g \in [0 .. n -> X] : g[0] = start /\ \A i \in 1 .. n : g[i] = step[<<i, g[i - 1]>>]
  <2>1. Runs(X, start, n, step) # {}
    BY <1>1, <1>4, LoopRuns
  <2> QED  BY <2>1 DEF Runs
<1>6. g = Turns(g)
  <2>1. ASSUME NEW i \in 1 .. n PROVE g[i] = Turns(g)[i]
    <3>1. g[i - 1] \in X
      BY <1>4
    <3>2. g[i] = step[<<i, g[i - 1]>>]
      BY <1>5
    <3>3. step[<<i, g[i - 1]>>] = Halve(servers, u, num, g[i - 1])
      BY <1>2, <3>1
    <3> QED  BY <1>3, <3>2, <3>3
  <2>2. \A i \in 0 .. n : i = 0 \/ i \in 1 .. n
    BY <1>4
  <2>3. g[0] = Turns(g)[0]
    BY <1>5, <1>4 DEF Turns
  <2>4. \A i \in 0 .. n : g[i] = Turns(g)[i]
    BY <2>1, <2>2, <2>3
  <2> QED  BY <2>4 DEF Turns
<1>7. after = Turns(after)
  BY <1>6
<1>8. Loop(LAMBDA at, i : Halve(servers, u, num, at), start, n) = IF n < 1 THEN start ELSE after[n]
  BY DEF Loop, Turns
<1> HIDE DEF after
<1>9. after[0] = start /\ \A i \in 1 .. n : after[i] = Halve(servers, u, num, after[i - 1])
  <2>1. after[0] = start
    BY <1>7, <1>4 DEF Turns
  <2> QED  BY <1>3, <1>7, <2>1
<1>10. after = [i \in 0 .. n |-> after[i]]
  BY <1>7 DEF Turns
<1>11. after \in [0 .. n -> X]
  <2>1. \A i \in 1 .. n : after[i - 1] \in X => after[i] \in X
    BY <1>9
  <2> QED  BY <1>9, <1>10, <1>4, <2>1, TurnsStay
<1>12. Loop(LAMBDA at, i : Halve(servers, u, num, at), start, n) = after[n]
  <2>1. n < 1 => n = 0
    BY <1>4
  <2> QED  BY <1>8, <1>9, <2>1
<1>13. InsertPosition(servers, u, num) = after[n].offset
  BY <1>12 DEF InsertPosition, start, n
<1> QED  BY <1>9, <1>11, <1>13 DEF SearchRun, start, n

(* The runs of the loop of UI_BuildServerDisplayList.                      *)
DisplayRun(X, start, n) ==
  {g \in [0 .. n -> X] :
     /\ g[0] = start
     /\ \A i \in 1 .. n : g[i] = Display(g[i - 1], i)
     /\ Loop(Display, start, n) = g[n]}

(* The loop of UI_BuildServerDisplayList has a run.                        *)
LEMMA DisplayRuns ==
  ASSUME NEW X, NEW start \in X, NEW n \in Nat,
         \A i \in 1 .. n, v \in X : Display(v, i) \in X
  PROVE  DisplayRun(X, start, n) # {}
<1> DEFINE step == [p \in (1 .. n) \X X |-> Display(p[2], p[1])]
           Turns(f) == [i \in 0 .. n |-> IF i = 0 THEN start
                                         ELSE CHOOSE next \in {Display(v, i) : v \in {f[i - 1]}} : TRUE]
           after == CHOOSE f : f = Turns(f)
<1>1. step \in [(1 .. n) \X X -> X]
  OBVIOUS
<1>2. \A i \in 1 .. n, v \in X : step[<<i, v>>] = Display(v, i)
  OBVIOUS
<1>3. ASSUME NEW f, NEW i \in 1 .. n PROVE Turns(f)[i] = Display(f[i - 1], i)
  OBVIOUS
<1> HIDE DEF step, Turns
<1>4. PICK g \in [0 .. n -> X] : g[0] = start /\ \A i \in 1 .. n : g[i] = step[<<i, g[i - 1]>>]
  <2>1. Runs(X, start, n, step) # {}
    BY <1>1, LoopRuns
  <2> QED  BY <2>1 DEF Runs
<1>5. g = Turns(g)
  <2>1. ASSUME NEW i \in 1 .. n PROVE g[i] = Turns(g)[i]
    <3>1. g[i - 1] \in X
      OBVIOUS
    <3> QED  BY <1>3, <1>4, <1>2, <3>1
  <2>2. \A i \in 0 .. n : i = 0 \/ i \in 1 .. n
    OBVIOUS
  <2>3. g[0] = Turns(g)[0]
    BY <1>4 DEF Turns
  <2>4. \A i \in 0 .. n : g[i] = Turns(g)[i]
    BY <2>1, <2>2, <2>3
  <2> QED  BY <2>4 DEF Turns
<1>6. after = Turns(after)
  BY <1>5
<1>7. Loop(Display, start, n) = IF n < 1 THEN start ELSE after[n]
  BY DEF Loop, Turns
<1> HIDE DEF after
<1>8. after[0] = start /\ \A i \in 1 .. n : after[i] = Display(after[i - 1], i)
  <2>1. after[0] = start
    BY <1>6 DEF Turns
  <2> QED  BY <1>3, <1>6, <2>1
<1>9. after = [i \in 0 .. n |-> after[i]]
  BY <1>6 DEF Turns
<1>10. after \in [0 .. n -> X]
  <2>1. \A i \in 1 .. n : after[i - 1] \in X => after[i] \in X
    BY <1>8
  <2> QED  BY <1>8, <1>9, <2>1, TurnsStay
<1>11. Loop(Display, start, n) = after[n]
  <2>1. n < 1 => n = 0
    OBVIOUS
  <2> QED  BY <1>7, <1>8, <2>1
<1> QED  BY <1>8, <1>10, <1>11 DEF DisplayRun

(* The runs of the first loop of CL_UpdateVisiblePings_f.                  *)
AskRun(X, start, n) ==
  {g \in [0 .. n -> X] :
     /\ g[0] = start
     /\ \A i \in 1 .. n : g[i] = Ask(g[i - 1], i)
     /\ Loop(Ask, start, n) = g[n]}

(* The first loop of CL_UpdateVisiblePings_f has a run.                    *)
LEMMA AskRuns ==
  ASSUME NEW X, NEW start \in X, NEW n \in Nat,
         \A i \in 1 .. n, v \in X : Ask(v, i) \in X
  PROVE  AskRun(X, start, n) # {}
<1> DEFINE step == [p \in (1 .. n) \X X |-> Ask(p[2], p[1])]
           Turns(f) == [i \in 0 .. n |-> IF i = 0 THEN start
                                         ELSE CHOOSE next \in {Ask(v, i) : v \in {f[i - 1]}} : TRUE]
           after == CHOOSE f : f = Turns(f)
<1>1. step \in [(1 .. n) \X X -> X]
  OBVIOUS
<1>2. \A i \in 1 .. n, v \in X : step[<<i, v>>] = Ask(v, i)
  OBVIOUS
<1>3. ASSUME NEW f, NEW i \in 1 .. n PROVE Turns(f)[i] = Ask(f[i - 1], i)
  OBVIOUS
<1> HIDE DEF step, Turns
<1>4. PICK g \in [0 .. n -> X] : g[0] = start /\ \A i \in 1 .. n : g[i] = step[<<i, g[i - 1]>>]
  <2>1. Runs(X, start, n, step) # {}
    BY <1>1, LoopRuns
  <2> QED  BY <2>1 DEF Runs
<1>5. g = Turns(g)
  <2>1. ASSUME NEW i \in 1 .. n PROVE g[i] = Turns(g)[i]
    <3>1. g[i - 1] \in X
      OBVIOUS
    <3> QED  BY <1>3, <1>4, <1>2, <3>1
  <2>2. \A i \in 0 .. n : i = 0 \/ i \in 1 .. n
    OBVIOUS
  <2>3. g[0] = Turns(g)[0]
    BY <1>4 DEF Turns
  <2>4. \A i \in 0 .. n : g[i] = Turns(g)[i]
    BY <2>1, <2>2, <2>3
  <2> QED  BY <2>4 DEF Turns
<1>6. after = Turns(after)
  BY <1>5
<1>7. Loop(Ask, start, n) = IF n < 1 THEN start ELSE after[n]
  BY DEF Loop, Turns
<1> HIDE DEF after
<1>8. after[0] = start /\ \A i \in 1 .. n : after[i] = Ask(after[i - 1], i)
  <2>1. after[0] = start
    BY <1>6 DEF Turns
  <2> QED  BY <1>3, <1>6, <2>1
<1>9. after = [i \in 0 .. n |-> after[i]]
  BY <1>6 DEF Turns
<1>10. after \in [0 .. n -> X]
  <2>1. \A i \in 1 .. n : after[i - 1] \in X => after[i] \in X
    BY <1>8
  <2> QED  BY <1>8, <1>9, <2>1, TurnsStay
<1>11. Loop(Ask, start, n) = after[n]
  <2>1. n < 1 => n = 0
    OBVIOUS
  <2> QED  BY <1>7, <1>8, <2>1
<1> QED  BY <1>8, <1>10, <1>11 DEF AskRun

(* The runs of the second loop of CL_UpdateVisiblePings_f.                 *)
CollectRun(X, start, n) ==
  {g \in [0 .. n -> X] :
     /\ g[0] = start
     /\ \A i \in 1 .. n : g[i] = Collect(g[i - 1], i)
     /\ Loop(Collect, start, n) = g[n]}

(* The second loop of CL_UpdateVisiblePings_f has a run.                   *)
LEMMA CollectRuns ==
  ASSUME NEW X, NEW start \in X, NEW n \in Nat,
         \A i \in 1 .. n, v \in X : Collect(v, i) \in X
  PROVE  CollectRun(X, start, n) # {}
<1> DEFINE step == [p \in (1 .. n) \X X |-> Collect(p[2], p[1])]
           Turns(f) == [i \in 0 .. n |-> IF i = 0 THEN start
                                         ELSE CHOOSE next \in {Collect(v, i) : v \in {f[i - 1]}} : TRUE]
           after == CHOOSE f : f = Turns(f)
<1>1. step \in [(1 .. n) \X X -> X]
  OBVIOUS
<1>2. \A i \in 1 .. n, v \in X : step[<<i, v>>] = Collect(v, i)
  OBVIOUS
<1>3. ASSUME NEW f, NEW i \in 1 .. n PROVE Turns(f)[i] = Collect(f[i - 1], i)
  OBVIOUS
<1> HIDE DEF step, Turns
<1>4. PICK g \in [0 .. n -> X] : g[0] = start /\ \A i \in 1 .. n : g[i] = step[<<i, g[i - 1]>>]
  <2>1. Runs(X, start, n, step) # {}
    BY <1>1, LoopRuns
  <2> QED  BY <2>1 DEF Runs
<1>5. g = Turns(g)
  <2>1. ASSUME NEW i \in 1 .. n PROVE g[i] = Turns(g)[i]
    <3>1. g[i - 1] \in X
      OBVIOUS
    <3> QED  BY <1>3, <1>4, <1>2, <3>1
  <2>2. \A i \in 0 .. n : i = 0 \/ i \in 1 .. n
    OBVIOUS
  <2>3. g[0] = Turns(g)[0]
    BY <1>4 DEF Turns
  <2>4. \A i \in 0 .. n : g[i] = Turns(g)[i]
    BY <2>1, <2>2, <2>3
  <2> QED  BY <2>4 DEF Turns
<1>6. after = Turns(after)
  BY <1>5
<1>7. Loop(Collect, start, n) = IF n < 1 THEN start ELSE after[n]
  BY DEF Loop, Turns
<1> HIDE DEF after
<1>8. after[0] = start /\ \A i \in 1 .. n : after[i] = Collect(after[i - 1], i)
  <2>1. after[0] = start
    BY <1>6 DEF Turns
  <2> QED  BY <1>3, <1>6, <2>1
<1>9. after = [i \in 0 .. n |-> after[i]]
  BY <1>6 DEF Turns
<1>10. after \in [0 .. n -> X]
  <2>1. \A i \in 1 .. n : after[i - 1] \in X => after[i] \in X
    BY <1>8
  <2> QED  BY <1>8, <1>9, <2>1, TurnsStay
<1>11. Loop(Collect, start, n) = after[n]
  <2>1. n < 1 => n = 0
    OBVIOUS
  <2> QED  BY <1>7, <1>8, <2>1
<1> QED  BY <1>8, <1>10, <1>11 DEF CollectRun

(* The runs of the loop of HandleGetServers over its answer.               *)
FillingRun(entries, X) ==
  {g \in [0 .. Len(entries) -> X] :
     /\ g[0] = [sent |-> <<>>, packet |-> Empty]
     /\ \A i \in 1 .. Len(entries) : g[i] = AddEntry(g[i - 1], entries[i])
     /\ LET filled == MakeSpace(g[Len(entries)])
        IN  Packets(entries) = Append(filled.sent, [filled.packet EXCEPT !.end = TRUE])}

(* The loop of HandleGetServers over its answer has a run.                 *)
LEMMA FillingRuns ==
  ASSUME NEW entries, NEW X, Len(entries) \in Nat,
         [sent |-> <<>>, packet |-> Empty] \in X,
         \A i \in 1 .. Len(entries), v \in X : AddEntry(v, entries[i]) \in X
  PROVE  FillingRun(entries, X) # {}
<1> DEFINE n == Len(entries)
           start == [sent |-> <<>>, packet |-> Empty]
           step == [p \in (1 .. n) \X X |-> AddEntry(p[2], entries[p[1]])]
           Turns(f) == [i \in 0 .. n |-> IF i = 0 THEN start
                                         ELSE CHOOSE next \in {AddEntry(v, entries[i]) : v \in {f[i - 1]}} : TRUE]
           after == CHOOSE f : f = Turns(f)
<1>1. step \in [(1 .. n) \X X -> X]
  OBVIOUS
<1>2. \A i \in 1 .. n, v \in X : step[<<i, v>>] = AddEntry(v, entries[i])
  OBVIOUS
<1>3. ASSUME NEW f, NEW i \in 1 .. n PROVE Turns(f)[i] = AddEntry(f[i - 1], entries[i])
  OBVIOUS
<1>4. n \in Nat /\ start \in X
  OBVIOUS
<1>5. \A i \in 1 .. n, v \in X : AddEntry(v, entries[i]) \in X
  OBVIOUS
<1> HIDE DEF step, Turns, n, start
<1>6. PICK g \in [0 .. n -> X] : g[0] = start /\ \A i \in 1 .. n : g[i] = step[<<i, g[i - 1]>>]
  <2>1. Runs(X, start, n, step) # {}
    BY <1>1, <1>4, LoopRuns
  <2> QED  BY <2>1 DEF Runs
<1>7. g = Turns(g)
  <2>1. ASSUME NEW i \in 1 .. n PROVE g[i] = Turns(g)[i]
    <3>1. g[i - 1] \in X
      BY <1>4
    <3> QED  BY <1>3, <1>6, <1>2, <3>1
  <2>2. \A i \in 0 .. n : i = 0 \/ i \in 1 .. n
    BY <1>4
  <2>3. g[0] = Turns(g)[0]
    BY <1>6, <1>4 DEF Turns
  <2>4. \A i \in 0 .. n : g[i] = Turns(g)[i]
    BY <2>1, <2>2, <2>3
  <2> QED  BY <2>4 DEF Turns
<1>8. after = Turns(after)
  BY <1>7
<1>9. Loop(LAMBDA answer, i : AddEntry(answer, entries[i]), start, n) = IF n < 1 THEN start ELSE after[n]
  BY DEF Loop, Turns
<1> HIDE DEF after
<1>10. after[0] = start /\ \A i \in 1 .. n : after[i] = AddEntry(after[i - 1], entries[i])
  <2>1. after[0] = start
    BY <1>8, <1>4 DEF Turns
  <2> QED  BY <1>3, <1>8, <2>1
<1>11. after = [i \in 0 .. n |-> after[i]]
  BY <1>8 DEF Turns
<1>12. after \in [0 .. n -> X]
  <2>1. \A i \in 1 .. n : after[i - 1] \in X => after[i] \in X
    BY <1>10, <1>5
  <2> QED  BY <1>10, <1>11, <1>4, <2>1, TurnsStay
<1>13. Loop(LAMBDA answer, i : AddEntry(answer, entries[i]), start, n) = after[n]
  <2>1. n < 1 => n = 0
    BY <1>4
  <2> QED  BY <1>9, <1>10, <2>1
<1>14. LET filled == MakeSpace(after[n])
       IN  Packets(entries) = Append(filled.sent, [filled.packet EXCEPT !.end = TRUE])
  BY <1>13 DEF Packets, start, n
<1> QED  BY <1>10, <1>12, <1>14 DEF FillingRun, start, n

-----------------------------------------------------------------------------
(* A new row                                                               *)

(* The search finds a place between the rows that keeps them in order.     *)
THEOREM PositionIs ==
  ASSUME NEW servers \in Servers, NEW u \in UI, NEW num \in Index
  PROVE  LET p == InsertPosition(servers, u, num)
         IN  /\ p \in 0 .. Len(u.shown)
             /\ Ordered(servers, u) =>
                  /\ \A m \in 1 .. p : Rank(servers, u, u.shown[m]) <= Rank(servers, u, num)
                  /\ \A m \in p + 1 .. Len(u.shown) : Rank(servers, u, num) <= Rank(servers, u, u.shown[m])
<1> DEFINE L == Len(u.shown)
           start == [offset |-> 0, len |-> L]
<1>1. L \in Nat
  BY OrderedIs
<1>2. start \in Places(L)
  BY <1>1 DEF Places
<1>3. \A at \in Places(L) : Halve(servers, u, num, at) \in Places(L)
  BY HalveIs
<1> HIDE DEF start, L
<1>4. PICK g \in [0 .. L -> Places(L)] :
        /\ g[0] = start
        /\ \A i \in 1 .. L : g[i] = Halve(servers, u, num, g[i - 1])
        /\ InsertPosition(servers, u, num) = g[L].offset
  <2>1. SearchRun(servers, u, num, Places(L)) # {}
    BY <1>1, <1>2, <1>3, SearchRuns DEF start, L
  <2> QED  BY <2>1 DEF SearchRun, start, L
<1> DEFINE S == {i \in 0 .. L : /\ g[i].len <= L - i
                                /\ Ordered(servers, u) => Placed(servers, u, num, g[i])}
<1>5. 0 \in S
  <2>1. start.len = L /\ start.offset = 0
    BY DEF start
  <2>2. Placed(servers, u, num, start)
    BY <1>1, <2>1 DEF Placed, L
  <2>3. g[0] = start /\ 0 \in 0 .. L /\ L <= L - 0
    BY <1>1, <1>4
  <2> QED  BY <2>1, <2>2, <2>3
<1>6. ASSUME NEW i \in 0 .. L - 1, i \in S PROVE i + 1 \in S
  <2> DEFINE at == g[i]
             next == g[i + 1]
  <2>1. i + 1 \in 1 .. L /\ (i + 1) - 1 = i /\ i \in 0 .. L
    BY <1>1
  <2>2. at \in Places(L) /\ next = Halve(servers, u, num, at)
    BY <1>4, <2>1
  <2>3. /\ next \in Places(L)
        /\ at.len > 0 => next.len < at.len
        /\ at.len = 0 => next = at
        /\ Ordered(servers, u) /\ Placed(servers, u, num, at) => Placed(servers, u, num, next)
    BY <2>2, HalveIs DEF L
  <2>4. at.len <= L - i /\ (Ordered(servers, u) => Placed(servers, u, num, at))
    BY <1>6
  <2> HIDE DEF at, next
  <2>5. at.len \in Nat /\ next.len \in Nat
    BY <1>1, <2>2, <2>3 DEF Places
  <2>6. next.len <= L - (i + 1)
    BY <1>1, <2>1, <2>3, <2>4, <2>5
  <2> QED  BY <1>1, <2>1, <2>3, <2>4, <2>6 DEF next
<1>7. L \in S
  <2>1. 0 .. L \subseteq S
    <3> HIDE DEF S
    <3> QED  BY <1>1, <1>5, <1>6, BoundedInduction
  <2> QED  BY <1>1, <2>1
<1>8. g[L] \in Places(L)
  BY <1>1
<1>9. g[L].len \in Nat /\ g[L].offset \in 0 .. L /\ g[L].len <= L - L
  BY <1>1, <1>7, <1>8 DEF Places
<1>10. g[L].len = 0
  BY <1>1, <1>9
<1>11. InsertPosition(servers, u, num) = g[L].offset
  BY <1>4
<1>12. Ordered(servers, u) => Placed(servers, u, num, g[L])
  BY <1>7
<1>13. \A k \in 0 .. L : k + 0 + 1 = k + 1
  BY <1>1
<1> QED  BY <1>9, <1>10, <1>11, <1>12, <1>13 DEF Placed, L

(* All rows with one for one more server: they stay different servers, and *)
(* in order.                                                               *)
WithRow(servers, u, num) ==
  {v \in UI :
     /\ v = [u EXCEPT !.shown = v.shown]
     /\ ToSet(v.shown) = ToSet(u.shown) \cup {num}
     /\ IsInjective(u.shown) /\ num \notin ToSet(u.shown) => IsInjective(v.shown)
     /\ Ordered(servers, u) => Ordered(servers, v)}

(* The place the search finds is the right one.                            *)
LEMMA WithRowIs ==
  ASSUME NEW servers \in Servers, NEW u \in UI, NEW num \in Index
  PROVE  [u EXCEPT !.shown = InsertAt(u.shown, InsertPosition(servers, u, num) + 1, num)]
           \in WithRow(servers, u, num)
<1> DEFINE s == u.shown
           p == InsertPosition(servers, u, num)
           t == InsertAt(s, p + 1, num)
           v == [u EXCEPT !.shown = t]
           L == Len(s)
<1>1. s \in Seq(Index) /\ L \in Nat /\ DOMAIN s = 1 .. L
  BY OrderedIs
<1>2. p \in 0 .. L
  BY PositionIs
<1>3. t \in Inserted(Index, s, p, num)
  <2> HIDE DEF p, s
  <2> QED  BY <1>1, <1>2, InsertIs
<1>4. /\ t \in Seq(Index) /\ Len(t) = L + 1 /\ DOMAIN t = 1 .. L + 1
      /\ \A m \in 1 .. L + 1 : t[m] = IF m <= p THEN s[m] ELSE IF m = p + 1 THEN num ELSE s[m - 1]
  <2> HIDE DEF p, s, t
  <2> QED  BY <1>1, <1>3 DEF Inserted
<1>5. v = [u EXCEPT !.shown = t]
  OBVIOUS
<1> HIDE DEF t
<1>6. v.shown = t /\ v = [u EXCEPT !.shown = v.shown] /\ v \in UI
      /\ v.sortKey = u.sortKey /\ v.sortDir = u.sortDir
  BY <1>4, <1>5 DEF UI
<1> DEFINE R(m) == Rank(servers, u, s[m])
           r == Rank(servers, u, num)
<1>7. Ordered(servers, u) => /\ \A m \in 1 .. p : R(m) <= r
                             /\ \A m \in p + 1 .. L : r <= R(m)
  BY PositionIs
<1>8. r \in Int /\ \A m \in 1 .. L : R(m) \in Int
  BY OrderedIs, CompareIs
<1>9. Ordered(servers, u) => \A m, n \in 1 .. L : m < n => R(m) <= R(n)
  BY OrderedIs
<1>10. \A m \in 1 .. L + 1 : Rank(servers, v, v.shown[m]) =
                               IF m <= p THEN R(m) ELSE IF m = p + 1 THEN r ELSE R(m - 1)
  BY <1>4, <1>6 DEF Rank
<1> HIDE DEF v, p, R, r
<1>11. ToSet(t) = ToSet(s) \cup {num}
  <2>1. ASSUME NEW x \in ToSet(t) PROVE x \in ToSet(s) \cup {num}
    <3>1. PICK m \in 1 .. L + 1 : x = t[m]
      BY <1>4 DEF ToSet
    <3>2. m <= p \/ m = p + 1 \/ (m > p + 1 /\ m - 1 \in 1 .. L)
      BY <1>1, <1>2
    <3>3. m <= p => m \in 1 .. L
      BY <1>1, <1>2
    <3> QED  BY <1>1, <1>2, <1>4, <3>1, <3>2, <3>3 DEF ToSet
  <2>2. ASSUME NEW x \in ToSet(s) PROVE x \in ToSet(t)
    <3>1. PICK m \in 1 .. L : x = s[m]
      BY <1>1 DEF ToSet
    <3>2. CASE m <= p
      <4>1. t[m] = s[m] /\ m \in 1 .. L + 1
        BY <1>1, <1>4, <3>2
      <4> QED  BY <1>4, <3>1, <4>1 DEF ToSet
    <3>3. CASE m > p
      <4>1. m + 1 \in 1 .. L + 1 /\ ~(m + 1 <= p) /\ m + 1 # p + 1 /\ (m + 1) - 1 = m
        BY <1>1, <1>2, <3>3
      <4>2. t[m + 1] = s[m]
        BY <1>4, <4>1
      <4> QED  BY <1>4, <3>1, <4>1, <4>2 DEF ToSet
    <3> QED  BY <1>1, <1>2, <3>2, <3>3
  <2>3. num \in ToSet(t)
    <3>1. p + 1 \in 1 .. L + 1 /\ t[p + 1] = num
      BY <1>1, <1>2, <1>4
    <3> QED  BY <1>4, <3>1 DEF ToSet
  <2> QED  BY <2>1, <2>2, <2>3
<1>12. ASSUME IsInjective(s), num \notin ToSet(s) PROVE IsInjective(t)
  <2>1. \A m, n \in 1 .. L : s[m] = s[n] => m = n
    BY <1>1, <1>12 DEF IsInjective
  <2>2. \A m \in 1 .. L : s[m] # num
    BY <1>1, <1>12 DEF ToSet
  <2>3. ASSUME NEW m \in 1 .. L + 1, NEW n \in 1 .. L + 1, m < n PROVE t[m] # t[n]
    <3>1. CASE m <= p
      <4>1. t[m] = s[m] /\ m \in 1 .. L
        BY <1>1, <1>2, <1>4, <3>1
      <4>2. t[n] \in {s[n], num, s[n - 1]}
        BY <1>4
      <4>3. CASE n <= p
        BY <1>1, <1>2, <1>4, <2>1, <2>3, <4>1, <4>3
      <4>4. CASE n = p + 1
        BY <1>1, <1>2, <1>4, <2>2, <4>1, <4>4
      <4>5. CASE n > p + 1
        <5>1. n - 1 \in 1 .. L /\ m # n - 1
          BY <1>1, <1>2, <3>1, <4>5
        <5>2. t[n] = s[n - 1]
          BY <1>1, <1>2, <1>4, <4>5
        <5> QED  BY <2>1, <4>1, <5>1, <5>2
      <4> QED  BY <1>1, <1>2, <4>3, <4>4, <4>5
    <3>2. CASE m = p + 1
      <4>1. t[m] = num /\ t[n] = s[n - 1] /\ n - 1 \in 1 .. L
        BY <1>1, <1>2, <1>4, <2>3, <3>2
      <4> QED  BY <2>2, <4>1
    <3>3. CASE m > p + 1
      <4>1. /\ t[m] = s[m - 1] /\ t[n] = s[n - 1]
            /\ m - 1 \in 1 .. L /\ n - 1 \in 1 .. L /\ m - 1 # n - 1
        BY <1>1, <1>2, <1>4, <2>3, <3>3
      <4> QED  BY <2>1, <4>1
    <3> QED  BY <1>1, <1>2, <3>1, <3>2, <3>3
  <2>4. \A m, n \in 1 .. L + 1 : t[m] = t[n] => m = n
    <3>1. \A m, n \in 1 .. L + 1 : m < n \/ n < m \/ m = n
      BY <1>1
    <3> QED  BY <2>3, <3>1
  <2> QED  BY <1>4, <2>4 DEF IsInjective
<1>13. ASSUME Ordered(servers, u) PROVE Ordered(servers, v)
  <2>1. ASSUME NEW m \in 1 .. L + 1, NEW n \in 1 .. L + 1, m < n
        PROVE  Rank(servers, v, v.shown[m]) <= Rank(servers, v, v.shown[n])
    <3>1. CASE n <= p
      BY <1>1, <1>2, <1>9, <1>10, <1>13, <2>1, <3>1
    <3>2. CASE n = p + 1
      BY <1>1, <1>2, <1>7, <1>10, <1>13, <2>1, <3>2
    <3>3. CASE n > p + 1
      <4>1. n - 1 \in 1 .. L /\ Rank(servers, v, v.shown[n]) = R(n - 1)
        BY <1>1, <1>2, <1>10, <3>3
      <4>2. CASE m <= p
        <5>1. m \in 1 .. L /\ m < n - 1 /\ Rank(servers, v, v.shown[m]) = R(m)
          BY <1>1, <1>2, <1>10, <3>3, <4>2
        <5> QED  BY <1>9, <1>13, <4>1, <5>1
      <4>3. CASE m = p + 1
        <5>1. Rank(servers, v, v.shown[m]) = r /\ n - 1 \in p + 1 .. L
          BY <1>1, <1>2, <1>10, <3>3, <4>3
        <5> QED  BY <1>7, <1>13, <4>1, <5>1
      <4>4. CASE m > p + 1
        <5>1. m - 1 \in 1 .. L /\ m - 1 < n - 1 /\ Rank(servers, v, v.shown[m]) = R(m - 1)
          BY <1>1, <1>2, <1>10, <2>1, <4>4
        <5> QED  BY <1>9, <1>13, <4>1, <5>1
      <4> QED  BY <1>1, <1>2, <4>2, <4>3, <4>4
    <3> QED  BY <1>1, <1>2, <3>1, <3>2, <3>3
  <2> QED  BY <1>4, <1>6, <2>1, OrderedIs
<1>14. v \in WithRow(servers, u, num)
  BY <1>6, <1>11, <1>12, <1>13 DEF WithRow
<1> QED  BY <1>14 DEF v, t, p

(* Only the rows and the unused entries differ, and the flags of the frame.*)
SameBrowser(u, v) ==
  v.refreshActive = u.refreshActive /\ v.sortKey = u.sortKey /\ v.sortDir = u.sortDir

(* The first of the rows, with the others unused.                          *)
FirstRows(u, rows) ==
  {v \in UI :
     /\ SameBrowser(u, v)
     /\ Filled(v)
     /\ Len(v.shown) <= Len(rows)
     /\ \A m \in 1 .. Len(v.shown) : v.shown[m] = rows[m]}

(* The 512th row ends the rows behind the number in the last entry.        *)
LEMMA InsertServerIs ==
  ASSUME NEW u \in UI, Filled(u), NEW num \in Index, NEW position \in 0 .. Len(u.shown)
  PROVE  UI_InsertServerIntoDisplayList(u, num, position)
           \in FirstRows(u, InsertAt(u.shown, position + 1, num))
<1> DEFINE rows == InsertAt(u.shown, position + 1, num)
           behind == Head(u.unused)
           v == UI_InsertServerIntoDisplayList(u, num, position)
           L == Len(u.shown)
           K == Len(u.unused)
<1>1. u.shown \in Seq(Index) /\ u.unused \in Seq(Index) /\ L \in Nat /\ K \in Nat
  BY DEF UI
<1>2. K > 0 /\ L + K = MAX_GLOBAL_SERVERS
  BY DEF Filled
<1>3. rows \in Seq(Index) /\ Len(rows) = L + 1 /\ \A m \in 1 .. Len(rows) : rows[m] \in Index
  <2>1. rows \in Inserted(Index, u.shown, position, num)
    BY <1>1, InsertIs
  <2>2. rows \in Seq(Index) /\ Len(rows) = L + 1
    BY <2>1 DEF Inserted
  <2> HIDE DEF rows
  <2> QED  BY <2>2
<1>4. behind \in Index
  <2>1. u.unused # <<>>
    BY <1>1, <1>2
  <2> QED  BY <1>1, <2>1, HeadTailProperties
<1>5. behind \in 1 .. MAX_GLOBAL_SERVERS /\ MAX_GLOBAL_SERVERS \in Nat
  BY <1>4, BrowserAssumption DEF Index
<1>6. v = IF K > 1
          THEN [u EXCEPT !.shown = rows, !.unused = <<behind>> \o SubSeq(u.unused, 3, K)]
          ELSE [u EXCEPT !.shown = SubSeq(rows, 1, behind - 1), !.unused = SubSeq(rows, behind, Len(rows))]
  BY DEF UI_InsertServerIntoDisplayList
<1>7. \A m \in 1 .. K : u.unused[m] \in Index
  BY <1>1
<1> HIDE DEF v, rows, behind, L, K
<1>8. CASE K > 1
  <2> DEFINE others == SubSeq(u.unused, 3, K)
             left == <<behind>> \o others
  <2>1. others \in Seq(Index) /\ Len(others) = K - 2
    <3>1. \A m \in 3 .. K : u.unused[m] \in Index
      BY <1>1, <1>7
    <3>2. others \in Seq(Index) /\ Len(others) = IF 3 <= K THEN K - 3 + 1 ELSE 0
      BY <1>1, <3>1, SubSeqProperties
    <3> QED  BY <1>1, <1>8, <3>2
  <2>2. <<behind>> \in Seq(Index) /\ Len(<<behind>>) = 1
    BY <1>4
  <2> HIDE DEF others
  <2>3. left \in Seq(Index) /\ Len(left) = 1 + (K - 2)
    BY <2>1, <2>2, ConcatProperties
  <2>4. v = [u EXCEPT !.shown = rows, !.unused = left]
    BY <1>6, <1>8 DEF others
  <2> HIDE DEF left
  <2>5. v \in UI /\ v.shown = rows /\ v.unused = left /\ SameBrowser(u, v)
    BY <1>3, <2>3, <2>4 DEF UI, SameBrowser
  <2>6. Len(v.unused) > 0 /\ Len(v.shown) + Len(v.unused) = MAX_GLOBAL_SERVERS
    <3>1. Len(rows) + Len(left) = L + K /\ Len(left) > 0
      BY <1>1, <1>3, <1>8, <2>3
    <3> QED  BY <1>2, <2>5, <3>1
  <2>7. Len(v.shown) <= Len(rows) /\ \A m \in 1 .. Len(v.shown) : v.shown[m] = rows[m]
    BY <1>1, <1>3, <2>5
  <2>8. v \in FirstRows(u, rows)
    BY <2>5, <2>6, <2>7 DEF FirstRows, Filled
  <2> QED  BY <2>8 DEF v, rows
<1>9. CASE ~(K > 1)
  <2> DEFINE first == SubSeq(rows, 1, behind - 1)
             left == SubSeq(rows, behind, Len(rows))
  <2>1. K = 1 /\ Len(rows) = MAX_GLOBAL_SERVERS
    BY <1>1, <1>2, <1>3, <1>5, <1>9
  <2>2. first \in Seq(Index) /\ Len(first) = behind - 1 /\ \A m \in 1 .. behind - 1 : first[m] = rows[m]
    <3>1. \A m \in 1 .. behind - 1 : rows[m] \in Index
      BY <1>3, <1>5, <2>1
    <3>2. /\ first \in Seq(Index)
          /\ Len(first) = IF 1 <= behind - 1 THEN (behind - 1) - 1 + 1 ELSE 0
          /\ \A m \in 1 .. (behind - 1) - 1 + 1 : first[m] = rows[1 + m - 1]
      BY <1>5, <3>1, SubSeqProperties
    <3> HIDE DEF first
    <3>3. ASSUME NEW m \in 1 .. behind - 1 PROVE first[m] = rows[m]
      <4>1. m \in 1 .. (behind - 1) - 1 + 1 /\ 1 + m - 1 = m
        BY <1>5
      <4> QED  BY <3>2, <4>1
    <3> QED  BY <1>5, <3>2, <3>3
  <2>3. left \in Seq(Index) /\ Len(left) = MAX_GLOBAL_SERVERS - behind + 1
    <3>1. \A m \in behind .. Len(rows) : rows[m] \in Index
      BY <1>3, <1>5, <2>1
    <3>2. left \in Seq(Index) /\ Len(left) = IF behind <= Len(rows) THEN Len(rows) - behind + 1 ELSE 0
      BY <1>5, <2>1, <3>1, SubSeqProperties
    <3> QED  BY <1>5, <2>1, <3>2
  <2>4. v = [u EXCEPT !.shown = first, !.unused = left]
    BY <1>6, <1>9
  <2> HIDE DEF first, left
  <2>5. v \in UI /\ v.shown = first /\ v.unused = left /\ SameBrowser(u, v)
    BY <2>2, <2>3, <2>4 DEF UI, SameBrowser
  <2>6. Len(v.unused) > 0 /\ Len(v.shown) + Len(v.unused) = MAX_GLOBAL_SERVERS
    BY <1>5, <2>2, <2>3, <2>5
  <2>7. Len(v.shown) <= Len(rows) /\ \A m \in 1 .. Len(v.shown) : v.shown[m] = rows[m]
    BY <1>5, <2>1, <2>2, <2>5
  <2>8. v \in FirstRows(u, rows)
    BY <2>5, <2>6, <2>7 DEF FirstRows, Filled
  <2> QED  BY <2>8 DEF v, rows
<1> QED  BY <1>8, <1>9

(* The browser after a server got a row: the rows stay different servers,  *)
(* and in order.                                                           *)
NewRow(servers, u, num) ==
  {v \in UI :
     /\ SameBrowser(u, v)
     /\ Filled(v)
     /\ ToSet(v.shown) \subseteq ToSet(u.shown) \cup {num}
     /\ IsInjective(u.shown) /\ num \notin ToSet(u.shown) => IsInjective(v.shown)
     /\ Ordered(servers, u) => Ordered(servers, v)}

(* UI_BinaryServerInsertion inserts a row.                                 *)
LEMMA InsertionIs ==
  ASSUME NEW servers \in Servers, NEW u \in UI, Filled(u), NEW num \in Index
  PROVE  UI_BinaryServerInsertion(servers, u, num) \in NewRow(servers, u, num)
<1> DEFINE p == InsertPosition(servers, u, num)
           rows == InsertAt(u.shown, p + 1, num)
           all == [u EXCEPT !.shown = rows]
           v == UI_BinaryServerInsertion(servers, u, num)
<1>1. p \in 0 .. Len(u.shown)
  BY PositionIs
<1>2. all \in WithRow(servers, u, num) /\ all.shown = rows /\ SameBrowser(u, all)
  BY WithRowIs DEF UI, SameBrowser
<1>3. v \in FirstRows(u, rows)
  <2> HIDE DEF p
  <2>1. UI_InsertServerIntoDisplayList(u, num, p) \in FirstRows(u, InsertAt(u.shown, p + 1, num))
    BY <1>1, InsertServerIs
  <2> QED  BY <2>1 DEF UI_BinaryServerInsertion, p
<1> HIDE DEF all, v, rows, p
<1>4. /\ all \in UI
      /\ ToSet(rows) = ToSet(u.shown) \cup {num}
      /\ IsInjective(u.shown) /\ num \notin ToSet(u.shown) => IsInjective(rows)
      /\ Ordered(servers, u) => Ordered(servers, all)
  BY <1>2 DEF WithRow
<1>5. /\ v \in UI /\ SameBrowser(u, v) /\ Filled(v)
      /\ Len(v.shown) <= Len(rows) /\ \A m \in 1 .. Len(v.shown) : v.shown[m] = rows[m]
  BY <1>3 DEF FirstRows
<1>6. rows \in Seq(Index) /\ v.shown \in Seq(Index)
  BY <1>2, <1>4, <1>5 DEF UI
<1>7. /\ DOMAIN rows = 1 .. Len(rows) /\ DOMAIN v.shown = 1 .. Len(v.shown)
      /\ \A m \in 1 .. Len(v.shown) : m \in 1 .. Len(rows)
  BY <1>5, <1>6
<1>8. ToSet(v.shown) \subseteq ToSet(rows)
  BY <1>5, <1>7 DEF ToSet
<1>9. IsInjective(rows) => IsInjective(v.shown)
  BY <1>5, <1>7 DEF IsInjective
<1>10. Ordered(servers, all) => Ordered(servers, v)
  <2>1. v.sortKey = all.sortKey /\ v.sortDir = all.sortDir /\ all.shown = rows
    BY <1>2, <1>5 DEF SameBrowser
  <2> QED  BY <1>5, <1>7, <2>1 DEF Ordered
<1> QED  BY <1>4, <1>5, <1>8, <1>9, <1>10 DEF NewRow, v

(* Without rows every entry is unused.                                     *)
LEMMA NoRowsIs ==
  ASSUME NEW u \in UI, Filled(u)
  PROVE  NoRows(u) \in UI /\ Filled(NoRows(u)) /\ NoRows(u).shown = <<>> /\ SameBrowser(u, NoRows(u))
<1> DEFINE unused == u.shown \o u.unused
           v == NoRows(u)
<1>1. u.shown \in Seq(Index) /\ u.unused \in Seq(Index) /\ <<>> \in Seq(Index) /\ Len(<<>>) = 0
  BY DEF UI
<1>2. unused \in Seq(Index) /\ Len(unused) = MAX_GLOBAL_SERVERS
  BY <1>1, ConcatProperties DEF Filled
<1>3. Len(unused) > 0 /\ 0 + Len(unused) = MAX_GLOBAL_SERVERS
  BY <1>1, <1>2, BrowserAssumption
<1>4. v = [u EXCEPT !.shown = <<>>, !.unused = unused]
  BY DEF NoRows
<1> HIDE DEF unused, v
<1>5. v \in UI /\ v.shown = <<>> /\ v.unused = unused /\ SameBrowser(u, v)
  BY <1>1, <1>2, <1>4 DEF UI, SameBrowser
<1> QED  BY <1>1, <1>3, <1>5 DEF Filled, v

-----------------------------------------------------------------------------
(* UI_BuildServerDisplayList                                               *)

(* Only the pings and the infos decide about the order.                    *)
LEMMA OrderedSame ==
  ASSUME NEW s \in Servers, NEW t \in Servers, NEW u \in UI, NEW v \in UI,
         \A i \in Index : t[i].ping = s[i].ping /\ t[i].info = s[i].info,
         v.shown = u.shown, v.sortKey = u.sortKey, v.sortDir = u.sortDir
  PROVE  Ordered(s, u) => Ordered(t, v)
<1>1. \A i \in Index : Rank(t, v, i) = Rank(s, u, i)
  BY DEF Rank, SortKey
<1>2. Ordered(s, u) => \A m, n \in 1 .. Len(u.shown) :
                         m < n => Rank(s, u, u.shown[m]) <= Rank(s, u, u.shown[n])
  BY OrderedIs
<1>3. \A m \in 1 .. Len(u.shown) : u.shown[m] \in Index
  BY OrderedIs
<1>4. Ordered(t, v) <=> \A m, n \in 1 .. Len(v.shown) :
                          m < n => Rank(t, v, v.shown[m]) <= Rank(t, v, v.shown[n])
  BY OrderedIs
<1> QED  BY <1>1, <1>2, <1>3, <1>4

(* Rows and flags that may follow from the servers s and the browser u.    *)
Shows(s, u) ==
  {b \in [servers : Servers, ui : UI] :
     /\ Hidden(b.servers, b.ui.shown)
     /\ \A i \in Index : /\ b.servers[i].adr = s[i].adr /\ b.servers[i].ping = s[i].ping
                         /\ b.servers[i].info = s[i].info
                         /\ b.servers[i].visible => s[i].visible
     /\ SameBrowser(u, b.ui)
     /\ Filled(b.ui)
     /\ \A i \in ToSet(b.ui.shown) : i \in ToSet(u.shown) \/ s[i].ping > 0
     /\ Ordered(s, u) => Ordered(b.servers, b.ui)}

(* A server that gets a row is no longer visible.                          *)
LEMMA DisplayIs ==
  ASSUME NEW s \in Servers, NEW u \in UI, NEW b \in Shows(s, u), NEW i \in Index
  PROVE  LET next == Display(b, i)
         IN  /\ next \in Shows(s, u)
             /\ \A k \in Index : next.servers[k].visible => b.servers[k].visible
             /\ next.servers[i].visible => s[i].ping <= 0
<1> DEFINE next == Display(b, i)
           t == DoneWith(b.servers, i)
           v == UI_BinaryServerInsertion(b.servers, b.ui, i)
<1>1. /\ b.servers \in Servers /\ b.ui \in UI
      /\ Hidden(b.servers, b.ui.shown)
      /\ SameBrowser(u, b.ui) /\ Filled(b.ui)
      /\ Ordered(s, u) => Ordered(b.servers, b.ui)
      /\ \A k \in ToSet(b.ui.shown) : k \in ToSet(u.shown) \/ s[k].ping > 0
  BY DEF Shows
<1>2. \A k \in Index : /\ b.servers[k].adr = s[k].adr /\ b.servers[k].ping = s[k].ping
                       /\ b.servers[k].info = s[k].info
                       /\ b.servers[k].visible => s[k].visible
  BY DEF Shows
<1>3. s[i].ping \in Int /\ \A k \in Index : b.servers[k] \in ServerInfo
  <2>1. s[i] \in ServerInfo
    BY DEF Servers
  <2>2. s[i].ping \in -1 .. MaxPing
    BY <2>1 DEF ServerInfo
  <2> QED  BY <1>1, <2>2, BrowserAssumption DEF Servers
<1>4. CASE b.servers[i].visible /\ b.servers[i].ping > 0
  <2>1. next = [servers |-> t, ui |-> v]
    BY <1>4 DEF Display
  <2>2. /\ t \in Servers
        /\ \A k \in Index : t[k].adr = b.servers[k].adr /\ t[k].ping = b.servers[k].ping
                              /\ t[k].info = b.servers[k].info
        /\ \A k \in Index : t[k].visible <=> b.servers[k].visible /\ k # i
    <3>1. t = [b.servers EXCEPT ![i] = [b.servers[i] EXCEPT !.visible = FALSE]]
      BY DEF DoneWith
    <3>2. [b.servers[i] EXCEPT !.visible = FALSE] \in ServerInfo
      BY <1>3 DEF ServerInfo
    <3>3. t \in Servers
      BY <1>1, <3>1, <3>2 DEF Servers
    <3>4. \A k \in Index : k # i => t[k] = b.servers[k]
      BY <1>1, <3>1 DEF Servers
    <3>5. t[i] = [b.servers[i] EXCEPT !.visible = FALSE]
      BY <1>1, <3>1 DEF Servers
    <3>6. /\ t[i].adr = b.servers[i].adr /\ t[i].ping = b.servers[i].ping
          /\ t[i].info = b.servers[i].info /\ ~t[i].visible
      BY <1>3, <3>5 DEF ServerInfo
    <3> QED  BY <3>3, <3>4, <3>6
  <2>3. /\ v \in UI /\ SameBrowser(b.ui, v) /\ Filled(v)
        /\ ToSet(v.shown) \subseteq ToSet(b.ui.shown) \cup {i}
        /\ IsInjective(b.ui.shown) /\ i \notin ToSet(b.ui.shown) => IsInjective(v.shown)
        /\ Ordered(b.servers, b.ui) => Ordered(b.servers, v)
    <3>1. b.servers \in Servers /\ b.ui \in UI /\ Filled(b.ui) /\ i \in Index
      BY <1>1
    <3>2. v \in NewRow(b.servers, b.ui, i)
      BY <3>1, InsertionIs
    <3> HIDE DEF v
    <3> QED  BY <3>2 DEF NewRow
  <2> HIDE DEF t, v
  <2>4. i \notin ToSet(b.ui.shown) /\ \A k \in ToSet(b.ui.shown) : ~b.servers[k].visible
    BY <1>1, <1>4 DEF Hidden, ToSet
  <2>5. Hidden(t, v.shown)
    <3>1. IsInjective(v.shown)
      BY <1>1, <2>3, <2>4 DEF Hidden
    <3>2. \A k \in ToSet(v.shown) : k \in Index
      BY <2>3, OrderedIs DEF ToSet
    <3>3. \A k \in ToSet(v.shown) : ~t[k].visible
      BY <2>2, <2>3, <2>4, <3>2
    <3> QED  BY <3>1, <3>3 DEF Hidden, ToSet
  <2>6. SameBrowser(u, v)
    BY <1>1, <2>3 DEF SameBrowser
  <2>9. \A k \in ToSet(v.shown) : k \in ToSet(u.shown) \/ s[k].ping > 0
    BY <1>1, <1>2, <1>4, <2>3
  <2>7. Ordered(s, u) => Ordered(t, v)
    <3>1. Ordered(b.servers, v) => Ordered(t, v)
      BY <1>1, <2>2, <2>3, OrderedSame
    <3> QED  BY <1>1, <2>3, <3>1
  <2>8. [servers |-> t, ui |-> v] \in Shows(s, u)
    <3> DEFINE a == [servers |-> t, ui |-> v]
    <3>1. a \in [servers : Servers, ui : UI] /\ a.servers = t /\ a.ui = v
      BY <2>2, <2>3
    <3>2. \A k \in Index : /\ t[k].adr = s[k].adr /\ t[k].ping = s[k].ping /\ t[k].info = s[k].info
                           /\ t[k].visible => s[k].visible
      BY <1>2, <2>2
    <3> HIDE DEF a
    <3>3. a \in Shows(s, u)
      BY <2>3, <2>5, <2>6, <2>7, <2>9, <3>1, <3>2 DEF Shows
    <3> QED  BY <3>3 DEF a
  <2> QED  BY <2>1, <2>2, <2>8
<1>5. CASE ~(b.servers[i].visible /\ b.servers[i].ping > 0)
  <2>1. next = b
    BY <1>5 DEF Display
  <2>2. b.servers[i].visible => s[i].ping <= 0
    BY <1>2, <1>3, <1>5
  <2> QED  BY <2>1, <2>2
<1> QED  BY <1>4, <1>5

(* The loop shows every visible server that has a ping.                    *)
LEMMA DisplayLoop ==
  ASSUME NEW s \in Servers, NEW u \in UI, Filled(u), Hidden(s, u.shown),
         NEW n \in 0 .. MAX_GLOBAL_SERVERS
  PROVE  LET b == Loop(Display, [servers |-> s, ui |-> u], n)
         IN  /\ b \in Shows(s, u)
             /\ \A k \in 1 .. n : b.servers[k].visible => s[k].ping <= 0
<1> DEFINE start == [servers |-> s, ui |-> u]
<1>1. n \in Nat /\ 1 .. n \subseteq Index
  BY BrowserAssumption DEF Index
<1>2. start \in Shows(s, u)
  BY DEF Shows, SameBrowser
<1> HIDE DEF start
<1>3. \A i \in 1 .. n, b \in Shows(s, u) : Display(b, i) \in Shows(s, u)
  BY <1>1, DisplayIs
<1>4. PICK g \in DisplayRun(Shows(s, u), start, n) : TRUE
  BY <1>1, <1>2, <1>3, DisplayRuns
<1>5. g \in [0 .. n -> Shows(s, u)]
  BY <1>4 DEF DisplayRun
<1>6. /\ \A i \in 1 .. n : g[i] = Display(g[i - 1], i)
      /\ Loop(Display, start, n) = g[n]
  BY <1>4 DEF DisplayRun
<1> DEFINE S == {i \in 0 .. n : \A k \in 1 .. i : g[i].servers[k].visible => s[k].ping <= 0}
<1>7. 0 \in S
  BY <1>1
<1>8. ASSUME NEW i \in 0 .. n - 1, i \in S PROVE i + 1 \in S
  <2>1. i + 1 \in 1 .. n /\ (i + 1) - 1 = i /\ i \in 0 .. n /\ i + 1 \in Index
    BY <1>1
  <2>2. g[i] \in Shows(s, u) /\ g[i + 1] = Display(g[i], i + 1)
    BY <1>5, <1>6, <2>1
  <2>3. /\ \A k \in Index : g[i + 1].servers[k].visible => g[i].servers[k].visible
        /\ g[i + 1].servers[i + 1].visible => s[i + 1].ping <= 0
    BY <2>1, <2>2, DisplayIs
  <2>4. \A k \in 1 .. i + 1 : g[i + 1].servers[k].visible => s[k].ping <= 0
    <3>1. \A k \in 1 .. i + 1 : k = i + 1 \/ (k \in 1 .. i /\ k \in Index)
      BY <1>1, <2>1
    <3> QED  BY <1>8, <2>3, <3>1
  <2> QED  BY <2>1, <2>4
<1>9. n \in S
  <2>1. 0 .. n \subseteq S
    <3> HIDE DEF S
    <3> QED  BY <1>1, <1>7, <1>8, BoundedInduction
  <2> QED  BY <1>1, <2>1
<1>10. g[n] \in Shows(s, u)
  BY <1>1, <1>5
<1> QED  BY <1>6, <1>9, <1>10 DEF start

(* What the display of a list c and a browser u may become.                *)
Built(c, u, force) ==
  {b \in [servers : Servers, ui : UI] :
     /\ Hidden(b.servers, b.ui.shown)
     /\ \A i \in Index : /\ b.servers[i].adr = c.globalServers[i].adr
                         /\ b.servers[i].ping = c.globalServers[i].ping
                         /\ b.servers[i].info = c.globalServers[i].info
     /\ SameBrowser(u, b.ui)
     /\ Filled(b.ui)
     /\ \A i \in ToSet(b.ui.shown) : i \in ToSet(u.shown) \/ c.globalServers[i].ping > 0
     /\ force = 1 \/ Ordered(c.globalServers, u) => Ordered(b.servers, b.ui)
     /\ force = 2 /\ c.numglobalservers # -1 =>
          \A i \in Index : i <= c.numglobalservers /\ b.servers[i].visible =>
            c.globalServers[i].visible /\ c.globalServers[i].ping <= 0}

(* UI_BuildServerDisplayList keeps the list and the order of its rows.     *)
LEMMA BuildIs ==
  ASSUME NEW c \in Cls, NEW u \in UI, Filled(u), NEW force \in 0 .. 2,
         Hidden(c.globalServers, u.shown)
  PROVE  UI_BuildServerDisplayList(c, u, force) \in Built(c, u, force)
<1> DEFINE s == IF force = 1 THEN LAN_MarkServersVisible(c.globalServers) ELSE c.globalServers
           v == IF force = 1 THEN NoRows(u) ELSE u
           cleared == [servers |-> s, ui |-> v]
           filled == Loop(Display, cleared, c.numglobalservers)
           built == UI_BuildServerDisplayList(c, u, force)
<1>1. /\ c.globalServers \in Servers
      /\ c.numglobalservers \in -1 .. MAX_GLOBAL_SERVERS
  BY DEF Cls
<1>2. /\ s \in Servers
      /\ \A i \in Index : /\ s[i].adr = c.globalServers[i].adr /\ s[i].ping = c.globalServers[i].ping
                          /\ s[i].info = c.globalServers[i].info
      /\ force # 1 => s = c.globalServers
  <2>1. CASE force = 1
    <3>1. s = [i \in Index |-> [c.globalServers[i] EXCEPT !.visible = TRUE]]
      BY <2>1 DEF LAN_MarkServersVisible
    <3>2. ASSUME NEW i \in Index
          PROVE  /\ s[i] \in ServerInfo
                 /\ s[i].adr = c.globalServers[i].adr /\ s[i].ping = c.globalServers[i].ping
                 /\ s[i].info = c.globalServers[i].info
      <4>1. c.globalServers[i] \in ServerInfo
        BY <1>1 DEF Servers
      <4>2. s[i] = [c.globalServers[i] EXCEPT !.visible = TRUE]
        BY <3>1
      <4> QED  BY <4>1, <4>2 DEF ServerInfo
    <3> QED  BY <2>1, <3>1, <3>2 DEF Servers
  <2>2. CASE force # 1
    BY <1>1, <2>2
  <2> QED  BY <2>1, <2>2
<1>3. /\ v \in UI /\ Filled(v) /\ SameBrowser(u, v)
      /\ force = 1 => v.shown = <<>>
      /\ force # 1 => v = u
  <2>1. SameBrowser(u, u)
    BY DEF SameBrowser
  <2> QED  BY <2>1, NoRowsIs
<1>9. ToSet(v.shown) \subseteq ToSet(u.shown)
  BY <1>3 DEF ToSet
<1> HIDE DEF s, v
<1>4. Hidden(s, v.shown)
  BY <1>2, <1>3 DEF Hidden, IsInjective
<1>5. force = 1 \/ Ordered(c.globalServers, u) => Ordered(s, v)
  <2>1. v.shown = <<>> => Ordered(s, v)
    BY DEF Ordered
  <2> QED  BY <1>2, <1>3, <2>1
<1>6. CASE force = 0 /\ ~u.displayDue
  <2>1. built = [servers |-> c.globalServers, ui |-> u]
    BY <1>6 DEF UI_BuildServerDisplayList
  <2> QED  BY <1>1, <1>6, <2>1 DEF Built, SameBrowser
<1>7. CASE ~(force = 0 /\ ~u.displayDue) /\ c.numglobalservers = -1
  <2>1. built = [cleared EXCEPT !.ui = [NoRows(cleared.ui) EXCEPT !.displayDue = FALSE]]
    BY <1>7 DEF UI_BuildServerDisplayList, s, v
  <2> DEFINE w == [NoRows(v) EXCEPT !.displayDue = FALSE]
  <2>2. built = [servers |-> s, ui |-> w]
    BY <2>1
  <2>3. w \in UI /\ w.shown = <<>> /\ Filled(w) /\ SameBrowser(u, w)
    <3> DEFINE x == NoRows(v)
    <3>1. x \in UI /\ Filled(x) /\ x.shown = <<>> /\ SameBrowser(v, x)
      BY <1>3, NoRowsIs
    <3>2. w = [x EXCEPT !.displayDue = FALSE]
      OBVIOUS
    <3> HIDE DEF x, w
    <3> QED  BY <1>3, <3>1, <3>2 DEF UI, Filled, SameBrowser
  <2> HIDE DEF w, built
  <2>4. Hidden(s, w.shown) /\ Ordered(s, w)
    BY <2>3 DEF Hidden, IsInjective, Ordered
  <2>5. built \in [servers : Servers, ui : UI] /\ built.servers = s /\ built.ui = w
    BY <1>2, <2>2, <2>3
  <2>6. built \in Built(c, u, force)
    BY <1>2, <1>7, <2>3, <2>4, <2>5 DEF Built, ToSet
  <2> QED  BY <2>6 DEF built
<1>8. CASE ~(force = 0 /\ ~u.displayDue) /\ c.numglobalservers # -1
  <2>1. built = [filled EXCEPT !.ui.refreshDue = TRUE]
    BY <1>8 DEF UI_BuildServerDisplayList, s, v
  <2>2. c.numglobalservers \in 0 .. MAX_GLOBAL_SERVERS
    BY <1>1, <1>8, BrowserAssumption
  <2>3. filled \in Shows(s, v) /\ \A k \in 1 .. c.numglobalservers : filled.servers[k].visible => s[k].ping <= 0
    BY <1>2, <1>3, <1>4, <2>2, DisplayLoop
  <2> HIDE DEF filled
  <2>4. /\ filled \in [servers : Servers, ui : UI]
        /\ Hidden(filled.servers, filled.ui.shown)
        /\ SameBrowser(v, filled.ui) /\ Filled(filled.ui)
        /\ \A i \in ToSet(filled.ui.shown) : i \in ToSet(v.shown) \/ s[i].ping > 0
        /\ Ordered(s, v) => Ordered(filled.servers, filled.ui)
    BY <2>3 DEF Shows
  <2>5. \A i \in Index : /\ filled.servers[i].adr = s[i].adr /\ filled.servers[i].ping = s[i].ping
                         /\ filled.servers[i].info = s[i].info
                         /\ filled.servers[i].visible => s[i].visible
    BY <2>3 DEF Shows
  <2> DEFINE w == [filled.ui EXCEPT !.refreshDue = TRUE]
  <2>6. built = [servers |-> filled.servers, ui |-> w]
    BY <2>1, <2>4
  <2>7. w \in UI /\ w.shown = filled.ui.shown /\ w.sortKey = filled.ui.sortKey /\ w.sortDir = filled.ui.sortDir
        /\ SameBrowser(u, w) /\ Filled(w)
    BY <1>3, <2>4 DEF UI, SameBrowser, Filled
  <2> HIDE DEF w, built
  <2>8. Ordered(filled.servers, filled.ui) => Ordered(filled.servers, w)
    BY <2>7, <2>4 DEF Ordered
  <2>9. built \in [servers : Servers, ui : UI] /\ built.servers = filled.servers /\ built.ui = w
    BY <2>4, <2>6, <2>7
  <2>10. Hidden(built.servers, built.ui.shown)
    BY <2>4, <2>7, <2>9
  <2>11. \A i \in Index : /\ built.servers[i].adr = c.globalServers[i].adr
                          /\ built.servers[i].ping = c.globalServers[i].ping
                          /\ built.servers[i].info = c.globalServers[i].info
    BY <1>2, <2>5, <2>9
  <2>12. SameBrowser(u, built.ui) /\ Filled(built.ui)
    BY <2>7, <2>9
  <2>13. force = 1 \/ Ordered(c.globalServers, u) => Ordered(built.servers, built.ui)
    BY <1>5, <2>4, <2>8, <2>9
  <2>14. ASSUME force = 2, NEW i \in Index, i <= c.numglobalservers, built.servers[i].visible
         PROVE  c.globalServers[i].visible /\ c.globalServers[i].ping <= 0
    <3>1. i \in 1 .. c.numglobalservers
      BY <2>2, <2>14 DEF Index
    <3>2. s[i].visible /\ s[i].ping <= 0 /\ s = c.globalServers
      BY <1>2, <2>3, <2>5, <2>9, <2>14, <3>1
    <3> QED  BY <3>2
  <2>16. \A i \in ToSet(built.ui.shown) : i \in ToSet(u.shown) \/ c.globalServers[i].ping > 0
    <3>1. \A i \in ToSet(built.ui.shown) : i \in Index
      BY <2>7, <2>9 DEF UI, ToSet
    <3> QED  BY <1>2, <1>9, <2>4, <2>7, <2>9, <3>1
  <2>15. built \in Built(c, u, force)
    BY <2>9, <2>10, <2>11, <2>12, <2>13, <2>14, <2>16 DEF Built
  <2> QED  BY <2>15 DEF built
<1> QED  BY <1>6, <1>7, <1>8

-----------------------------------------------------------------------------
(* The answer of the master                                                *)

(* An answer under way holds packets.                                      *)
Answers == [sent : Seq(Packet), packet : Packet]

(* Space for an entry is made in a new packet.                             *)
LEMMA MakeSpaceIs ==
  ASSUME NEW answer \in Answers
  PROVE  MakeSpace(answer) \in Answers
<1>1. <<>> \in Seq(Server)
  OBVIOUS
<1>2. Append(answer.sent, answer.packet) \in Seq(Packet)
  BY DEF Answers
<1>3. Empty \in Packet
  BY <1>1 DEF Empty, Packet
<1> QED  BY <1>2, <1>3 DEF MakeSpace, Answers

(* An entry is added to the packet.                                        *)
LEMMA AddEntryIs ==
  ASSUME NEW answer \in Answers, NEW sv \in Server
  PROVE  AddEntry(answer, sv) \in Answers
<1> DEFINE spaced == MakeSpace(answer)
<1>1. spaced \in Answers
  BY MakeSpaceIs
<1> HIDE DEF spaced
<1>2. spaced.packet \in Packet
  BY <1>1 DEF Answers
<1> DEFINE packet == [spaced.packet EXCEPT !.servers = Append(@, sv)]
<1>3. packet \in Packet
  <2>1. Append(spaced.packet.servers, sv) \in Seq(Server)
    BY <1>2 DEF Packet
  <2> QED  BY <1>2, <2>1 DEF Packet
<1>4. AddEntry(answer, sv) = [spaced EXCEPT !.packet = packet]
  BY DEF AddEntry, spaced
<1> HIDE DEF packet
<1> QED  BY <1>1, <1>3, <1>4 DEF Answers, spaced

(* The answer is a sequence of packets.                                    *)
LEMMA PacketsAre ==
  ASSUME NEW entries \in Seq(Server)
  PROVE  Packets(entries) \in Seq(Packet)
<1> DEFINE n == Len(entries)
<1>1. n \in Nat
  OBVIOUS
<1>2. [sent |-> <<>>, packet |-> Empty] \in Answers
  <2>1. <<>> \in Seq(Server) /\ <<>> \in Seq(Packet)
    OBVIOUS
  <2> QED  BY <2>1 DEF Answers, Empty, Packet
<1>3. \A i \in 1 .. n, v \in Answers : AddEntry(v, entries[i]) \in Answers
  <2>1. \A i \in 1 .. n : entries[i] \in Server
    OBVIOUS
  <2> QED  BY <2>1, AddEntryIs
<1>4. PICK g \in FillingRun(entries, Answers) : TRUE
  BY <1>1, <1>2, <1>3, FillingRuns
<1> DEFINE filled == MakeSpace(g[n])
<1>5. g[n] \in Answers /\ Packets(entries) = Append(filled.sent, [filled.packet EXCEPT !.end = TRUE])
  BY <1>1, <1>4 DEF FillingRun
<1>6. filled \in Answers
  BY <1>5, MakeSpaceIs
<1> HIDE DEF filled
<1>7. [filled.packet EXCEPT !.end = TRUE] \in Packet /\ filled.sent \in Seq(Packet)
  BY <1>6 DEF Answers, Packet
<1> QED  BY <1>5, <1>7

(* An answer under way whose packets name different servers, all of E.     *)
Parts(answer, E) ==
  /\ IsInjective(answer.packet.servers) /\ ToSet(answer.packet.servers) \subseteq E
  /\ \A m \in 1 .. Len(answer.sent) :
       /\ IsInjective(answer.sent[m].servers) /\ ToSet(answer.sent[m].servers) \subseteq E
       /\ ToSet(answer.sent[m].servers) \cap ToSet(answer.packet.servers) = {}
  /\ \A m, n \in 1 .. Len(answer.sent) :
       m # n => ToSet(answer.sent[m].servers) \cap ToSet(answer.sent[n].servers) = {}

(* An empty packet names no server.                                        *)
LEMMA MakeSpaceParts ==
  ASSUME NEW answer \in Answers, NEW E, Parts(answer, E)
  PROVE  Parts(MakeSpace(answer), E)
<1> DEFINE more == Append(answer.sent, answer.packet)
           next == [sent |-> more, packet |-> Empty]
<1>1. answer.sent \in Seq(Packet) /\ answer.packet \in Packet /\ Len(answer.sent) \in Nat
  BY DEF Answers
<1>2. /\ Len(more) = Len(answer.sent) + 1
      /\ \A m \in 1 .. Len(answer.sent) : more[m] = answer.sent[m]
      /\ more[Len(answer.sent) + 1] = answer.packet
  BY <1>1, AppendProperties
<1> HIDE DEF more
<1>3. \A m \in 1 .. Len(more) : m \in 1 .. Len(answer.sent) \/ m = Len(answer.sent) + 1
  BY <1>1, <1>2
<1>4. IsInjective(Empty.servers) /\ ToSet(Empty.servers) = {}
  BY DEF Empty, IsInjective, ToSet
<1>5. \A m \in 1 .. Len(more) : IsInjective(more[m].servers) /\ ToSet(more[m].servers) \subseteq E
  BY <1>2, <1>3 DEF Parts
<1>6. \A m, n \in 1 .. Len(more) : m # n => ToSet(more[m].servers) \cap ToSet(more[n].servers) = {}
  <2>1. ASSUME NEW m \in 1 .. Len(more), NEW n \in 1 .. Len(more), m # n
        PROVE  ToSet(more[m].servers) \cap ToSet(more[n].servers) = {}
    <3>1. CASE m \in 1 .. Len(answer.sent) /\ n \in 1 .. Len(answer.sent)
      BY <1>2, <2>1, <3>1 DEF Parts
    <3>2. CASE m \in 1 .. Len(answer.sent) /\ n = Len(answer.sent) + 1
      BY <1>2, <3>2 DEF Parts
    <3>3. CASE m = Len(answer.sent) + 1 /\ n \in 1 .. Len(answer.sent)
      BY <1>2, <3>3 DEF Parts
    <3> QED  BY <1>3, <2>1, <3>1, <3>2, <3>3
  <2> QED  BY <2>1
<1>7. next.sent = more /\ next.packet = Empty
  OBVIOUS
<1>8. Parts(next, E)
  <2> HIDE DEF next
  <2> QED  BY <1>4, <1>5, <1>6, <1>7 DEF Parts
<1>9. MakeSpace(answer) = IF HasRoom(answer.packet) THEN answer ELSE next
  BY DEF MakeSpace, more
<1> QED  BY <1>8, <1>9

(* A new server is added to one packet.                                    *)
LEMMA AddEntryParts ==
  ASSUME NEW answer \in Answers, NEW E, Parts(answer, E), NEW sv \in Server, sv \notin E
  PROVE  Parts(AddEntry(answer, sv), E \cup {sv})
<1> DEFINE spaced == MakeSpace(answer)
           servers == spaced.packet.servers
           more == Append(servers, sv)
           next == AddEntry(answer, sv)
<1>1. spaced \in Answers /\ Parts(spaced, E)
  BY MakeSpaceIs, MakeSpaceParts
<1> HIDE DEF spaced
<1>2. servers \in Seq(Server) /\ Len(servers) \in Nat /\ DOMAIN servers = 1 .. Len(servers)
  BY <1>1 DEF Answers, Packet
<1>3. /\ more \in Seq(Server) /\ Len(more) = Len(servers) + 1
      /\ \A m \in 1 .. Len(servers) : more[m] = servers[m]
      /\ more[Len(servers) + 1] = sv
  BY <1>2, AppendProperties
<1>4. next.sent = spaced.sent /\ next.packet.servers = more
  <2>1. next = [spaced EXCEPT !.packet = [spaced.packet EXCEPT !.servers = more]]
    BY DEF AddEntry, spaced
  <2> HIDE DEF next, more
  <2> QED  BY <1>1, <2>1 DEF Answers, Packet
<1>5. /\ IsInjective(servers) /\ ToSet(servers) \subseteq E
      /\ \A m \in 1 .. Len(spaced.sent) :
           /\ IsInjective(spaced.sent[m].servers) /\ ToSet(spaced.sent[m].servers) \subseteq E
           /\ ToSet(spaced.sent[m].servers) \cap ToSet(servers) = {}
      /\ \A m, n \in 1 .. Len(spaced.sent) :
           m # n => ToSet(spaced.sent[m].servers) \cap ToSet(spaced.sent[n].servers) = {}
  BY <1>1 DEF Parts
<1> HIDE DEF servers, more, next
<1>6. DOMAIN more = 1 .. Len(servers) + 1
      /\ \A m \in DOMAIN more : m \in 1 .. Len(servers) \/ m = Len(servers) + 1
  BY <1>2, <1>3
<1>7. \A m \in 1 .. Len(servers) : servers[m] # sv
  BY <1>2, <1>5 DEF ToSet
<1>8. IsInjective(more)
  BY <1>2, <1>3, <1>5, <1>6, <1>7 DEF IsInjective
<1>9. ToSet(more) \subseteq ToSet(servers) \cup {sv}
  BY <1>2, <1>3, <1>6 DEF ToSet
<1>10. \A m \in 1 .. Len(spaced.sent) : ToSet(spaced.sent[m].servers) \cap ToSet(more) = {}
  BY <1>5, <1>9
<1> QED  BY <1>4, <1>5, <1>8, <1>9, <1>10 DEF Parts, next

(* The packets of an answer name different servers.                        *)
LEMMA PacketsApart ==
  ASSUME NEW entries \in Seq(Server), IsInjective(entries)
  PROVE  /\ \A p \in ToSet(Packets(entries)) : IsInjective(p.servers)
         /\ \A p, q \in ToSet(Packets(entries)) : p # q => ToSet(p.servers) \cap ToSet(q.servers) = {}
<1> DEFINE n == Len(entries)
           start == [sent |-> <<>>, packet |-> Empty]
           Entries(i) == {entries[k] : k \in 1 .. i}
<1>1. n \in Nat /\ DOMAIN entries = 1 .. n /\ \A i \in 1 .. n : entries[i] \in Server
  OBVIOUS
<1>2. start \in Answers
  <2>1. <<>> \in Seq(Server) /\ <<>> \in Seq(Packet)
    OBVIOUS
  <2> QED  BY <2>1 DEF Answers, Empty, Packet
<1>3. \A i \in 1 .. n, v \in Answers : AddEntry(v, entries[i]) \in Answers
  BY <1>1, AddEntryIs
<1>4. PICK g \in FillingRun(entries, Answers) : TRUE
  BY <1>1, <1>2, <1>3, FillingRuns
<1> DEFINE filled == MakeSpace(g[n])
<1>5. /\ g \in [0 .. n -> Answers] /\ g[0] = start
      /\ \A i \in 1 .. n : g[i] = AddEntry(g[i - 1], entries[i])
      /\ Packets(entries) = Append(filled.sent, [filled.packet EXCEPT !.end = TRUE])
  BY <1>4 DEF FillingRun
<1> HIDE DEF filled
<1> DEFINE S == {i \in 0 .. n : Parts(g[i], Entries(i))}
<1>6. 0 \in S
  <2>1. start.sent = <<>> /\ start.packet.servers = <<>> /\ Len(<<>>) = 0
    BY DEF Empty
  <2>2. Parts(start, Entries(0))
    <3> HIDE DEF start, Entries
    <3> QED  BY <2>1 DEF Parts, IsInjective, ToSet
  <2> QED  BY <1>1, <1>5, <2>2
<1>7. ASSUME NEW i \in 0 .. n - 1, i \in S PROVE i + 1 \in S
  <2>1. i + 1 \in 1 .. n /\ (i + 1) - 1 = i /\ i \in 0 .. n /\ i + 1 \in 0 .. n
    BY <1>1
  <2>2. entries[i + 1] \notin Entries(i)
    <3>1. \A k \in 1 .. i : k \in 1 .. n /\ k # i + 1
      BY <1>1
    <3> QED  BY <1>1, <2>1, <3>1 DEF IsInjective
  <2>3. Entries(i + 1) = Entries(i) \cup {entries[i + 1]}
    <3>1. \A k \in 1 .. i + 1 : k \in 1 .. i \/ k = i + 1
      BY <1>1
    <3>2. \A k \in 1 .. i : k \in 1 .. i + 1
      BY <1>1
    <3>3. i + 1 \in 1 .. i + 1
      BY <1>1
    <3> QED  BY <3>1, <3>2, <3>3
  <2>4. g[i] \in Answers /\ Parts(g[i], Entries(i)) /\ entries[i + 1] \in Server
    BY <1>1, <1>5, <1>7, <2>1
  <2>5. g[i + 1] = AddEntry(g[i], entries[i + 1])
    BY <1>5, <2>1
  <2> HIDE DEF Entries
  <2>6. Parts(g[i + 1], Entries(i) \cup {entries[i + 1]})
    BY <2>2, <2>4, <2>5, AddEntryParts
  <2> QED  BY <2>1, <2>3, <2>6
<1>8. n \in S
  <2>1. 0 .. n \subseteq S
    <3> HIDE DEF S
    <3> QED  BY <1>1, <1>6, <1>7, BoundedInduction
  <2> HIDE DEF S, n
  <2>2. n \in 0 .. n
    BY <1>1
  <2> QED  BY <2>1, <2>2
<1>9. filled \in Answers /\ Parts(filled, Entries(n))
  <2> HIDE DEF Entries
  <2>1. g[n] \in Answers /\ Parts(g[n], Entries(n))
    BY <1>1, <1>5, <1>8
  <2> QED  BY <2>1, MakeSpaceIs, MakeSpaceParts DEF filled
<1> HIDE DEF Entries
<1> DEFINE last == [filled.packet EXCEPT !.end = TRUE]
           all == Append(filled.sent, last)
<1>10. last \in Packet /\ last.servers = filled.packet.servers
  BY <1>9 DEF Answers, Packet
<1> HIDE DEF last
<1>11. filled.sent \in Seq(Packet) /\ Len(filled.sent) \in Nat
  BY <1>9 DEF Answers
<1>12. /\ all \in Seq(Packet) /\ Len(all) = Len(filled.sent) + 1
       /\ \A m \in 1 .. Len(filled.sent) : all[m] = filled.sent[m]
       /\ all[Len(filled.sent) + 1] = last
  BY <1>10, <1>11, AppendProperties
<1> HIDE DEF all
<1>13. ASSUME NEW p \in ToSet(all)
       PROVE  p = last \/ \E m \in 1 .. Len(filled.sent) : p = filled.sent[m]
  <2>1. PICK m \in 1 .. Len(all) : p = all[m]
    BY <1>12 DEF ToSet
  <2>2. m \in 1 .. Len(filled.sent) \/ m = Len(filled.sent) + 1
    BY <1>11, <1>12
  <2> QED  BY <1>12, <2>1, <2>2
<1>14. Packets(entries) = all
  BY <1>5 DEF all, last
<1>15. /\ IsInjective(last.servers)
       /\ \A m \in 1 .. Len(filled.sent) :
            /\ IsInjective(filled.sent[m].servers)
            /\ ToSet(filled.sent[m].servers) \cap ToSet(last.servers) = {}
       /\ \A m, k \in 1 .. Len(filled.sent) :
            m # k => ToSet(filled.sent[m].servers) \cap ToSet(filled.sent[k].servers) = {}
  BY <1>9, <1>10 DEF Parts
<1>16. \A p \in ToSet(all) : IsInjective(p.servers)
  BY <1>13, <1>15
<1>17. ASSUME NEW p \in ToSet(all), NEW q \in ToSet(all), p # q
       PROVE  ToSet(p.servers) \cap ToSet(q.servers) = {}
  BY <1>13, <1>15, <1>17
<1> QED  BY <1>14, <1>16, <1>17

(* A sequence without its last entry.                                      *)
LEMMA FrontIs ==
  ASSUME NEW X, NEW s \in Seq(X), Len(s) > 0
  PROVE  /\ Front(s) \in Seq(X) /\ Len(Front(s)) = Len(s) - 1
         /\ \A m \in 1 .. Len(Front(s)) : Front(s)[m] = s[m]
         /\ Last(s) \in X /\ Last(s) = s[Len(s)]
<1> DEFINE n == Len(s)
           t == SubSeq(s, 1, n - 1)
<1>1. n \in Nat /\ n > 0 /\ \A m \in 1 .. n : s[m] \in X
  OBVIOUS
<1>2. Front(s) = t /\ Last(s) = s[n]
  BY DEF Front, Last
<1> HIDE DEF n
<1>3. n - 1 \in Nat /\ n \in 1 .. n /\ \A m \in 1 .. n - 1 : m \in 1 .. n
  BY <1>1
<1>4. \A m \in 1 .. n - 1 : s[m] \in X
  BY <1>1, <1>3
<1> DEFINE r == n - 1
<1>5. r \in Nat /\ t = SubSeq(s, 1, r) /\ \A m \in 1 .. r : s[m] \in X
  BY <1>3, <1>4
<1> HIDE DEF r, t
<1>6. /\ t \in Seq(X)
      /\ Len(t) = IF 1 <= r THEN r - 1 + 1 ELSE 0
      /\ \A m \in 1 .. r - 1 + 1 : t[m] = s[1 + m - 1]
  BY <1>5, SubSeqProperties
<1> DEFINE L == Len(t)
<1>7. L = IF 1 <= r THEN r - 1 + 1 ELSE 0
  BY <1>6
<1> HIDE DEF L
<1>8. L = r
  BY <1>5, <1>7
<1>9. ASSUME NEW m \in 1 .. r PROVE t[m] = s[m]
  <2>1. m \in 1 .. r - 1 + 1 /\ 1 + m - 1 = m
    BY <1>5
  <2> QED  BY <1>6, <2>1
<1> QED  BY <1>1, <1>2, <1>3, <1>6, <1>8, <1>9 DEF L, r, n

(* The client reads servers from a packet, the first ones.                 *)
LEMMA ParsedIs ==
  ASSUME NEW p \in Packet
  PROVE  /\ Parsed(p) \in Seq(Server) /\ Len(Parsed(p)) <= Len(p.servers)
         /\ \A m \in 1 .. Len(Parsed(p)) : Parsed(p)[m] = p.servers[m]
<1> DEFINE s == p.servers
<1>1. s \in Seq(Server) /\ Len(s) \in Nat
  BY DEF Packet
<1>2. CASE p.end \/ s = <<>>
  <2>1. Parsed(p) = s
    BY <1>2 DEF Parsed
  <2>2. s \in Seq(Server) /\ Len(s) <= Len(s) /\ \A m \in 1 .. Len(s) : s[m] = s[m]
    <3> HIDE DEF s
    <3> QED  BY <1>1
  <2> QED  BY <2>1, <2>2
<1>3. CASE ~(p.end \/ s = <<>>)
  <2>1. Parsed(p) = Front(s)
    BY <1>3 DEF Parsed
  <2>2. Len(s) > 0
    BY <1>1, <1>3
  <2>3. /\ Front(s) \in Seq(Server) /\ Len(Front(s)) = Len(s) - 1
        /\ \A m \in 1 .. Len(Front(s)) : Front(s)[m] = s[m]
    <3> HIDE DEF s
    <3> QED  BY <1>1, <2>2, FrontIs
  <2> DEFINE L == Len(Front(s))
             n == Len(s)
  <2>4. n \in Nat /\ L = n - 1
    BY <1>1, <2>3
  <2>5. L <= n
    <3> HIDE DEF L, n
    <3> QED  BY <2>4
  <2> QED  BY <2>1, <2>3, <2>5
<1> QED  BY <1>2, <1>3

-----------------------------------------------------------------------------
(* The addresses of the list                                               *)

(* Pings, infos and flags are not addresses.                               *)
LEMMA SameAddresses ==
  ASSUME NEW c \in Cls, NEW d \in Cls, d.numglobalservers = c.numglobalservers,
         d.requests = c.requests, d.additional = c.additional,
         \A i \in Index : d.globalServers[i].adr = c.globalServers[i].adr
  PROVE  SameList(c, d)
<1>1. Known(d) = Known(c)
  BY DEF Known
<1>2. Different(c) => Different(d)
  BY DEF Different
<1> QED  BY <1>1, <1>2 DEF SameList

(* What holds after two changes of the list.                               *)
LEMMA SameListTwice ==
  ASSUME NEW c, NEW d, NEW e, SameList(c, d), SameList(d, e)
  PROVE  SameList(c, e)
BY DEF SameList

(* The last additional server takes the place of a server of the list.     *)
LEMMA MoveIs ==
  ASSUME NEW c \in Cls, NEW d \in Cls, d.numglobalservers = c.numglobalservers,
         d.requests = c.requests, NEW i \in Index, i <= c.numglobalservers,
         Len(c.additional) > 0, Len(d.additional) = Len(c.additional) - 1,
         d.globalServers[i].adr = c.additional[Len(c.additional)],
         \A k \in Index : k # i => d.globalServers[k].adr = c.globalServers[k].adr,
         \A k \in 1 .. Len(d.additional) : d.additional[k] = c.additional[k]
  PROVE  SameList(c, d)
<1> DEFINE n == Len(c.additional)
<1>1. /\ n \in Nat /\ n > 0 /\ Len(d.additional) = n - 1
      /\ DOMAIN c.additional = 1 .. n /\ DOMAIN d.additional = 1 .. Len(d.additional)
  BY DEF Cls
<1>2. d.globalServers[i].adr = c.additional[n]
  OBVIOUS
<1> HIDE DEF n
<1>3. DOMAIN d.additional = 1 .. n - 1 /\ n \in 1 .. n /\ \A k \in 1 .. n - 1 : k \in 1 .. n /\ k # n
  BY <1>1
<1>4. \A k \in 1 .. n - 1 : d.additional[k] = c.additional[k]
  BY <1>1, <1>3
<1>5. c.numglobalservers # -1
  BY DEF Index
<1>6. Known(d) \subseteq Known(c)
  BY <1>1, <1>2, <1>3, <1>4, <1>5 DEF Known, ToSet
<1>7. ASSUME Different(c) PROVE Different(d)
  <2>1. /\ \A k, l \in Index :
             /\ k <= c.numglobalservers /\ l <= c.numglobalservers /\ k # l
             /\ c.globalServers[k].adr = c.globalServers[l].adr
             => c.globalServers[k].adr = Garbled
        /\ \A k \in Index, l \in 1 .. n :
             k <= c.numglobalservers /\ c.globalServers[k].adr = c.additional[l] => c.additional[l] = Garbled
        /\ \A k, l \in 1 .. n :
             k # l /\ c.additional[k] = c.additional[l] => c.additional[k] = Garbled
    BY <1>1, <1>5, <1>7 DEF Different
  <2>2. \A k, l \in Index :
          /\ k <= c.numglobalservers /\ l <= c.numglobalservers /\ k # l
          /\ d.globalServers[k].adr = d.globalServers[l].adr
          => d.globalServers[k].adr = Garbled
    <3>1. ASSUME NEW k \in Index, NEW l \in Index, k <= c.numglobalservers, l <= c.numglobalservers, k # l,
                 d.globalServers[k].adr = d.globalServers[l].adr
          PROVE  d.globalServers[k].adr = Garbled
      <4>1. CASE k # i /\ l # i
        BY <2>1, <3>1, <4>1
      <4>2. CASE k = i
        <5>1. d.globalServers[l].adr = c.globalServers[l].adr
          BY <3>1, <4>2
        <5> QED  BY <1>2, <1>3, <2>1, <3>1, <4>2, <5>1
      <4>3. CASE l = i
        <5>1. d.globalServers[k].adr = c.globalServers[k].adr
          BY <3>1, <4>3
        <5> QED  BY <1>2, <1>3, <2>1, <3>1, <4>3, <5>1
      <4> QED  BY <4>1, <4>2, <4>3
    <3> QED  BY <3>1
  <2>3. \A k \in Index, l \in 1 .. n - 1 :
          k <= c.numglobalservers /\ d.globalServers[k].adr = d.additional[l] => d.additional[l] = Garbled
    <3>1. ASSUME NEW k \in Index, NEW l \in 1 .. n - 1, k <= c.numglobalservers,
                 d.globalServers[k].adr = d.additional[l]
          PROVE  d.additional[l] = Garbled
      <4>1. l \in 1 .. n /\ l # n /\ d.additional[l] = c.additional[l]
        BY <1>3, <1>4
      <4>2. CASE k # i
        BY <2>1, <3>1, <4>1, <4>2
      <4>3. CASE k = i
        <5>1. c.additional[n] = c.additional[l]
          BY <1>2, <3>1, <4>1, <4>3
        <5> QED  BY <1>3, <2>1, <4>1, <5>1
      <4> QED  BY <4>2, <4>3
    <3> QED  BY <3>1
  <2>4. \A k, l \in 1 .. n - 1 :
          k # l /\ d.additional[k] = d.additional[l] => d.additional[k] = Garbled
    BY <1>3, <1>4, <2>1
  <2> QED  BY <1>3, <2>2, <2>3, <2>4 DEF Different
<1> QED  BY <1>6, <1>7 DEF SameList

(* The list d holds the first old servers of c and then count - old of     *)
(* those named by a packet; the additional servers are some of c, and then *)
(* the others of the packet, behind the first L.                           *)
Grows(c, d, old, count, L, named) ==
  /\ d.numglobalservers = count
  /\ \A i \in Index : i <= old => /\ c.numglobalservers # -1 /\ i <= c.numglobalservers
                                  /\ d.globalServers[i].adr = c.globalServers[i].adr
  /\ \A i \in Index : i \in old + 1 .. count => d.globalServers[i].adr = named[i - old]
  /\ \A k \in DOMAIN d.additional :
       \/ d.additional[k] = Garbled
       \/ /\ c.numglobalservers # -1 /\ k \in DOMAIN c.additional
          /\ d.additional[k] = c.additional[k]
       \/ /\ k - L + (count - old) \in count - old + 1 .. Len(named)
          /\ d.additional[k] = named[k - L + (count - old)]

(* Such a list holds what c held and what the packet named.                *)
LEMMA GrownKnown ==
  ASSUME NEW c \in Cls, NEW d \in Cls, NEW old \in Nat, NEW count \in Nat, NEW L \in Nat,
         NEW named \in Seq(Server), old <= count, count <= old + Len(named),
         Grows(c, d, old, count, L, named)
  PROVE  Known(d) \subseteq Known(c) \cup ToSet(named) \cup {Garbled}
<1>1. Len(named) \in Nat /\ DOMAIN named = 1 .. Len(named)
  OBVIOUS
<1>2. ASSUME NEW i \in Index, i <= count
      PROVE  d.globalServers[i].adr \in Known(c) \cup ToSet(named)
  <2>1. i \in Nat
    BY DEF Index
  <2>2. CASE i <= old
    BY <2>2 DEF Grows, Known
  <2>3. CASE i \in old + 1 .. count
    <3>1. i - old \in 1 .. Len(named)
      BY <1>1, <2>3
    <3> QED  BY <1>1, <2>3, <3>1 DEF Grows, ToSet
  <2> QED  BY <1>2, <2>1, <2>2, <2>3
<1>3. ASSUME NEW k \in DOMAIN d.additional
      PROVE  d.additional[k] \in Known(c) \cup ToSet(named) \cup {Garbled}
  <2>1. CASE d.additional[k] = Garbled
    BY <2>1
  <2>2. CASE c.numglobalservers # -1 /\ k \in DOMAIN c.additional /\ d.additional[k] = c.additional[k]
    BY <2>2 DEF Known, ToSet
  <2>3. CASE /\ k - L + (count - old) \in count - old + 1 .. Len(named)
             /\ d.additional[k] = named[k - L + (count - old)]
    <3> DEFINE m == k - L + (count - old)
    <3>1. m \in count - old + 1 .. Len(named) /\ d.additional[k] = named[m]
      BY <2>3
    <3> HIDE DEF m
    <3>2. m \in 1 .. Len(named)
      BY <1>1, <3>1
    <3> QED  BY <1>1, <3>1, <3>2 DEF ToSet
  <2> QED  BY <2>1, <2>2, <2>3 DEF Grows
<1>4. Known(d) \subseteq {d.globalServers[i].adr : i \in {k \in Index : k <= count}} \cup ToSet(d.additional)
  BY DEF Known, Grows
<1> QED  BY <1>2, <1>3, <1>4 DEF ToSet

(* New and different servers stay different.                               *)
LEMMA GrownDifferent ==
  ASSUME NEW c \in Cls, NEW d \in Cls, NEW old \in Nat, NEW count \in Nat, NEW L \in Nat,
         NEW named \in Seq(Server), old <= count, count <= old + Len(named),
         Grows(c, d, old, count, L, named),
         IsInjective(named), ToSet(named) \cap Known(c) = {}, Different(c)
  PROVE  Different(d)
<1> DEFINE N == Len(named)
           A(i) == d.globalServers[i].adr
           X(k) == d.additional[k]
           Old(i) == i <= old /\ c.numglobalservers # -1 /\ i <= c.numglobalservers /\ A(i) = c.globalServers[i].adr
           New(i) == i - old \in 1 .. count - old /\ A(i) = named[i - old]
           Kept0(k) == c.numglobalservers # -1 /\ k \in DOMAIN c.additional /\ X(k) = c.additional[k]
           M(k) == k - L + (count - old)
           More(k) == M(k) \in count - old + 1 .. N /\ X(k) = named[M(k)]
<1>1. N \in Nat /\ DOMAIN named = 1 .. N /\ count - old \in Nat /\ count - old <= N
  OBVIOUS
<1>2. \A m, n \in 1 .. N : named[m] = named[n] => m = n
  BY <1>1 DEF IsInjective
<1>3. \A m \in 1 .. N : named[m] \notin Known(c)
  BY <1>1 DEF ToSet
<1>4. /\ \A m \in 1 .. count - old : m \in 1 .. N
      /\ \A m \in count - old + 1 .. N : m \in 1 .. N /\ m \notin 1 .. count - old
  BY <1>1
<1>5. ASSUME NEW i \in Index, i <= count PROVE Old(i) \/ New(i)
  <2>1. i \in Nat
    BY DEF Index
  <2>2. CASE i <= old
    BY <2>2 DEF Grows
  <2>3. CASE i \in old + 1 .. count
    <3>1. i - old \in 1 .. count - old
      BY <2>3
    <3> QED  BY <2>3, <3>1 DEF Grows
  <2> QED  BY <1>5, <2>1, <2>2, <2>3
<1>6. \A k \in DOMAIN d.additional : X(k) = Garbled \/ Kept0(k) \/ More(k)
  BY DEF Grows
<1>7. DOMAIN d.additional \subseteq Nat /\ \A i \in Index : i \in Nat
  BY DEF Cls, Index
<1>8. \A i \in Index : Old(i) => A(i) \in Known(c)
  BY DEF Known
<1>9. \A k : Kept0(k) => X(k) \in Known(c)
  BY DEF Known, ToSet
<1>10. \A i, j \in Index : Old(i) /\ Old(j) /\ i # j /\ A(i) = A(j) => A(i) = Garbled
  BY DEF Different
<1>11. \A i \in Index : \A k : Old(i) /\ Kept0(k) /\ A(i) = X(k) => X(k) = Garbled
  BY DEF Different
<1>12. \A k, l : Kept0(k) /\ Kept0(l) /\ k # l /\ X(k) = X(l) => X(k) = Garbled
  BY DEF Different
<1>13. \A i : New(i) => A(i) \notin Known(c)
  BY <1>3, <1>4
<1>14. \A k : More(k) => X(k) \notin Known(c)
  BY <1>3, <1>4
<1>15. \A i, j \in Index : New(i) /\ New(j) /\ A(i) = A(j) => i = j
  <2>1. \A i, j \in Index : New(i) /\ New(j) /\ A(i) = A(j) => i - old = j - old
    BY <1>2, <1>4
  <2>2. \A i, j \in Index : i - old = j - old => i = j
    BY <1>7
  <2> QED  BY <2>1, <2>2
<1>16. \A i, k : New(i) /\ More(k) => A(i) # X(k)
  BY <1>2, <1>4
<1>17. \A k, l \in DOMAIN d.additional : More(k) /\ More(l) /\ X(k) = X(l) => k = l
  <2>1. \A k, l : More(k) /\ More(l) /\ X(k) = X(l) => M(k) = M(l)
    <3> HIDE DEF M
    <3> QED  BY <1>2, <1>4
  <2>2. \A k, l \in DOMAIN d.additional : M(k) = M(l) => k = l
    BY <1>1, <1>7
  <2> QED  BY <2>1, <2>2
<1> HIDE DEF Old, New, Kept0, More
<1>18. \A i, j \in Index : i <= count /\ j <= count /\ i # j /\ A(i) = A(j) => A(i) = Garbled
  BY <1>5, <1>8, <1>10, <1>13, <1>15
<1>19. \A i \in Index, k \in DOMAIN d.additional : i <= count /\ A(i) = X(k) => X(k) = Garbled
  BY <1>5, <1>6, <1>8, <1>9, <1>11, <1>13, <1>14, <1>16
<1>20. \A k, l \in DOMAIN d.additional : k # l /\ X(k) = X(l) => X(k) = Garbled
  BY <1>6, <1>9, <1>12, <1>14, <1>17
<1>21. d.numglobalservers = count
  BY DEF Grows
<1> QED  BY <1>18, <1>19, <1>20, <1>21 DEF Different

(* Such a change leaves the packets under way apart from the list.         *)
LEMMA OneSame ==
  ASSUME NEW c, NEW d, NEW net \in SUBSET (Packet \X Nat), NEW n \in Nat, NEW m \in Nat, n <= m,
         SameList(c, d), OneRequest(c, net, n)
  PROVE  OneRequest(d, net, m)
<1>1. \A p \in net : p[2] \in Nat /\ p[2] < n /\ IsInjective(p[1].servers)
  BY DEF OneRequest
<1>2. \A p \in net : p[2] < m
  BY <1>1
<1>3. d.requests \subseteq 0 .. m - 1
  <2>1. 0 .. n - 1 \subseteq 0 .. m - 1
    OBVIOUS
  <2> QED  BY <2>1 DEF OneRequest, SameList
<1> QED  BY <1>1, <1>2, <1>3 DEF OneRequest, SameList

(* Rows with a ping show no overwritten entry.                             *)
LEMMA RowsStay ==
  ASSUME NEW c \in Cls, NEW d \in Cls, NEW shown \in Seq(Index), NEW rows \in Seq(Index),
         RowsNamed(c, shown), Own(d.globalServers), d.numglobalservers = c.numglobalservers,
         \A i \in ToSet(shown) : d.globalServers[i].adr = c.globalServers[i].adr,
         \A i \in ToSet(rows) : i \in ToSet(shown) \/ d.globalServers[i].ping > 0
  PROVE  RowsNamed(d, rows)
<1> SUFFICES ASSUME NEW m \in DOMAIN rows, rows[m] <= d.numglobalservers
             PROVE  d.globalServers[rows[m]].adr # Garbled
  BY DEF RowsNamed
<1> DEFINE i == rows[m]
<1>1. i \in Index /\ i \in ToSet(rows)
  BY DEF ToSet
<1>2. CASE i \in ToSet(shown)
  <2>1. PICK k \in DOMAIN shown : i = shown[k]
    BY <1>2 DEF ToSet
  <2> QED  BY <1>2, <2>1 DEF RowsNamed
<1>3. CASE d.globalServers[i].ping > 0
  <2>1. d.globalServers[i] \in ServerInfo
    BY <1>1 DEF Cls, Servers
  <2>2. d.globalServers[i].info \in Server \cup {NoServer}
    BY <2>1 DEF ServerInfo
  <2>3. d.globalServers[i].info = d.globalServers[i].adr
    BY <1>1, <1>3 DEF Own
  <2> QED  BY <2>2, <2>3, BrowserAssumption
<1> QED  BY <1>1, <1>2, <1>3

(* The rows of the same servers.                                           *)
LEMMA RowsSame ==
  ASSUME NEW c \in Cls, NEW d \in Cls, NEW shown \in Seq(Index), RowsNamed(c, shown),
         d.numglobalservers = c.numglobalservers,
         \A i \in Index : d.globalServers[i].adr = c.globalServers[i].adr
  PROVE  RowsNamed(d, shown)
BY DEF RowsNamed

-----------------------------------------------------------------------------
(* CL_UpdateVisiblePings_f                                                 *)

(* An update under way.                                                    *)
Update == [cls : Cls, pings : [Slot -> PingRequest], slots : Nat, full : BOOLEAN, status : BOOLEAN]

(* A server is what it was before the update, or it took the place of a    *)
(* lost one.                                                               *)
SameOrNew(c, d, i) ==
  \/ d.globalServers[i] = c.globalServers[i]
  \/ c.globalServers[i].ping = 0 /\ Len(d.additional) < Len(c.additional)

(* No query is under way, and none was sent.                               *)
Quiet(u) == ~u.status /\ u.slots = 0

(* What the first loop may have made of the list c.                        *)
Asking(c) ==
  {u \in Update :
     /\ u.cls.numglobalservers = c.numglobalservers
     /\ \A i \in Index : u.cls.globalServers[i].visible = c.globalServers[i].visible
     /\ \A i \in Index : SameOrNew(c, u.cls, i)
     /\ \A i \in Index : ~c.globalServers[i].visible =>
                           u.cls.globalServers[i].adr = c.globalServers[i].adr
     /\ SameList(c, u.cls)
     /\ Len(u.cls.additional) <= Len(c.additional)
     /\ Own(u.cls.globalServers) /\ OwnAnswers(u.pings) /\ Named(u.cls)
     /\ QueueCount(u.pings) <= u.slots
     /\ u.full => u.slots > 0}

(* A visible server without a ping that was never asked.                   *)
Forgotten(c, u, i) ==
  /\ u.cls.globalServers[i].visible
  /\ u.cls.globalServers[i].ping = -1
  /\ ~(c.globalServers[i].ping = 0 /\ Len(u.cls.additional) < Len(c.additional))

(* The slots whose query is under way are counted.                         *)
LEMMA Queued ==
  ASSUME NEW pings \in [Slot -> PingRequest]
  PROVE  /\ QueueCount(pings) \in Nat
         /\ QueueCount(pings) = 0 <=> \A j \in Slot : pings[j].adr = NoServer
         /\ QueueCount(pings) < MAX_PINGREQUESTS => \E j \in Slot : pings[j].adr = NoServer
<1> DEFINE Busy == {j \in Slot : pings[j].adr # NoServer}
<1>1. IsFiniteSet(Slot) /\ Cardinality(Slot) = MAX_PINGREQUESTS
  BY Interval, BrowserAssumption DEF Slot
<1>2. IsFiniteSet(Busy)
  BY <1>1, FS_Subset
<1>3. Cardinality(Busy) \in Nat /\ (Cardinality(Busy) = 0 <=> Busy = {})
  BY <1>2, FS_CardinalityType, FS_EmptySet
<1>4. Cardinality(Busy) < MAX_PINGREQUESTS => Busy # Slot
  <2> HIDE DEF Busy
  <2> QED  BY <1>1, BrowserAssumption
<1>5. QueueCount(pings) = Cardinality(Busy)
  BY DEF QueueCount
<1> QED  BY <1>3, <1>4, <1>5

(* One more query under way counts once.                                   *)
LEMMA QueuedOneMore ==
  ASSUME NEW pings \in [Slot -> PingRequest], NEW more \in [Slot -> PingRequest], NEW j \in Slot,
         \A k \in Slot : k # j => more[k] = pings[k]
  PROVE  QueueCount(more) <= QueueCount(pings) + 1
<1> DEFINE Busy == {k \in Slot : pings[k].adr # NoServer}
           Then == {k \in Slot : more[k].adr # NoServer}
<1>1. IsFiniteSet(Slot)
  BY Interval, BrowserAssumption DEF Slot
<1>2. IsFiniteSet(Busy) /\ IsFiniteSet(Then)
  BY <1>1, FS_Subset
<1>3. IsFiniteSet(Busy \cup {j}) /\ Cardinality(Busy \cup {j}) <= Cardinality(Busy) + 1
  <2>1. Cardinality(Busy) \in Nat
    BY <1>2, FS_CardinalityType
  <2> HIDE DEF Busy, Then
  <2>2. /\ IsFiniteSet(Busy \cup {j})
        /\ Cardinality(Busy \cup {j}) = IF j \in Busy THEN Cardinality(Busy) ELSE Cardinality(Busy) + 1
    BY <1>2, FS_AddElement
  <2> QED  BY <2>1, <2>2
<1>4. Then \subseteq Busy \cup {j}
  OBVIOUS
<1>5. Cardinality(Then) <= Cardinality(Busy \cup {j})
  BY <1>3, <1>4, FS_Subset
<1>6. Cardinality(Then) \in Nat /\ Cardinality(Busy) \in Nat /\ Cardinality(Busy \cup {j}) \in Nat
  BY <1>2, <1>3, FS_CardinalityType
<1>7. QueueCount(more) = Cardinality(Then) /\ QueueCount(pings) = Cardinality(Busy)
  BY DEF QueueCount
<1> HIDE DEF Busy, Then
<1> QED  BY <1>3, <1>5, <1>6, <1>7

(* The slot the first loop takes is free.                                  *)
FreeOf(pings) ==
  CHOOSE j \in 1 .. MAX_PINGREQUESTS + 1 :
    /\ j \in Slot => pings[j].adr = NoServer
    /\ \A k \in 1 .. j - 1 : pings[k].adr # NoServer

(* With fewer queries than slots the slot is one of the queue.             *)
LEMMA FreeIs ==
  ASSUME NEW pings \in [Slot -> PingRequest], QueueCount(pings) < MAX_PINGREQUESTS
  PROVE  FreeOf(pings) \in Slot /\ pings[FreeOf(pings)].adr = NoServer
<1> DEFINE Free == {j \in Slot : pings[j].adr = NoServer}
<1>1. Free # {} /\ Free \subseteq Nat /\ Slot = 1 .. MAX_PINGREQUESTS /\ MAX_PINGREQUESTS \in Nat
  BY Queued, BrowserAssumption DEF Slot
<1>2. PICK j \in Free : \A k \in Free : j <= k
  BY <1>1, LeastNat
<1>3. \A k \in 1 .. j - 1 : pings[k].adr # NoServer
  BY <1>1, <1>2
<1>4. j \in 1 .. MAX_PINGREQUESTS + 1
  BY <1>1, <1>2
<1> DEFINE free == FreeOf(pings)
<1>5. /\ free \in 1 .. MAX_PINGREQUESTS + 1
      /\ free \in Slot => pings[free].adr = NoServer
      /\ \A k \in 1 .. free - 1 : pings[k].adr # NoServer
  BY <1>2, <1>3, <1>4 DEF FreeOf
<1> HIDE DEF free
<1>6. free \in Slot
  BY <1>1, <1>2, <1>5
<1> QED  BY <1>5, <1>6 DEF free

(* A new query of a server.                                                *)
LEMMA QueryIs ==
  ASSUME NEW a \in Address \cup {NoServer}, NEW slot \in PingRequest
  PROVE  /\ Query(a, slot) \in PingRequest
         /\ Query(a, slot).adr = a /\ Query(a, slot).time = 0
<1>1. 0 \in 0 .. MaxPing
  BY BrowserAssumption
<1> QED  BY <1>1 DEF Query, PingRequest

(* A server in the list is replaced by a new one.                          *)
LEMMA InitInfoIs ==
  ASSUME NEW sv \in ServerInfo, NEW a \in Address
  PROVE  /\ CL_InitServerInfo(sv, a) \in ServerInfo
         /\ CL_InitServerInfo(sv, a).adr = a /\ CL_InitServerInfo(sv, a).ping = -1
         /\ CL_InitServerInfo(sv, a).visible = sv.visible
<1>1. -1 \in -1 .. MaxPing
  BY BrowserAssumption
<1> QED  BY <1>1 DEF CL_InitServerInfo, ServerInfo

(* A turn of the first loop: a query is sent, or a lost server replaced,   *)
(* or the list is left alone.                                              *)
LEMMA AskIs ==
  ASSUME NEW c \in Cls, NEW u \in Asking(c),
         NEW i \in Index, i <= c.numglobalservers
  PROVE  /\ Ask(u, i) \in Asking(c)
         /\ \A k \in Index : Forgotten(c, Ask(u, i), k) /\ k # i => Forgotten(c, u, k)
         /\ Quiet(Ask(u, i)) => Quiet(u) /\ ~Forgotten(c, Ask(u, i), i)
<1> DEFINE sv == u.cls.globalServers[i]
           free == FreeOf(u.pings)
           next == Ask(u, i)
<1>1. /\ u \in Update
      /\ u.cls.numglobalservers = c.numglobalservers
      /\ \A k \in Index : u.cls.globalServers[k].visible = c.globalServers[k].visible
      /\ Len(u.cls.additional) <= Len(c.additional)
      /\ Own(u.cls.globalServers) /\ OwnAnswers(u.pings) /\ Named(u.cls)
      /\ QueueCount(u.pings) <= u.slots
      /\ u.full => u.slots > 0
  BY DEF Asking
<1>2. \A k \in Index : SameOrNew(c, u.cls, k)
  BY DEF Asking
<1>13. /\ SameList(c, u.cls)
       /\ \A k \in Index : ~c.globalServers[k].visible =>
                             u.cls.globalServers[k].adr = c.globalServers[k].adr
  BY DEF Asking
<1>3. /\ u.cls \in Cls /\ u.pings \in [Slot -> PingRequest] /\ u.slots \in Nat
      /\ u.full \in BOOLEAN /\ u.status \in BOOLEAN
  BY <1>1 DEF Update
<1>4. /\ u.cls.globalServers \in Servers /\ u.cls.additional \in Seq(Address)
      /\ \A k \in Index : u.cls.globalServers[k] \in ServerInfo
  BY <1>3 DEF Cls, Servers
<1>5. sv \in ServerInfo
  BY <1>4
<1>6. QueueCount(u.pings) \in Nat
  BY <1>3, Queued
<1>7. sv.adr # NoServer /\ sv.adr \in Address
  BY <1>1, <1>5 DEF Named, ServerInfo
<1>8. next = IF u.full \/ ~sv.visible THEN u
             ELSE IF sv.ping = -1 THEN
               IF u.slots >= MAX_PINGREQUESTS THEN [u EXCEPT !.full = TRUE]
               ELSE IF NotOnTheList(u, sv)
               THEN [u EXCEPT !.pings = [j \in Slot \cup {free} |->
                                            IF j = free THEN Query(sv.adr, u.pings[j]) ELSE u.pings[j]],
                              !.slots = u.slots + 1, !.status = TRUE]
               ELSE u
             ELSE IF Lost(u, sv) /\ u.cls.additional # <<>>
             THEN [u EXCEPT !.cls.globalServers[i] = CL_InitServerInfo(sv, Last(u.cls.additional)),
                            !.cls.additional = Front(u.cls.additional)]
             ELSE u
  BY DEF Ask, FreeOf
<1> HIDE DEF next, sv
<1>9. CASE next = u /\ (u.full \/ ~sv.visible \/ sv.ping # -1 \/ ~NotOnTheList(u, sv))
  <2>1. Quiet(u) => ~Forgotten(c, u, i)
    <3>1. CASE u.full
      BY <1>1, <1>3, <3>1 DEF Quiet
    <3>2. CASE ~sv.visible \/ sv.ping # -1
      BY <3>2 DEF Forgotten, sv
    <3>3. CASE ~NotOnTheList(u, sv)
      <4>1. PICK j \in Slot : u.pings[j].adr = sv.adr
        BY <3>3 DEF NotOnTheList
      <4>2. QueueCount(u.pings) # 0
        BY <1>3, <1>7, <4>1, Queued
      <4> QED  BY <1>1, <1>3, <1>6, <4>2 DEF Quiet
    <3> QED  BY <1>9, <3>1, <3>2, <3>3
  <2> QED  BY <1>9, <2>1 DEF next
<1>10. CASE next = [u EXCEPT !.full = TRUE] /\ u.slots >= MAX_PINGREQUESTS
  <2>1. u.slots > 0
    BY <1>3, <1>10, BrowserAssumption
  <2>2. /\ next \in Update /\ next.cls = u.cls /\ next.pings = u.pings
        /\ next.slots = u.slots /\ next.status = u.status
    BY <1>1, <1>10 DEF Update
  <2>3. next \in Asking(c)
    BY <1>1, <1>2, <1>13, <2>1, <2>2 DEF Asking
  <2>4. \A k \in Index : Forgotten(c, next, k) => Forgotten(c, u, k)
    BY <2>2 DEF Forgotten
  <2>5. ~Quiet(next)
    BY <1>3, <2>1, <2>2 DEF Quiet
  <2> QED  BY <2>3, <2>4, <2>5 DEF next
<1>11. CASE /\ next = [u EXCEPT !.pings = [j \in Slot \cup {free} |->
                                            IF j = free THEN Query(sv.adr, u.pings[j]) ELSE u.pings[j]],
                                !.slots = u.slots + 1, !.status = TRUE]
            /\ ~(u.slots >= MAX_PINGREQUESTS)
  <2> DEFINE more == [j \in Slot \cup {free} |-> IF j = free THEN Query(sv.adr, u.pings[j]) ELSE u.pings[j]]
  <2>1. QueueCount(u.pings) < MAX_PINGREQUESTS
    BY <1>1, <1>3, <1>6, <1>11, BrowserAssumption
  <2>2. free \in Slot
    BY <1>3, <2>1, FreeIs
  <2> HIDE DEF free
  <2>3. u.pings[free] \in PingRequest
    BY <1>3, <2>2
  <2>4. /\ Query(sv.adr, u.pings[free]) \in PingRequest
        /\ Query(sv.adr, u.pings[free]).time = 0
    BY <1>7, <2>3, QueryIs
  <2>5. more = [j \in Slot |-> IF j = free THEN Query(sv.adr, u.pings[free]) ELSE u.pings[j]]
    BY <1>3, <2>2
  <2> HIDE DEF more
  <2>6. more \in [Slot -> PingRequest]
    BY <1>3, <2>4, <2>5
  <2>7. QueueCount(more) <= QueueCount(u.pings) + 1
    BY <1>3, <2>2, <2>5, <2>6, QueuedOneMore
  <2>8. QueueCount(more) \in Nat
    BY <2>6, Queued
  <2>9. OwnAnswers(more)
    BY <1>1, <2>4, <2>5 DEF OwnAnswers
  <2>10. next = [u EXCEPT !.pings = more, !.slots = u.slots + 1, !.status = TRUE]
    BY <1>11 DEF more
  <2>11. /\ next \in Update /\ next.cls = u.cls /\ next.pings = more
         /\ next.slots = u.slots + 1 /\ next.status
    <3>1. u.slots + 1 \in Nat
      BY <1>3
    <3> QED  BY <1>1, <2>6, <2>10, <3>1 DEF Update
  <2>12. next \in Asking(c)
    <3>1. QueueCount(next.pings) <= next.slots /\ next.slots > 0
      BY <1>1, <1>3, <1>6, <2>7, <2>8, <2>11
    <3> QED  BY <1>1, <1>2, <1>13, <2>9, <2>11, <3>1 DEF Asking
  <2>13. \A k \in Index : Forgotten(c, next, k) => Forgotten(c, u, k)
    BY <2>11 DEF Forgotten
  <2>14. ~Quiet(next)
    BY <2>11 DEF Quiet
  <2> QED  BY <2>12, <2>13, <2>14 DEF next
<1>12. CASE /\ next = [u EXCEPT !.cls.globalServers[i] = CL_InitServerInfo(sv, Last(u.cls.additional)),
                                !.cls.additional = Front(u.cls.additional)]
            /\ sv.visible /\ sv.ping # -1 /\ Lost(u, sv) /\ u.cls.additional # <<>>
  <2> DEFINE new == CL_InitServerInfo(sv, Last(u.cls.additional))
             servers == [u.cls.globalServers EXCEPT ![i] = new]
             rest == Front(u.cls.additional)
             d == [u.cls EXCEPT !.globalServers = servers, !.additional = rest]
  <2>1. /\ Last(u.cls.additional) \in Address
        /\ rest \in Seq(Address) /\ Len(rest) = Len(u.cls.additional) - 1 /\ Len(u.cls.additional) \in Nat
        /\ Len(u.cls.additional) > 0 /\ Last(u.cls.additional) = u.cls.additional[Len(u.cls.additional)]
        /\ \A k \in 1 .. Len(rest) : rest[k] = u.cls.additional[k]
    <3>1. Len(u.cls.additional) > 0 /\ Len(u.cls.additional) \in Nat
      BY <1>4, <1>12
    <3> QED  BY <1>4, <3>1, FrontIs
  <2>2. /\ new \in ServerInfo /\ new.adr = Last(u.cls.additional) /\ new.ping = -1
        /\ new.visible = sv.visible
    BY <1>5, <2>1, InitInfoIs
  <2> HIDE DEF new, rest
  <2>3. /\ servers \in Servers /\ servers[i] = new
        /\ \A k \in Index : k # i => servers[k] = u.cls.globalServers[k]
    BY <1>4, <2>2 DEF Servers
  <2> HIDE DEF servers
  <2>4. /\ d \in Cls /\ d.globalServers = servers /\ d.additional = rest
        /\ d.numglobalservers = u.cls.numglobalservers /\ d.requests = u.cls.requests
    BY <1>3, <2>1, <2>3 DEF Cls
  <2>5. next = [u EXCEPT !.cls = d]
    BY <1>3, <1>12 DEF d, servers, new, rest
  <2> HIDE DEF d
  <2>6. /\ next \in Update /\ next.cls = d /\ next.pings = u.pings /\ next.slots = u.slots
        /\ next.status = u.status /\ next.full = u.full
    BY <1>1, <2>4, <2>5 DEF Update
  <2>7. Len(c.additional) \in Nat
    BY DEF Cls
  <2>8. Len(d.additional) < Len(c.additional) /\ Len(d.additional) < Len(u.cls.additional)
    BY <1>1, <2>1, <2>4, <2>7
  <2>9. \A k \in Index : SameOrNew(c, d, k)
    <3>1. SameOrNew(c, d, i)
      BY <1>2, <1>12, <2>8 DEF SameOrNew, Lost, sv
    <3>2. \A k \in Index : k # i => SameOrNew(c, d, k)
      BY <1>2, <2>1, <2>3, <2>4, <2>7, <2>8 DEF SameOrNew
    <3> QED  BY <3>1, <3>2
  <2>10. Own(servers)
    BY <1>1, <2>2, <2>3 DEF Own
  <2>11. Named(d)
    BY <1>1, <2>1, <2>2, <2>3, <2>4, BrowserAssumption DEF Named, Address
  <2>12. \A k \in Index : servers[k].visible = c.globalServers[k].visible
    BY <1>1, <2>2, <2>3 DEF sv
  <2>17. SameList(c, d)
    <3>1. SameList(u.cls, d)
      <4>1. u.cls \in Cls /\ d \in Cls /\ i <= u.cls.numglobalservers
        BY <1>1, <1>3, <2>4
      <4>2. /\ d.numglobalservers = u.cls.numglobalservers /\ d.requests = u.cls.requests
            /\ Len(u.cls.additional) > 0 /\ Len(d.additional) = Len(u.cls.additional) - 1
            /\ \A k \in 1 .. Len(d.additional) : d.additional[k] = u.cls.additional[k]
        BY <2>1, <2>4
      <4>3. /\ d.globalServers[i].adr = u.cls.additional[Len(u.cls.additional)]
            /\ \A k \in Index : k # i => d.globalServers[k].adr = u.cls.globalServers[k].adr
        BY <2>1, <2>2, <2>3, <2>4
      <4> QED  BY <4>1, <4>2, <4>3, MoveIs
    <3> QED  BY <1>13, <3>1, SameListTwice
  <2>18. \A k \in Index : ~c.globalServers[k].visible => d.globalServers[k].adr = c.globalServers[k].adr
    <3>1. c.globalServers[i].visible
      BY <1>1, <1>12 DEF sv
    <3> QED  BY <1>13, <2>3, <2>4, <3>1
  <2>13. next \in Asking(c)
    BY <1>1, <2>17, <2>18, <2>4, <2>6, <2>7, <2>8, <2>9, <2>10, <2>11, <2>12 DEF Asking
  <2>14. \A k \in Index : Forgotten(c, next, k) /\ k # i => Forgotten(c, u, k)
    BY <2>1, <2>3, <2>4, <2>6, <2>7, <2>8 DEF Forgotten
  <2>15. ~Forgotten(c, next, i)
    <3>1. c.globalServers[i].ping = 0
      BY <1>2, <1>12 DEF SameOrNew, Lost, sv
    <3> QED  BY <2>6, <2>8, <3>1 DEF Forgotten
  <2>16. Quiet(next) <=> Quiet(u)
    BY <2>6 DEF Quiet
  <2> QED  BY <2>13, <2>14, <2>15, <2>16 DEF next
<1> QED
  <2>1. \/ next = u /\ (u.full \/ ~sv.visible \/ sv.ping # -1 \/ ~NotOnTheList(u, sv))
        \/ next = [u EXCEPT !.full = TRUE] /\ u.slots >= MAX_PINGREQUESTS
        \/ /\ next = [u EXCEPT !.pings = [j \in Slot \cup {free} |->
                                            IF j = free THEN Query(sv.adr, u.pings[j]) ELSE u.pings[j]],
                               !.slots = u.slots + 1, !.status = TRUE]
           /\ ~(u.slots >= MAX_PINGREQUESTS)
        \/ /\ next = [u EXCEPT !.cls.globalServers[i] = CL_InitServerInfo(sv, Last(u.cls.additional)),
                               !.cls.additional = Front(u.cls.additional)]
           /\ sv.visible /\ sv.ping # -1 /\ Lost(u, sv) /\ u.cls.additional # <<>>
    BY <1>8, Zenon
  <2> QED  BY <1>9, <1>10, <1>11, <1>12, <2>1

(* The first loop: if it sent no query and none was under way, it left no  *)
(* server of the list out.                                                 *)
LEMMA AskLoop ==
  ASSUME NEW c \in Cls, NEW pings \in [Slot -> PingRequest],
         Own(c.globalServers), OwnAnswers(pings), Named(c)
  PROVE  LET slots == QueueCount(pings)
             start == [cls |-> c, pings |-> pings, slots |-> slots,
                       full |-> slots = MAX_PINGREQUESTS, status |-> FALSE]
             asked == Loop(Ask, start, c.numglobalservers)
         IN  /\ asked \in Asking(c)
             /\ Quiet(asked) => \A i \in Index : i <= c.numglobalservers => ~Forgotten(c, asked, i)
<1> DEFINE slots == QueueCount(pings)
           start == [cls |-> c, pings |-> pings, slots |-> slots,
                     full |-> slots = MAX_PINGREQUESTS, status |-> FALSE]
           n == c.numglobalservers
<1>1. slots \in Nat
  BY Queued
<1>6. SameList(c, c)
  BY DEF SameList
<1>2. start \in Asking(c)
  <2>1. start \in Update
    BY <1>1 DEF Update
  <2>2. start.full => start.slots > 0
    <3>1. slots = MAX_PINGREQUESTS => slots > 0
      BY BrowserAssumption
    <3> HIDE DEF slots
    <3>2. start.full = (slots = MAX_PINGREQUESTS) /\ start.slots = slots
      OBVIOUS
    <3> HIDE DEF start
    <3> QED  BY <3>1, <3>2
  <2>3. Len(c.additional) \in Nat
    BY DEF Cls
  <2>4. start.cls = c /\ start.pings = pings /\ start.slots = slots
    OBVIOUS
  <2> HIDE DEF start
  <2> QED  BY <1>1, <1>6, <2>1, <2>2, <2>3, <2>4 DEF Asking, SameOrNew
<1>3. n \in -1 .. MAX_GLOBAL_SERVERS
  BY DEF Cls
<1> HIDE DEF start, n
<1>4. CASE n = -1
  <2>1. Loop(Ask, start, n) = start
    BY <1>4 DEF Loop
  <2>2. \A i \in Index : ~(i <= n)
    BY <1>4 DEF Index
  <2> QED  BY <1>2, <2>1, <2>2 DEF start, n
<1>5. CASE n # -1
  <2>1. n \in Nat /\ \A i \in 1 .. n : i \in Index /\ i <= c.numglobalservers
    BY <1>3, <1>5, BrowserAssumption DEF Index, n
  <2>2. \A i \in 1 .. n, u \in Asking(c) : Ask(u, i) \in Asking(c)
    BY <2>1, AskIs
  <2>3. PICK g \in AskRun(Asking(c), start, n) : TRUE
    BY <1>2, <2>1, <2>2, AskRuns
  <2>4. g \in [0 .. n -> Asking(c)]
    BY <2>3 DEF AskRun
  <2>5. /\ \A i \in 1 .. n : g[i] = Ask(g[i - 1], i)
        /\ Loop(Ask, start, n) = g[n]
    BY <2>3 DEF AskRun
  <2> DEFINE S == {i \in 0 .. n : Quiet(g[i]) => \A k \in 1 .. i : ~Forgotten(c, g[i], k)}
  <2>6. 0 \in S
    BY <2>1
  <2>7. ASSUME NEW i \in 0 .. n - 1, i \in S PROVE i + 1 \in S
    <3>1. i + 1 \in 1 .. n /\ (i + 1) - 1 = i /\ i \in 0 .. n
      BY <2>1
    <3>2. g[i] \in Asking(c) /\ g[i + 1] = Ask(g[i], i + 1)
      BY <2>4, <2>5, <3>1
    <3>3. i + 1 \in Index /\ i + 1 <= c.numglobalservers
      BY <2>1, <3>1
    <3>4. /\ \A k \in Index : Forgotten(c, g[i + 1], k) /\ k # i + 1 => Forgotten(c, g[i], k)
          /\ Quiet(g[i + 1]) => Quiet(g[i]) /\ ~Forgotten(c, g[i + 1], i + 1)
      BY <3>2, <3>3, AskIs
    <3>5. \A k \in 1 .. i + 1 : k = i + 1 \/ (k \in 1 .. i /\ k \in Index)
      BY <2>1, <3>1
    <3>6. Quiet(g[i + 1]) => \A k \in 1 .. i + 1 : ~Forgotten(c, g[i + 1], k)
      BY <2>7, <3>4, <3>5
    <3> QED  BY <3>1, <3>6
  <2>8. n \in S
    <3>1. 0 .. n \subseteq S
      <4> HIDE DEF S
      <4> QED  BY <2>1, <2>6, <2>7, BoundedInduction
    <3> QED  BY <2>1, <3>1
  <2>9. g[n] \in Asking(c)
    BY <2>1, <2>4
  <2>10. \A i \in Index : i <= n => i \in 1 .. n
    BY <2>1 DEF Index
  <2> QED  BY <2>5, <2>8, <2>9, <2>10 DEF start, n
<1> QED  BY <1>4, <1>5

(* What the second loop may make of an update.                             *)
Collecting(a) ==
  {u \in Update :
     /\ u.cls.numglobalservers = a.cls.numglobalservers
     /\ u.cls.additional = a.cls.additional
     /\ u.cls.requests = a.cls.requests
     /\ \A i \in Index : /\ u.cls.globalServers[i].visible = a.cls.globalServers[i].visible
                         /\ u.cls.globalServers[i].adr = a.cls.globalServers[i].adr
     /\ Own(u.cls.globalServers) /\ OwnAnswers(u.pings) /\ Named(u.cls)
     /\ a.status => u.status
     /\ (\A j \in Slot : a.pings[j].adr = NoServer) => u = a}

(* An answer is stored in every server of its address.                     *)
LEMMA SetInfoIs ==
  ASSUME NEW servers \in Servers, NEW a \in Address, NEW info \in Server \cup {NoServer},
         NEW ping \in 0 .. MaxPing, ping > 0 => info = a
  PROVE  LET set == CL_SetServerInfoByAddress(servers, a, info, ping)
         IN  /\ set \in Servers
             /\ \A i \in Index : set[i].visible = servers[i].visible /\ set[i].adr = servers[i].adr
             /\ Own(servers) => Own(set)
<1> DEFINE set == CL_SetServerInfoByAddress(servers, a, info, ping)
<1>1. ping \in -1 .. MaxPing
  BY BrowserAssumption
<1>2. ASSUME NEW i \in Index
      PROVE  /\ set[i] \in ServerInfo
             /\ set[i].visible = servers[i].visible /\ set[i].adr = servers[i].adr
             /\ set[i] = servers[i] \/ (set[i].ping = ping /\ set[i].info = info /\ set[i].adr = a)
  <2>1. servers[i] \in ServerInfo
    BY DEF Servers
  <2>2. set[i] = IF servers[i].adr = a
                 THEN [servers[i] EXCEPT !.info = info, !.ping = ping] ELSE servers[i]
    BY DEF CL_SetServerInfoByAddress
  <2> HIDE DEF set
  <2>3. CASE servers[i].adr = a
    <3> DEFINE new == [servers[i] EXCEPT !.info = info, !.ping = ping]
    <3>1. /\ new \in ServerInfo /\ new.visible = servers[i].visible /\ new.adr = servers[i].adr
          /\ new.ping = ping /\ new.info = info
      BY <1>1, <2>1 DEF ServerInfo
    <3> HIDE DEF new
    <3>2. set[i] = new
      BY <2>2, <2>3 DEF new
    <3> QED  BY <2>3, <3>1, <3>2
  <2>4. CASE servers[i].adr # a
    BY <2>1, <2>2, <2>4
  <2> QED  BY <2>3, <2>4
<1>3. set \in Servers
  <2>1. set = [i \in Index |-> set[i]]
    BY DEF CL_SetServerInfoByAddress
  <2> HIDE DEF set
  <2> QED  BY <1>2, <2>1 DEF Servers
<1> HIDE DEF set
<1>4. Own(servers) => Own(set)
  BY <1>2 DEF Own
<1> QED  BY <1>2, <1>3, <1>4 DEF set

(* A turn of the second loop.                                              *)
LEMMA CollectIs ==
  ASSUME NEW a \in Update, NEW u \in Collecting(a), NEW j \in Slot
  PROVE  Collect(u, j) \in Collecting(a)
<1> DEFINE slot == u.pings[j]
           next == Collect(u, j)
<1>1. /\ u \in Update
      /\ u.cls.numglobalservers = a.cls.numglobalservers
      /\ u.cls.additional = a.cls.additional /\ u.cls.requests = a.cls.requests
      /\ \A i \in Index : /\ u.cls.globalServers[i].visible = a.cls.globalServers[i].visible
                          /\ u.cls.globalServers[i].adr = a.cls.globalServers[i].adr
      /\ Own(u.cls.globalServers) /\ OwnAnswers(u.pings) /\ Named(u.cls)
      /\ a.status => u.status
      /\ (\A k \in Slot : a.pings[k].adr = NoServer) => u = a
  BY DEF Collecting
<1>2. /\ u.cls \in Cls /\ u.pings \in [Slot -> PingRequest] /\ u.slots \in Nat
      /\ u.full \in BOOLEAN /\ u.status \in BOOLEAN
  BY <1>1 DEF Update
<1>3. u.cls.globalServers \in Servers
  BY <1>2 DEF Cls
<1>4. slot \in PingRequest
  BY <1>2
<1>5. CASE slot.adr = NoServer
  <2>1. next = u
    BY <1>5 DEF Collect
  <2> QED  BY <2>1
<1>6. CASE slot.adr # NoServer
  <2> DEFINE servers == CL_SetServerInfoByAddress(u.cls.globalServers, slot.adr, slot.info, slot.time)
             adr == IF Over(slot) THEN NoServer ELSE slot.adr
             pings == [u.pings EXCEPT ![j] = [slot EXCEPT !.adr = adr]]
             d == [u.cls EXCEPT !.globalServers = servers]
             status == u.status \/ Over(slot)
  <2>1. /\ slot.adr \in Address /\ slot.info \in Server \cup {NoServer} /\ slot.time \in 0 .. MaxPing
        /\ slot.time > 0 => slot.info = slot.adr
    BY <1>1, <1>4, <1>6 DEF PingRequest, OwnAnswers
  <2>2. /\ servers \in Servers
        /\ \A i \in Index : servers[i].visible = u.cls.globalServers[i].visible
                            /\ servers[i].adr = u.cls.globalServers[i].adr
        /\ Own(servers)
    BY <1>1, <1>3, <2>1, SetInfoIs
  <2>3. adr \in {NoServer, slot.adr} /\ status \in BOOLEAN
    BY <1>2 DEF Over
  <2>4. next = [u EXCEPT !.cls = d, !.pings = pings, !.status = status]
    BY <1>2, <1>6 DEF Collect
  <2> HIDE DEF servers, adr, status, next
  <2>5. /\ [slot EXCEPT !.adr = adr] \in PingRequest
        /\ [slot EXCEPT !.adr = adr].adr = adr
        /\ [slot EXCEPT !.adr = adr].time = slot.time
        /\ [slot EXCEPT !.adr = adr].info = slot.info
    BY <1>4, <2>3 DEF PingRequest
  <2>6. /\ pings \in [Slot -> PingRequest]
        /\ pings[j] = [slot EXCEPT !.adr = adr]
        /\ \A k \in Slot : k # j => pings[k] = u.pings[k]
    BY <1>2, <2>5
  <2> HIDE DEF pings
  <2>7. OwnAnswers(pings)
    BY <1>1, <2>1, <2>3, <2>5, <2>6 DEF OwnAnswers
  <2>8. /\ d \in Cls /\ d.globalServers = servers /\ d.additional = u.cls.additional
        /\ d.numglobalservers = u.cls.numglobalservers /\ d.requests = u.cls.requests
    BY <1>2, <2>2 DEF Cls
  <2> HIDE DEF d
  <2>9. Named(d)
    BY <1>1, <2>2, <2>8 DEF Named
  <2>10. next \in Update /\ next.cls = d /\ next.pings = pings /\ next.status = status
    BY <1>1, <2>3, <2>4, <2>6, <2>8 DEF Update
  <2>11. u.status => status
    BY DEF status
  <2>12. ~ \A k \in Slot : a.pings[k].adr = NoServer
    BY <1>1, <1>6
  <2>13. next \in Collecting(a)
    BY <1>1, <2>2, <2>7, <2>8, <2>9, <2>10, <2>11, <2>12 DEF Collecting
  <2> QED  BY <2>13 DEF next
<1> QED  BY <1>5, <1>6

(* The second loop.                                                        *)
LEMMA CollectLoop ==
  ASSUME NEW a \in Update, Own(a.cls.globalServers), OwnAnswers(a.pings), Named(a.cls)
  PROVE  Loop(Collect, a, MAX_PINGREQUESTS) \in Collecting(a)
<1>1. a \in Collecting(a)
  BY DEF Collecting
<1>2. MAX_PINGREQUESTS \in Nat /\ \A i \in 1 .. MAX_PINGREQUESTS : i \in Slot
  BY BrowserAssumption DEF Slot
<1>3. \A i \in 1 .. MAX_PINGREQUESTS, u \in Collecting(a) : Collect(u, i) \in Collecting(a)
  BY <1>2, CollectIs
<1>4. PICK g \in CollectRun(Collecting(a), a, MAX_PINGREQUESTS) : TRUE
  BY <1>1, <1>2, <1>3, CollectRuns
<1>5. /\ g \in [0 .. MAX_PINGREQUESTS -> Collecting(a)]
      /\ Loop(Collect, a, MAX_PINGREQUESTS) = g[MAX_PINGREQUESTS]
  BY <1>4 DEF CollectRun
<1> QED  BY <1>2, <1>5

-----------------------------------------------------------------------------
(* The invariant: one lemma per step                                       *)

(* What a step keeps: the invariant, the order of the rows, and no server  *)
(* is forgotten when the refresh stops.                                    *)
KeepsOrder ==
  Ordered(cls'.globalServers, [ui' EXCEPT !.shown = ui.shown]) => Ordered(cls'.globalServers, ui')

ForgetsNone ==
  Stops => \A i \in Listed : cls'.globalServers[i].visible => cls'.globalServers[i].ping = 0 \/ Replaced(i)

Kept == IInv' /\ KeepsOrder /\ ForgetsNone

(* With the same rows the order is not disturbed.                          *)
LEMMA SameRows ==
  ASSUME ui' \in UI, ui'.shown = ui.shown
  PROVE  KeepsOrder
<1>1. [ui' EXCEPT !.shown = ui.shown] = ui'
  BY DEF UI
<1> QED  BY <1>1 DEF KeepsOrder

(* Rows that are not shown are in order.                                   *)
LEMMA NoRowsKeepOrder ==
  ASSUME ui'.shown = <<>>
  PROVE  KeepsOrder
  BY DEF KeepsOrder, Ordered

(* Requests bring packets of the master into the network, which name       *)
(* different servers; the list starts anew.                                *)
LEMMA RequestIs ==
  ASSUME IInv, Request, commands' = commands + 1, NEW d, d.numglobalservers = -1, d.requests = cls.requests
  PROVE  network' \subseteq Packet \X Nat /\ OneRequest(d, network', commands')
<1>1. PICK entries \in MasterList : network' = network \cup (ToSet(Packets(entries)) \X {commands})
  BY DEF Request
<1> DEFINE new == ToSet(Packets(entries))
           added == new \X {commands}
<1>2. entries \in Seq(Server) /\ IsInjective(entries)
  BY BrowserAssumption
<1>3. new \subseteq Packet
  <2>1. Packets(entries) \in Seq(Packet)
    BY <1>2, PacketsAre
  <2> QED  BY <2>1 DEF ToSet
<1>4. /\ \A p \in new : IsInjective(p.servers)
      /\ \A p, q \in new : p # q => ToSet(p.servers) \cap ToSet(q.servers) = {}
  BY <1>2, PacketsApart
<1> HIDE DEF new
<1>5. commands \in Nat /\ network \subseteq Packet \X Nat /\ OneRequest(cls, network, commands)
  BY DEF IInv
<1>6. network' = network \cup added
  BY <1>1 DEF new
<1>7. \A p \in added : p[1] \in new /\ p[2] = commands /\ p = <<p[1], p[2]>>
  OBVIOUS
<1>8. network' \subseteq Packet \X Nat
  BY <1>3, <1>5, <1>6
<1> HIDE DEF added
<1>9. \A p \in network : p[2] \in Nat /\ p[2] < commands /\ IsInjective(p[1].servers)
  BY <1>5 DEF OneRequest
<1>10. \A p \in network' : p[2] < commands' /\ IsInjective(p[1].servers)
  BY <1>4, <1>5, <1>6, <1>7, <1>9
<1>11. ASSUME NEW p \in network', NEW q \in network', p # q, p[2] = q[2]
       PROVE  ToSet(p[1].servers) \cap ToSet(q[1].servers) = {}
  <2>1. CASE p \in network /\ q \in network
    BY <1>5, <1>11, <2>1 DEF OneRequest, Apart
  <2>2. CASE p \in added /\ q \in added
    <3>1. p[1] # q[1]
      BY <1>7, <1>11, <2>2
    <3> QED  BY <1>4, <1>7, <2>2, <3>1
  <2>3. CASE ~(p \in network /\ q \in network) /\ ~(p \in added /\ q \in added)
    BY <1>5, <1>6, <1>7, <1>9, <1>11, <2>3
  <2> QED  BY <2>1, <2>2, <2>3
<1>12. Known(d) = {} /\ Different(d)
  BY DEF Known, Different
<1>13. d.requests \subseteq 0 .. commands' - 1
  <2>1. 0 .. commands - 1 \subseteq 0 .. commands' - 1
    BY <1>5
  <2> QED  BY <1>5, <2>1 DEF OneRequest
<1>14. Apart(network')
  BY <1>11 DEF Apart
<1>15. OneRequest(d, network', commands')
  BY <1>10, <1>12, <1>13, <1>14 DEF OneRequest
<1> QED  BY <1>8, <1>15

(* Resetting the pings and the flags of the servers.                       *)
LEMMA ResetIs ==
  ASSUME NEW servers \in Servers
  PROVE  /\ LAN_ResetPings(servers) \in Servers
         /\ \A i \in Index : /\ LAN_ResetPings(servers)[i].visible = servers[i].visible
                             /\ LAN_ResetPings(servers)[i].adr = servers[i].adr
                             /\ LAN_ResetPings(servers)[i].ping = -1
         /\ LAN_MarkServersVisible(servers) \in Servers
<1>1. -1 \in -1 .. MaxPing
  BY BrowserAssumption
<1>2. ASSUME NEW i \in Index
      PROVE  /\ LAN_ResetPings(servers)[i] \in ServerInfo
             /\ LAN_ResetPings(servers)[i].visible = servers[i].visible
             /\ LAN_ResetPings(servers)[i].adr = servers[i].adr
             /\ LAN_ResetPings(servers)[i].ping = -1
             /\ LAN_MarkServersVisible(servers)[i] \in ServerInfo
  <2>1. servers[i] \in ServerInfo
    BY DEF Servers
  <2>2. LAN_ResetPings(servers)[i] = [servers[i] EXCEPT !.ping = -1]
    BY DEF LAN_ResetPings
  <2>3. LAN_MarkServersVisible(servers)[i] = [servers[i] EXCEPT !.visible = TRUE]
    BY DEF LAN_MarkServersVisible
  <2> QED  BY <1>1, <2>1, <2>2, <2>3 DEF ServerInfo
<1>3. LAN_ResetPings(servers) = [i \in Index |-> LAN_ResetPings(servers)[i]]
  BY DEF LAN_ResetPings
<1>4. LAN_MarkServersVisible(servers) = [i \in Index |-> LAN_MarkServersVisible(servers)[i]]
  BY DEF LAN_MarkServersVisible
<1>5. LAN_ResetPings(servers) \in Servers
  BY <1>2, <1>3 DEF Servers
<1>6. LAN_MarkServersVisible(servers) \in Servers
  BY <1>2, <1>4 DEF Servers
<1> QED  BY <1>2, <1>5, <1>6

(* The invariant holds initially.                                          *)
LEMMA InitKept ==
  ASSUME BrowserInit
  PROVE  IInv
<1> DEFINE sv == [adr |-> NoServer, visible |-> FALSE, ping |-> 0, info |-> NoServer]
           slot == [adr |-> NoServer, expired |-> FALSE, time |-> 0, info |-> NoServer]
<1>1. 0 \in -1 .. MaxPing /\ 0 \in 0 .. MaxPing /\ 0 \in -1 .. MAX_GLOBAL_SERVERS
  BY BrowserAssumption
<1>2. sv \in ServerInfo
  BY <1>1 DEF ServerInfo
<1>3. slot \in PingRequest
  BY <1>1 DEF PingRequest
<1>4. /\ cls = [numglobalservers |-> 0, globalServers |-> [i \in Index |-> sv], additional |-> <<>>,
                masterNum |-> 0, requests |-> {}]
      /\ pinglist = [j \in Slot |-> slot]
      /\ ui = [refreshActive |-> FALSE, shown |-> <<>>, unused |-> [i \in Index |-> 1], displayDue |-> TRUE,
               refreshDue |-> TRUE, sortKey |-> "ping", sortDir |-> FALSE]
      /\ network = {} /\ commands = 0
  BY DEF BrowserInit
<1>5. <<>> \in Seq(Address) /\ <<>> \in Seq(Index) /\ Len(<<>>) = 0
  OBVIOUS
<1> DEFINE unused == [i \in Index |-> 1]
<1>12. unused \in Seq(Index) /\ Len(unused) = MAX_GLOBAL_SERVERS
  <2>1. MAX_GLOBAL_SERVERS \in Nat \ {0} /\ Index = 1 .. MAX_GLOBAL_SERVERS /\ 1 \in Index
    BY BrowserAssumption DEF Index
  <2>2. unused \in [1 .. MAX_GLOBAL_SERVERS -> Index]
    BY <2>1
  <2>3. unused \in Seq(Index) /\ Len(unused) = MAX_GLOBAL_SERVERS
    <3> HIDE DEF unused
    <3> QED  BY <2>1, <2>2
  <2> HIDE DEF unused
  <2> QED  BY <1>5, <2>1, <2>3
<1>6. [i \in Index |-> sv] \in Servers
  BY <1>2 DEF Servers
<1>7. cls \in Cls
  BY <1>1, <1>4, <1>5, <1>6 DEF Cls
<1>8. ui \in UI
  <2>1. ui = [refreshActive |-> FALSE, shown |-> <<>>, unused |-> unused, displayDue |-> TRUE,
              refreshDue |-> TRUE, sortKey |-> "ping", sortDir |-> FALSE]
    BY <1>4
  <2> HIDE DEF unused
  <2> QED  BY <1>5, <1>12, <2>1 DEF UI
<1>9. pinglist \in [Slot -> PingRequest]
  BY <1>3, <1>4
<1>10. /\ cls.numglobalservers = 0 /\ ui.shown = <<>> /\ ui.unused = unused /\ cls.additional = <<>>
       /\ \A i \in Index : cls.globalServers[i].ping = 0
       /\ \A j \in Slot : pinglist[j].adr = NoServer
  BY <1>4
<1>11. Own(cls.globalServers) /\ OwnAnswers(pinglist) /\ Named(cls) /\ Hidden(cls.globalServers, ui.shown)
  BY <1>10 DEF Own, OwnAnswers, Named, Hidden, IsInjective, Index
<1>13. Filled(ui) /\ Bounded(cls)
  <2> HIDE DEF unused
  <2> QED  BY <1>5, <1>10, <1>12, BrowserAssumption DEF Filled, Bounded
<1>14. OneRequest(cls, network, commands) /\ RowsNamed(cls, ui.shown)
  <2>1. Different(cls)
    BY <1>10 DEF Different, Index
  <2>2. network = {} /\ cls.requests = {}
    BY <1>4
  <2> QED  BY <1>10, <2>1, <2>2 DEF OneRequest, Apart, RowsNamed
<1> QED  BY <1>4, <1>7, <1>8, <1>9, <1>11, <1>13, <1>14 DEF IInv

(* RefreshServers empties the rows.                                        *)
LEMMA RefreshServersKept ==
  ASSUME IInv, RefreshServers
  PROVE  Kept
<1> DEFINE servers == LAN_ResetPings(LAN_MarkServersVisible(cls.globalServers))
<1>1. /\ cls \in Cls /\ ui \in UI /\ commands \in Nat /\ cls.globalServers \in Servers
      /\ Filled(ui) /\ Bounded(cls)
  BY DEF IInv, Cls
<1>2. servers \in Servers /\ \A i \in Index : servers[i].ping = -1
  BY <1>1, ResetIs
<1>3. /\ cls' = [cls EXCEPT !.numglobalservers = -1, !.masterNum = 0, !.globalServers = servers]
      /\ ui' = [NoRows(ui) EXCEPT !.refreshActive = TRUE, !.displayDue = FALSE, !.refreshDue = FALSE]
      /\ pinglist' = pinglist /\ commands' = commands + 1
  BY DEF RefreshServers, Give
<1> HIDE DEF servers
<1>5. /\ cls' \in Cls /\ cls'.numglobalservers = -1 /\ cls'.globalServers = servers
      /\ cls'.additional = cls.additional /\ Bounded(cls')
  <2>1. -1 \in -1 .. MAX_GLOBAL_SERVERS
    BY BrowserAssumption
  <2> QED  BY <1>1, <1>2, <1>3, <2>1 DEF Cls, Bounded
<1>4. network' \subseteq Packet \X Nat /\ OneRequest(cls', network', commands')
  <2>1. cls'.requests = cls.requests /\ Request
    BY <1>1, <1>3 DEF Cls, RefreshServers
  <2> QED  BY <1>3, <1>5, <2>1, RequestIs
<1>6. ui' \in UI /\ ui'.shown = <<>> /\ ui'.refreshActive /\ Filled(ui')
  <2> DEFINE u == NoRows(ui)
  <2>1. u \in UI /\ Filled(u) /\ u.shown = <<>>
    BY <1>1, NoRowsIs
  <2> HIDE DEF u
  <2>2. ui' = [u EXCEPT !.refreshActive = TRUE, !.displayDue = FALSE, !.refreshDue = FALSE]
    BY <1>3 DEF u
  <2> QED  BY <2>1, <2>2 DEF UI, Filled
<1>7. Own(cls'.globalServers) /\ Named(cls') /\ Hidden(cls'.globalServers, ui'.shown)
  BY <1>2, <1>5, <1>6 DEF Own, Named, Hidden, IsInjective, Index
<1>8. pinglist' \in [Slot -> PingRequest] /\ OwnAnswers(pinglist') /\ commands' \in Nat
  BY <1>1, <1>3 DEF IInv
<1>10. RowsNamed(cls', ui'.shown)
  BY <1>6 DEF RowsNamed
<1>9. IInv'
  BY <1>4, <1>5, <1>6, <1>7, <1>8, <1>10 DEF IInv
<1> QED  BY <1>6, <1>9, NoRowsKeepOrder DEF Kept, ForgetsNone, Stops

(* New rows for the whole list.                                            *)
LEMMA RebuildKept ==
  ASSUME IInv, NEW servers \in Servers, NEW u \in UI, Rebuild(servers, u), commands' = commands + 1,
         \A i \in Index : servers[i].visible = cls.globalServers[i].visible
                          /\ servers[i].adr = cls.globalServers[i].adr,
         Own(servers), u.shown = ui.shown, u.unused = ui.unused, ui.refreshActive => u.refreshActive
  PROVE  Kept
<1> DEFINE c == [cls EXCEPT !.globalServers = servers]
           built == UI_BuildServerDisplayList(c, u, 1)
<1>1. /\ cls \in Cls /\ Hidden(cls.globalServers, ui.shown) /\ Named(cls) /\ ui \in UI
      /\ Filled(u) /\ Bounded(cls)
  BY DEF IInv, Filled
<1>17. commands \in Nat /\ commands' \in Nat
  <2>1. commands \in Nat
    BY DEF IInv
  <2> QED  BY <2>1
<1>2. c \in Cls /\ c.globalServers = servers /\ c.numglobalservers = cls.numglobalservers
  BY <1>1 DEF Cls
<1>3. /\ cls' = [cls EXCEPT !.globalServers = built.servers]
      /\ ui' = built.ui /\ pinglist' = pinglist /\ network' = network
  BY DEF Rebuild
<1>4. Hidden(servers, u.shown)
  <2>1. \A m \in DOMAIN ui.shown : ui.shown[m] \in Index
    BY <1>1 DEF UI
  <2> QED  BY <1>1, <2>1 DEF Hidden
<1> HIDE DEF c
<1>5. built \in Built(c, u, 1)
  <2>1. 1 \in 0 .. 2 /\ Hidden(c.globalServers, u.shown) /\ Filled(u)
    BY <1>1, <1>2, <1>4
  <2> QED  BY <1>2, <2>1, BuildIs
<1> HIDE DEF built
<1>6. /\ built.servers \in Servers /\ built.ui \in UI
      /\ Hidden(built.servers, built.ui.shown)
      /\ built.ui.refreshActive = u.refreshActive /\ Filled(built.ui)
      /\ Ordered(built.servers, built.ui)
  BY <1>5 DEF Built, SameBrowser
<1>7. \A i \in Index : /\ built.servers[i].adr = servers[i].adr
                       /\ built.servers[i].ping = servers[i].ping
                       /\ built.servers[i].info = servers[i].info
  BY <1>2, <1>5 DEF Built
<1>8. /\ cls' \in Cls /\ cls'.globalServers = built.servers /\ cls'.numglobalservers = cls.numglobalservers
      /\ Bounded(cls') /\ cls'.requests = cls.requests /\ cls'.additional = cls.additional
  BY <1>1, <1>3, <1>6 DEF Cls, Bounded
<1>9. Own(cls'.globalServers) /\ Named(cls')
  BY <1>1, <1>7, <1>8 DEF Own, Named
<1>10. pinglist' \in [Slot -> PingRequest] /\ OwnAnswers(pinglist') /\ network' \subseteq Packet \X Nat
  BY <1>3 DEF IInv
<1>14. \A i \in Index : cls'.globalServers[i].adr = cls.globalServers[i].adr
  BY <1>7, <1>8
<1>15. OneRequest(cls', network', commands')
  <2>1. SameList(cls, cls')
    BY <1>1, <1>8, <1>14, SameAddresses
  <2>2. network \in SUBSET (Packet \X Nat) /\ OneRequest(cls, network, commands)
    BY DEF IInv
  <2>3. commands <= commands'
    BY <1>17
  <2> QED  BY <1>3, <1>17, <2>1, <2>2, <2>3, OneSame
<1>16. RowsNamed(cls', ui'.shown)
  <2>1. \A i \in ToSet(ui'.shown) : i \in ToSet(ui.shown) \/ cls'.globalServers[i].ping > 0
    <3>1. \A i \in ToSet(built.ui.shown) : i \in ToSet(u.shown) \/ servers[i].ping > 0
      BY <1>2, <1>5 DEF Built
    <3>2. \A i \in ToSet(built.ui.shown) : i \in Index
      BY <1>6 DEF UI, ToSet
    <3> QED  BY <1>3, <1>7, <1>8, <3>1, <3>2
  <2>2. ui.shown \in Seq(Index) /\ ui'.shown \in Seq(Index) /\ RowsNamed(cls, ui.shown)
    BY <1>3, <1>6 DEF IInv, UI
  <2>3. \A i \in ToSet(ui.shown) : cls'.globalServers[i].adr = cls.globalServers[i].adr
    BY <1>14, <2>2 DEF ToSet
  <2> QED  BY <1>1, <1>8, <1>9, <2>1, <2>2, <2>3, RowsStay
<1>11. IInv'
  BY <1>17, <1>3, <1>6, <1>8, <1>9, <1>10, <1>15, <1>16 DEF IInv
<1>12. KeepsOrder
  BY <1>3, <1>6, <1>8 DEF KeepsOrder
<1>13. ~Stops
  BY <1>3, <1>6 DEF Stops
<1> QED  BY <1>11, <1>12, <1>13 DEF Kept, ForgetsNone

(* RefreshFilter and UpdateFilter.                                         *)
LEMMA FilterKept ==
  ASSUME IInv, RefreshFilter \/ UpdateFilter
  PROVE  Kept
<1>1. cls \in Cls /\ cls.globalServers \in Servers /\ ui \in UI /\ commands \in Nat /\ Own(cls.globalServers)
  BY DEF IInv, Cls
<1>2. CASE RefreshFilter
  <2> DEFINE servers == LAN_ResetPings(cls.globalServers)
             u == [ui EXCEPT !.refreshActive = TRUE, !.refreshDue = FALSE]
  <2>1. /\ servers \in Servers
        /\ \A i \in Index : /\ servers[i].visible = cls.globalServers[i].visible
                            /\ servers[i].adr = cls.globalServers[i].adr /\ servers[i].ping = -1
    BY <1>1, ResetIs
  <2>2. Rebuild(servers, u) /\ commands' = commands + 1
    BY <1>2 DEF RefreshFilter, Give
  <2> HIDE DEF servers
  <2>3. Own(servers)
    BY <2>1 DEF Own
  <2>4. u \in UI /\ u.shown = ui.shown /\ u.unused = ui.unused /\ u.refreshActive
    BY <1>1 DEF UI
  <2> HIDE DEF u
  <2> QED  BY <2>1, <2>2, <2>3, <2>4, RebuildKept
<1>3. CASE UpdateFilter
  <2>1. Rebuild(cls.globalServers, ui) /\ commands' = commands + 1
    BY <1>1, <1>3 DEF UpdateFilter, Give
  <2> QED  BY <1>1, <2>1, RebuildKept
<1> QED  BY <1>2, <1>3

(* The rows are sorted by qsort.                                           *)
LEMMA ServerSortKept ==
  ASSUME IInv, NEW key \in {"ping", "host"}, ServerSort(key)
  PROVE  Kept
<1> DEFINE turned == [ui EXCEPT !.sortKey = key,
                                !.sortDir = IF key = ui.sortKey THEN ~ui.sortDir ELSE ui.sortDir]
<1>1. cls \in Cls /\ ui \in UI /\ commands \in Nat /\ Hidden(cls.globalServers, ui.shown) /\ Filled(ui)
  BY DEF IInv
<1>2. PICK rows \in SetToSeqs(ToSet(ui.shown)) :
        /\ Ordered(cls.globalServers, [turned EXCEPT !.shown = rows])
        /\ ui' = [turned EXCEPT !.shown = rows]
  BY DEF ServerSort
<1>3. cls' = cls /\ pinglist' = pinglist /\ network' = network /\ commands' = commands + 1
  BY DEF ServerSort, Give
<1>4. turned \in UI /\ turned.refreshActive = ui.refreshActive /\ turned.unused = ui.unused
  BY <1>1 DEF UI
<1>5. /\ rows \in Seq(Index) /\ IsInjective(rows) /\ \A m \in DOMAIN rows : rows[m] \in ToSet(ui.shown)
      /\ Len(rows) = Len(ui.shown)
  <2>1. ToSet(ui.shown) \subseteq Index
    BY <1>1 DEF UI, ToSet
  <2>2. Cardinality(ToSet(ui.shown)) \in Nat
    <3>1. IsFiniteSet(Index)
      BY Interval, BrowserAssumption DEF Index
    <3> QED  BY <2>1, <3>1, FS_Subset, FS_CardinalityType
  <2>3. rows \in [1 .. Cardinality(ToSet(ui.shown)) -> ToSet(ui.shown)] /\ IsInjective(rows)
    BY <1>2 DEF SetToSeqs, IsInjective
  <2>4. Cardinality(ToSet(ui.shown)) = Len(ui.shown)
    <3> DEFINE places == 1 .. Len(ui.shown)
    <3>1. ui.shown \in [places -> Index] /\ Len(ui.shown) \in Nat /\ IsInjective(ui.shown)
      BY <1>1 DEF UI, Hidden
    <3>2. IsFiniteSet(places) /\ Cardinality(places) = Len(ui.shown)
      BY <3>1, Interval
    <3> HIDE DEF places
    <3>3. \A x \in ToSet(ui.shown) : \E m \in places : ui.shown[m] = x
      BY <3>1 DEF ToSet
    <3>4. ui.shown \in [places -> ToSet(ui.shown)] /\ \A m, n \in places : ui.shown[m] = ui.shown[n] => m = n
      BY <3>1 DEF ToSet, IsInjective
    <3>5. ui.shown \in Surjection(places, ToSet(ui.shown)) /\ ui.shown \in Injection(places, ToSet(ui.shown))
      BY <3>3, <3>4 DEF Surjection, Injection, IsInjective
    <3> QED  BY <3>2, <3>5, FS_Surjection
  <2> QED  BY <2>1, <2>2, <2>3, <2>4
<1> HIDE DEF turned
<1>6. ui' \in UI /\ ui'.shown = rows /\ ui'.refreshActive = ui.refreshActive /\ Filled(ui')
  BY <1>1, <1>2, <1>4, <1>5 DEF UI, Filled
<1>7. Hidden(cls.globalServers, rows)
  BY <1>1, <1>5 DEF Hidden, ToSet
<1>10. OneRequest(cls', network', commands')
  <2>1. SameList(cls, cls)
    BY DEF SameList
  <2>2. /\ network \in SUBSET (Packet \X Nat) /\ OneRequest(cls, network, commands)
        /\ commands' \in Nat /\ commands <= commands'
    BY <1>1, <1>3 DEF IInv
  <2> QED  BY <1>1, <1>3, <2>1, <2>2, OneSame
<1>11. RowsNamed(cls, rows)
  <2>1. ui.shown \in Seq(Index) /\ RowsNamed(cls, ui.shown) /\ Own(cls.globalServers)
    BY DEF IInv, UI
  <2>2. \A i \in ToSet(rows) : i \in ToSet(ui.shown)
    BY <1>5 DEF ToSet
  <2> QED  BY <1>1, <1>5, <2>1, <2>2, RowsStay
<1>8. IInv'
  BY <1>1, <1>3, <1>6, <1>7, <1>10, <1>11 DEF IInv
<1>9. KeepsOrder
  BY <1>2, <1>3 DEF KeepsOrder
<1> QED  BY <1>6, <1>8, <1>9 DEF Kept, ForgetsNone, Stops

(* A query of the player.                                                  *)
LEMMA PingKept ==
  ASSUME IInv, NEW a \in Typed, Ping(a)
  PROVE  Kept
<1>1. /\ cls \in Cls /\ cls.globalServers \in Servers /\ ui \in UI /\ commands \in Nat
      /\ pinglist \in [Slot -> PingRequest]
      /\ Own(cls.globalServers) /\ OwnAnswers(pinglist) /\ Named(cls) /\ Hidden(cls.globalServers, ui.shown)
  BY DEF IInv, Cls
<1>2. PICK j \in FreePing : pinglist' = [pinglist EXCEPT ![j] = Query(a, @)]
  BY DEF Ping
<1> DEFINE servers == CL_ClearServerPing(cls.globalServers, a)
<1>3. /\ cls' = [cls EXCEPT !.globalServers = servers]
      /\ ui' = ui /\ network' = network /\ commands' = commands + 1
  BY DEF Ping, Give
<1>4. j \in Slot
  <2> DEFINE reusable == {k \in Slot : Reusable(pinglist[k])}
  <2>1. CASE reusable = {}
    BY <1>2, <2>1 DEF FreePing
  <2>2. CASE reusable # {}
    <3>1. reusable \subseteq Nat
      BY DEF Slot
    <3>2. PICK k \in reusable : \A l \in reusable : k <= l
      BY <2>2, <3>1, LeastNat
    <3>3. j = CHOOSE l \in reusable : \A m \in reusable : l <= m
      BY <1>2, <2>2 DEF FreePing
    <3> HIDE DEF reusable
    <3>4. j \in reusable
      BY <3>2, <3>3
    <3> QED  BY <3>4 DEF reusable
  <2> QED  BY <2>1, <2>2
<1>5. /\ Query(a, pinglist[j]) \in PingRequest /\ Query(a, pinglist[j]).time = 0
  BY <1>1, <1>4, QueryIs, BrowserAssumption DEF Address
<1>6. pinglist' \in [Slot -> PingRequest] /\ OwnAnswers(pinglist')
  BY <1>1, <1>2, <1>4, <1>5 DEF OwnAnswers
<1>7. ASSUME NEW i \in Index
      PROVE  /\ servers[i] \in ServerInfo
             /\ servers[i].visible = cls.globalServers[i].visible
             /\ servers[i].adr = cls.globalServers[i].adr
             /\ servers[i] = cls.globalServers[i] \/ servers[i].ping = 0
  <2>1. cls.globalServers[i] \in ServerInfo /\ 0 \in -1 .. MaxPing
    BY <1>1, BrowserAssumption DEF Servers
  <2>2. servers[i] = IF cls.globalServers[i].adr = a
                     THEN [cls.globalServers[i] EXCEPT !.ping = 0] ELSE cls.globalServers[i]
    BY DEF CL_ClearServerPing
  <2> HIDE DEF servers
  <2> QED  BY <2>1, <2>2 DEF ServerInfo
<1>8. servers \in Servers
  <2>1. servers = [i \in Index |-> servers[i]]
    BY DEF CL_ClearServerPing
  <2> HIDE DEF servers
  <2> QED  BY <1>7, <2>1 DEF Servers
<1> HIDE DEF servers
<1>9. /\ cls' \in Cls /\ cls'.globalServers = servers /\ cls'.numglobalservers = cls.numglobalservers
      /\ cls'.additional = cls.additional /\ cls'.requests = cls.requests
  BY <1>1, <1>3, <1>8 DEF Cls
<1>10. Own(cls'.globalServers) /\ Named(cls')
  BY <1>1, <1>7, <1>9 DEF Own, Named
<1>11. Hidden(cls'.globalServers, ui'.shown)
  <2>1. \A m \in DOMAIN ui.shown : ui.shown[m] \in Index
    BY <1>1 DEF UI
  <2> QED  BY <1>1, <1>3, <1>7, <1>9, <2>1 DEF Hidden
<1>13. OneRequest(cls', network', commands') /\ RowsNamed(cls', ui'.shown)
  <2>1. \A i \in Index : cls'.globalServers[i].adr = cls.globalServers[i].adr
    BY <1>7, <1>9
  <2>2. SameList(cls, cls')
    BY <1>1, <1>9, <2>1, SameAddresses
  <2>3. /\ network \in SUBSET (Packet \X Nat) /\ OneRequest(cls, network, commands) /\ commands \in Nat
        /\ commands' \in Nat /\ commands <= commands'
    BY <1>3 DEF IInv
  <2>4. OneRequest(cls', network', commands')
    BY <1>3, <2>2, <2>3, OneSame
  <2>5. ui.shown \in Seq(Index) /\ RowsNamed(cls, ui.shown)
    BY DEF IInv, UI
  <2>6. RowsNamed(cls', ui.shown)
    BY <1>1, <1>9, <2>1, <2>5, RowsSame
  <2> QED  BY <1>3, <2>4, <2>6
<1>12. IInv'
  BY <1>1, <1>3, <1>6, <1>9, <1>10, <1>11, <1>13 DEF IInv, Bounded
<1> QED  BY <1>1, <1>3, <1>12, SameRows DEF Kept, ForgetsNone, Stops

(* A request by hand.                                                      *)
LEMMA GlobalServersKept ==
  ASSUME IInv, NEW masterNum \in {0, 1}, GlobalServers(masterNum)
  PROVE  Kept
<1>1. /\ cls \in Cls /\ ui \in UI /\ commands \in Nat
      /\ Own(cls.globalServers) /\ Hidden(cls.globalServers, ui.shown)
  BY DEF IInv
<1>2. /\ cls' = [cls EXCEPT !.numglobalservers = -1, !.masterNum = masterNum]
      /\ pinglist' = pinglist /\ ui' = ui
      /\ commands' = commands + 1
  BY DEF GlobalServers, Give
<1>4. /\ cls' \in Cls /\ cls'.globalServers = cls.globalServers /\ cls'.numglobalservers = -1
      /\ cls'.additional = cls.additional /\ cls'.requests = cls.requests
  <2>1. -1 \in -1 .. MAX_GLOBAL_SERVERS
    BY BrowserAssumption
  <2> QED  BY <1>1, <1>2, <2>1 DEF Cls
<1>3. network' \subseteq Packet \X Nat /\ OneRequest(cls', network', commands')
  <2>1. Request
    BY DEF GlobalServers
  <2> QED  BY <1>2, <1>4, <2>1, RequestIs
<1>8. RowsNamed(cls', ui'.shown)
  <2>1. \A m \in DOMAIN ui.shown : ui.shown[m] \in Index
    BY <1>1 DEF UI
  <2> QED  BY <1>2, <1>4, <2>1 DEF RowsNamed, Index
<1>5. Named(cls')
  BY <1>4 DEF Named, Index
<1>6. pinglist' \in [Slot -> PingRequest] /\ OwnAnswers(pinglist')
  BY <1>2 DEF IInv
<1>7. IInv'
  BY <1>1, <1>2, <1>3, <1>4, <1>5, <1>6, <1>8 DEF IInv, Bounded
<1> QED  BY <1>1, <1>2, <1>7, SameRows DEF Kept, ForgetsNone, Stops

(* The clock touches neither the list nor the rows.                        *)
LEMMA ClockKept ==
  ASSUME IInv, DisplayDue \/ RefreshDue \/ UNCHANGED browserVars
  PROVE  Kept
<1>1. ui \in UI /\ IInv
  BY DEF IInv
<1>2. /\ cls' = cls /\ pinglist' = pinglist /\ network' = network /\ commands' = commands
      /\ \/ ui' = [ui EXCEPT !.displayDue = TRUE]
         \/ ui' = [ui EXCEPT !.refreshDue = TRUE]
         \/ ui' = ui
  BY DEF DisplayDue, RefreshDue, browserVars
<1>3. ui' \in UI /\ ui'.shown = ui.shown /\ ui'.unused = ui.unused /\ ui'.refreshActive = ui.refreshActive
  BY <1>1, <1>2 DEF UI
<1>4. IInv'
  BY <1>2, <1>3 DEF IInv, Filled
<1> QED  BY <1>3, <1>4, SameRows DEF Kept, ForgetsNone, Stops

(* A query grows old.                                                      *)
LEMMA QueryExpiresKept ==
  ASSUME IInv, NEW j \in Slot, QueryExpires(j)
  PROVE  Kept
<1>1. /\ pinglist \in [Slot -> PingRequest] /\ OwnAnswers(pinglist) /\ ui \in UI
      /\ pinglist' = [pinglist EXCEPT ![j].expired = TRUE]
      /\ cls' = cls /\ ui' = ui /\ network' = network /\ commands' = commands
  BY DEF IInv, QueryExpires
<1> DEFINE slot == [pinglist[j] EXCEPT !.expired = TRUE]
<1>2. /\ slot \in PingRequest /\ slot.adr = pinglist[j].adr /\ slot.time = pinglist[j].time
      /\ slot.info = pinglist[j].info
  BY <1>1 DEF PingRequest
<1>3. pinglist' = [pinglist EXCEPT ![j] = slot]
  BY <1>1
<1> HIDE DEF slot
<1>4. pinglist' \in [Slot -> PingRequest] /\ OwnAnswers(pinglist')
  BY <1>1, <1>2, <1>3 DEF OwnAnswers
<1>5. IInv'
  BY <1>1, <1>4 DEF IInv
<1> QED  BY <1>1, <1>5, SameRows DEF Kept, ForgetsNone, Stops

(* The answer of a server.                                                 *)
LEMMA ServerInfoKept ==
  ASSUME IInv, NEW a \in Server, ServerInfoPacket(a)
  PROVE  Kept
<1>1. /\ cls \in Cls /\ cls.globalServers \in Servers /\ ui \in UI
      /\ pinglist \in [Slot -> PingRequest]
      /\ Own(cls.globalServers) /\ OwnAnswers(pinglist) /\ Named(cls) /\ Hidden(cls.globalServers, ui.shown)
  BY DEF IInv, Cls
<1>2. PICK j \in Slot, time \in 1 .. MaxPing :
        /\ pinglist' = [pinglist EXCEPT ![j].time = time, ![j].info = a]
        /\ cls' = [cls EXCEPT !.globalServers = CL_SetServerInfoByAddress(@, a, a, time)]
        /\ pinglist[j].adr = a
  BY DEF ServerInfoPacket
<1> DEFINE servers == CL_SetServerInfoByAddress(cls.globalServers, a, a, time)
           slot == [pinglist[j] EXCEPT !.time = time, !.info = a]
<1>3. ui' = ui /\ network' = network /\ commands' = commands
  BY DEF ServerInfoPacket
<1>4. time \in 0 .. MaxPing /\ a \in Server \cup {NoServer} /\ a \in Address
  BY BrowserAssumption DEF Address
<1>5. /\ servers \in Servers
      /\ \A i \in Index : servers[i].visible = cls.globalServers[i].visible
                          /\ servers[i].adr = cls.globalServers[i].adr
      /\ Own(servers)
  BY <1>1, <1>4, SetInfoIs
<1>6. slot \in PingRequest /\ slot.adr = a /\ slot.info = a
  BY <1>1, <1>2, <1>4 DEF PingRequest
<1>7. pinglist' = [pinglist EXCEPT ![j] = slot]
  BY <1>1, <1>2
<1> HIDE DEF servers, slot
<1>8. pinglist' \in [Slot -> PingRequest] /\ OwnAnswers(pinglist')
  BY <1>1, <1>6, <1>7 DEF OwnAnswers
<1>9. /\ cls' \in Cls /\ cls'.globalServers = servers /\ cls'.numglobalservers = cls.numglobalservers
      /\ cls'.additional = cls.additional /\ cls'.requests = cls.requests
  BY <1>1, <1>2, <1>5 DEF Cls, servers
<1>10. Named(cls')
  BY <1>1, <1>5, <1>9 DEF Named
<1>11. Hidden(cls'.globalServers, ui'.shown)
  <2>1. \A m \in DOMAIN ui.shown : ui.shown[m] \in Index
    BY <1>1 DEF UI
  <2> QED  BY <1>1, <1>3, <1>5, <1>9, <2>1 DEF Hidden
<1>13. OneRequest(cls', network', commands') /\ RowsNamed(cls', ui'.shown)
  <2>1. \A i \in Index : cls'.globalServers[i].adr = cls.globalServers[i].adr
    BY <1>5, <1>9
  <2>2. SameList(cls, cls')
    BY <1>1, <1>9, <2>1, SameAddresses
  <2>3. /\ network \in SUBSET (Packet \X Nat) /\ OneRequest(cls, network, commands) /\ commands \in Nat
        /\ commands' \in Nat /\ commands <= commands'
    BY <1>3 DEF IInv
  <2>4. OneRequest(cls', network', commands')
    BY <1>3, <2>2, <2>3, OneSame
  <2>5. ui.shown \in Seq(Index) /\ RowsNamed(cls, ui.shown)
    BY DEF IInv, UI
  <2>6. RowsNamed(cls', ui.shown)
    BY <1>1, <1>9, <2>1, <2>5, RowsSame
  <2> QED  BY <1>3, <2>4, <2>6
<1>12. IInv'
  BY <1>1, <1>3, <1>5, <1>8, <1>9, <1>10, <1>11, <1>13 DEF IInv, Bounded
<1> QED  BY <1>1, <1>3, <1>12, SameRows DEF Kept, ForgetsNone, Stops

(* The first entries of a packet.                                          *)
LEMMA FirstOfIs ==
  ASSUME NEW entries \in Seq(Server), NEW n \in Nat
  PROVE  /\ FirstOf(n, entries) \in Seq(Server)
         /\ Len(FirstOf(n, entries)) <= n /\ Len(FirstOf(n, entries)) <= Len(entries)
         /\ \A m \in 1 .. Len(FirstOf(n, entries)) : FirstOf(n, entries)[m] = entries[m]
<1>1. Len(entries) \in Nat
  OBVIOUS
<1>2. CASE Len(entries) <= n
  BY <1>1, <1>2 DEF FirstOf
<1>3. CASE ~(Len(entries) <= n)
  <2> DEFINE t == SubSeq(entries, 1, n)
  <2>1. \A m \in 1 .. n : entries[m] \in Server
    BY <1>1, <1>3
  <2>2. /\ t \in Seq(Server) /\ Len(t) = IF 1 <= n THEN n - 1 + 1 ELSE 0
        /\ \A m \in 1 .. n - 1 + 1 : t[m] = entries[1 + m - 1]
    BY <2>1, SubSeqProperties
  <2>3. FirstOf(n, entries) = t
    BY <1>3 DEF FirstOf
  <2> HIDE DEF t
  <2>4. Len(t) = n
    BY <2>2
  <2>5. ASSUME NEW m \in 1 .. Len(t) PROVE t[m] = entries[m]
    <3>1. m \in 1 .. n - 1 + 1 /\ 1 + m - 1 = m
      BY <2>4
    <3> QED  BY <2>2, <3>1
  <2> QED  BY <1>1, <1>3, <2>2, <2>3, <2>4, <2>5
<1> QED  BY <1>2, <1>3

(* The entries of entries that do not fit behind old servers.              *)
Rest(entries, n) == SubSeq(entries, n + 1, Len(entries))

(* They are the last ones.                                                 *)
LEMMA RestIs ==
  ASSUME NEW entries \in Seq(Server), NEW n \in 0 .. Len(entries)
  PROVE  /\ Rest(entries, n) \in Seq(Server)
         /\ Len(Rest(entries, n)) = Len(entries) - n
         /\ \A m \in 1 .. Len(entries) - n : Rest(entries, n)[m] = entries[n + m]
<1> DEFINE t == SubSeq(entries, n + 1, Len(entries))
<1>1. Len(entries) \in Nat
  OBVIOUS
<1>2. \A m \in n + 1 .. Len(entries) : entries[m] \in Server
  BY <1>1
<1>3. /\ t \in Seq(Server)
      /\ Len(t) = IF n + 1 <= Len(entries) THEN Len(entries) - (n + 1) + 1 ELSE 0
      /\ \A m \in 1 .. Len(entries) - (n + 1) + 1 : t[m] = entries[n + 1 + m - 1]
  BY <1>1, <1>2, SubSeqProperties
<1>4. Rest(entries, n) = t
  BY DEF Rest
<1> HIDE DEF t
<1>5. Len(t) = Len(entries) - n
  BY <1>1, <1>3
<1>6. ASSUME NEW m \in 1 .. Len(entries) - n PROVE t[m] = entries[n + m]
  <2>1. m \in 1 .. Len(entries) - (n + 1) + 1 /\ n + 1 + m - 1 = n + m
    BY <1>1
  <2> QED  BY <1>3, <2>1
<1> QED  BY <1>3, <1>4, <1>5, <1>6

(* What is read back is what was written, or another address.              *)
LEMMA ReadBackIs ==
  ASSUME NEW entries \in Seq(Address), NEW t \in ReadBack(entries)
  PROVE  /\ t \in Seq(Address) /\ Len(t) = Len(entries)
         /\ \A k \in 1 .. Len(entries) : t[k] \in {entries[k], Garbled}
<1>1. PICK lost \in SUBSET (MAX_ADDRESSES + 2 .. Len(entries)) :
        t = [k \in DOMAIN entries |-> IF k = MAX_ADDRESSES + 1 \/ k \in lost THEN Garbled ELSE entries[k]]
  BY DEF ReadBack
<1>2. DOMAIN entries = 1 .. Len(entries) /\ Len(entries) \in Nat
  OBVIOUS
<1>3. ASSUME NEW k \in 1 .. Len(entries) PROVE t[k] \in {entries[k], Garbled} /\ t[k] \in Address
  BY <1>1, <1>2 DEF Address
<1>4. t \in [1 .. Len(entries) -> Address]
  BY <1>1, <1>2, <1>3
<1>5. t \in Seq(Address) /\ Len(t) = Len(entries)
  BY <1>2, <1>4
<1> QED  BY <1>3, <1>5

(* A packet of the master: the list has a place for every server it takes  *)
(* from the packet.                                                        *)
LEMMA ServersResponseKept ==
  ASSUME IInv, NEW p \in network, ServersResponse(p)
  PROVE  Kept
<1> DEFINE first == cls.numglobalservers = -1
           old == IF first THEN 0 ELSE cls.numglobalservers
           kept == IF first THEN <<>> ELSE cls.additional
           named == FirstOf(MAX_SERVERSPERPACKET, Parsed(p[1]))
           count == AtMost(old + Len(named), MAX_GLOBAL_SERVERS)
           room == cls.masterNum = 0 /\ Len(kept) < MAX_ADDRESSES
           more == IF room THEN kept \o Rest(named, count - old) ELSE kept
           servers == [i \in Index |->
                         IF i \in old + 1 .. count THEN CL_InitServerInfo(cls.globalServers[i], named[i - old])
                         ELSE cls.globalServers[i]]
           masterNum == IF Len(more) > MAX_ADDRESSES THEN 1 ELSE cls.masterNum
           requests == (IF first THEN {} ELSE cls.requests) \cup {p[2]}
<1>1. /\ cls \in Cls /\ cls.globalServers \in Servers /\ ui \in UI
      /\ cls.additional \in Seq(Address) /\ cls.numglobalservers \in -1 .. MAX_GLOBAL_SERVERS
      /\ cls.masterNum \in {0, 1} /\ cls.requests \in SUBSET Nat
      /\ Own(cls.globalServers) /\ Named(cls) /\ Hidden(cls.globalServers, ui.shown)
      /\ Bounded(cls)
      /\ network \subseteq Packet \X Nat
  BY DEF IInv, Cls
<1>2. network' = network \ {p} /\ pinglist' = pinglist /\ ui' = ui /\ commands' = commands
  BY DEF ServersResponse
<1>17. PICK additional \in ReadBack(more) :
         cls' = [numglobalservers |-> count, globalServers |-> servers, additional |-> additional,
                 masterNum |-> masterNum, requests |-> requests]
  BY DEF ServersResponse, Rest
<1>3. p[1] \in Packet /\ p[2] \in Nat
  BY <1>1
<1>4. named \in Seq(Server) /\ Len(named) \in Nat /\ \A m \in 1 .. Len(named) : named[m] \in Server
  <2>1. Parsed(p[1]) \in Seq(Server)
    BY <1>3, ParsedIs
  <2>2. named \in Seq(Server)
    BY <2>1, FirstOfIs, BrowserAssumption
  <2> HIDE DEF named
  <2> QED  BY <2>2
<1>18. Len(named) <= MAX_SERVERSPERPACKET
  <2>1. Parsed(p[1]) \in Seq(Server)
    BY <1>3, ParsedIs
  <2> QED  BY <2>1, FirstOfIs, BrowserAssumption
<1>5. old \in 0 .. MAX_GLOBAL_SERVERS /\ (~first => old = cls.numglobalservers)
  BY <1>1, BrowserAssumption
<1>19. kept \in Seq(Address) /\ Len(kept) \in Nat /\ Len(kept) < MAX_ADDRESSES + MAX_SERVERSPERPACKET
  <2>1. <<>> \in Seq(Address) /\ Len(<<>>) = 0
    OBVIOUS
  <2>2. 0 < MAX_ADDRESSES + MAX_SERVERSPERPACKET
    BY BrowserAssumption
  <2>3. cls.additional \in Seq(Address) /\ Len(cls.additional) < MAX_ADDRESSES + MAX_SERVERSPERPACKET
    BY <1>1 DEF Bounded
  <2>4. kept \in Seq(Address) /\ Len(kept) < MAX_ADDRESSES + MAX_SERVERSPERPACKET
    BY <2>1, <2>2, <2>3
  <2> HIDE DEF kept
  <2> QED  BY <2>4
<1>20. masterNum \in {0, 1} /\ requests \in SUBSET Nat
  BY <1>1, <1>3
<1>22. /\ first => old = 0 /\ kept = <<>> /\ requests = {p[2]}
       /\ ~first => kept = cls.additional /\ requests = cls.requests \cup {p[2]}
  OBVIOUS
<1>23. \A m \in 1 .. Len(named) : named[m] = p[1].servers[m] /\ m \in DOMAIN p[1].servers
  <2>1. /\ Parsed(p[1]) \in Seq(Server) /\ Len(Parsed(p[1])) <= Len(p[1].servers)
        /\ \A m \in 1 .. Len(Parsed(p[1])) : Parsed(p[1])[m] = p[1].servers[m]
    BY <1>3, ParsedIs
  <2>2. /\ Len(named) <= Len(Parsed(p[1]))
        /\ \A m \in 1 .. Len(named) : named[m] = Parsed(p[1])[m]
    BY <2>1, FirstOfIs, BrowserAssumption
  <2> HIDE DEF named
  <2> DEFINE a == Len(named)
             b == Len(Parsed(p[1]))
             n == Len(p[1].servers)
  <2>3. a \in Nat /\ b \in Nat /\ n \in Nat /\ a <= b /\ b <= n /\ DOMAIN p[1].servers = 1 .. n
    BY <1>3, <1>4, <2>1, <2>2 DEF Packet
  <2> HIDE DEF a, b, n
  <2>4. \A m \in 1 .. a : m \in 1 .. b /\ m \in 1 .. n
    BY <2>3
  <2> QED  BY <2>1, <2>2, <2>3, <2>4 DEF a, b, n
<1> HIDE DEF named, first, old, kept, masterNum, requests
<1>6. count \in old .. MAX_GLOBAL_SERVERS /\ count <= old + Len(named)
  BY <1>4, <1>5, BrowserAssumption DEF AtMost
<1> HIDE DEF count
<1>7. count \in -1 .. MAX_GLOBAL_SERVERS /\ count \in Nat
  BY <1>5, <1>6, BrowserAssumption
<1>8. /\ additional \in Seq(Address) /\ Len(additional) < MAX_ADDRESSES + MAX_SERVERSPERPACKET
      /\ \A k \in DOMAIN additional :
           \/ additional[k] = Garbled
           \/ ~first /\ k \in DOMAIN cls.additional /\ additional[k] = cls.additional[k]
           \/ /\ k - Len(kept) + (count - old) \in count - old + 1 .. Len(named)
              /\ additional[k] = named[k - Len(kept) + (count - old)]
  <2> DEFINE rest == Rest(named, count - old)
  <2>1. count - old \in 0 .. Len(named)
    BY <1>4, <1>5, <1>6, BrowserAssumption
  <2>2. /\ rest \in Seq(Server) /\ Len(rest) = Len(named) - (count - old)
        /\ \A m \in 1 .. Len(named) - (count - old) : rest[m] = named[count - old + m]
    BY <1>4, <2>1, RestIs
  <2> HIDE DEF rest
  <2>3. rest \in Seq(Address) /\ Len(rest) \in Nat /\ Len(rest) <= MAX_SERVERSPERPACKET
    <3>1. rest \in Seq(Address)
      BY <2>2 DEF Address
    <3>2. Len(rest) <= Len(named)
      BY <1>4, <2>1, <2>2
    <3> QED  BY <1>4, <1>18, <2>2, <3>1, <3>2, BrowserAssumption
  <2>4. kept \o rest \in Seq(Address) /\ Len(kept \o rest) = Len(kept) + Len(rest)
    BY <1>19, <2>3, ConcatProperties
  <2>5. more \in Seq(Address) /\ Len(more) < MAX_ADDRESSES + MAX_SERVERSPERPACKET
    <3>1. CASE room
      <4>1. more = kept \o rest
        BY <3>1 DEF rest
      <4>2. Len(kept) < MAX_ADDRESSES /\ MAX_ADDRESSES \in Nat /\ MAX_SERVERSPERPACKET \in Nat
        BY <3>1, BrowserAssumption
      <4> HIDE DEF more
      <4>3. Len(more) < MAX_ADDRESSES + MAX_SERVERSPERPACKET
        BY <1>19, <2>3, <2>4, <4>1, <4>2
      <4> QED  BY <2>4, <4>1, <4>3
    <3>2. CASE ~room
      <4>1. more = kept
        BY <3>2
      <4> QED  BY <1>19, <4>1
    <3> QED  BY <3>1, <3>2
  <2>6. /\ additional \in Seq(Address) /\ Len(additional) = Len(more)
        /\ \A k \in 1 .. Len(more) : additional[k] \in {more[k], Garbled}
    <3> HIDE DEF more
    <3> QED  BY <2>5, ReadBackIs
  <2>7. ASSUME NEW k \in 1 .. Len(more)
        PROVE  \/ k \in 1 .. Len(kept) /\ more[k] = kept[k]
               \/ k - Len(kept) \in 1 .. Len(rest) /\ more[k] = rest[k - Len(kept)]
    <3>1. CASE room
      <4>1. more = kept \o rest
        BY <3>1 DEF rest
      <4> DEFINE K == Len(kept)
                 R == Len(rest)
      <4>2. K \in Nat /\ R \in Nat /\ k \in 1 .. K + R
        BY <1>19, <2>3, <2>4, <4>1
      <4>3. /\ \A m \in 1 .. K : (kept \o rest)[m] = kept[m]
            /\ \A m \in 1 .. R : (kept \o rest)[m + K] = rest[m]
        BY <1>19, <2>3, ConcatProperties
      <4> HIDE DEF more, K, R
      <4>4. k \in 1 .. K \/ (k - K \in 1 .. R /\ (k - K) + K = k)
        BY <4>2
      <4>5. \/ k \in 1 .. K /\ more[k] = kept[k]
            \/ k - K \in 1 .. R /\ more[k] = rest[k - K]
        BY <4>1, <4>3, <4>4
      <4> QED  BY <4>5 DEF K, R
    <3>2. CASE ~room
      <4>1. more = kept
        BY <3>2
      <4> QED  BY <4>1
    <3> QED  BY <3>1, <3>2
  <2>8. kept = <<>> \/ (~first /\ kept = cls.additional)
    BY <1>22
  <2> DEFINE a == count - old
             N == Len(named)
             K == Len(kept)
             R == Len(rest)
  <2>9. a \in Nat /\ N \in Nat /\ K \in Nat /\ a <= N /\ R = N - a
    BY <1>4, <1>19, <2>1, <2>2
  <2>10. ASSUME NEW k \in DOMAIN additional
         PROVE  \/ additional[k] = Garbled
                \/ ~first /\ k \in DOMAIN cls.additional /\ additional[k] = cls.additional[k]
                \/ k - K + a \in a + 1 .. N /\ additional[k] = named[k - K + a]
    <3>1. k \in 1 .. Len(more) /\ k \in Nat
      <4>1. DOMAIN additional = 1 .. Len(additional) /\ Len(additional) \in Nat
        BY <2>6
      <4> HIDE DEF more
      <4> QED  BY <2>6, <4>1
    <3>2. additional[k] = Garbled \/ additional[k] = more[k]
      BY <2>6, <3>1
    <3>3. \/ k \in 1 .. K /\ more[k] = kept[k]
          \/ k - K \in 1 .. R /\ more[k] = rest[k - K]
      BY <2>7, <3>1
    <3> HIDE DEF more
    <3>4. CASE additional[k] = more[k] /\ k \in 1 .. K /\ more[k] = kept[k]
      <4>1. kept # <<>>
        BY <3>4
      <4> QED  BY <1>1, <2>8, <3>4, <4>1
    <3>5. CASE additional[k] = more[k] /\ k - K \in 1 .. R /\ more[k] = rest[k - K]
      <4>1. rest[k - K] = named[a + (k - K)]
        BY <2>2, <2>9, <3>5
      <4> HIDE DEF a, N, K, R
      <4>2. a + (k - K) = k - K + a /\ k - K + a \in a + 1 .. N
        BY <2>9, <3>1, <3>5
      <4> QED  BY <3>5, <4>1, <4>2
    <3> QED  BY <3>2, <3>3, <3>4, <3>5
  <2> HIDE DEF more
  <2> QED  BY <2>5, <2>6, <2>10
<1>9. ASSUME NEW i \in Index
      PROVE  /\ servers[i] \in ServerInfo
             /\ servers[i].visible = cls.globalServers[i].visible
             /\ i \in old + 1 .. count => /\ servers[i].adr \in Server /\ servers[i].ping = -1
                                         /\ servers[i].adr = named[i - old]
             /\ i \notin old + 1 .. count => servers[i] = cls.globalServers[i]
  <2>1. cls.globalServers[i] \in ServerInfo
    BY <1>1 DEF Servers
  <2>2. CASE i \in old + 1 .. count
    <3>1. i - old \in 1 .. Len(named)
      BY <1>4, <1>5, <1>6, <2>2, BrowserAssumption
    <3>2. named[i - old] \in Server /\ named[i - old] \in Address
      BY <1>4, <3>1 DEF Address
    <3>3. servers[i] = CL_InitServerInfo(cls.globalServers[i], named[i - old])
      BY <2>2
    <3> QED  BY <2>1, <2>2, <3>2, <3>3, InitInfoIs
  <2>3. CASE i \notin old + 1 .. count
    BY <2>1, <2>3
  <2> QED  BY <2>2, <2>3
<1>10. servers \in Servers
  <2>1. servers = [i \in Index |-> servers[i]]
    OBVIOUS
  <2> HIDE DEF servers
  <2> QED  BY <1>9, <2>1 DEF Servers
<1> HIDE DEF servers
<1>11. /\ cls' \in Cls /\ cls'.globalServers = servers /\ cls'.numglobalservers = count
       /\ cls'.additional = additional /\ cls'.requests = requests
  BY <1>7, <1>8, <1>10, <1>17, <1>20 DEF Cls
<1>12. Own(servers)
  BY <1>1, <1>9 DEF Own
<1>13. Named(cls')
  <2>1. ASSUME NEW i \in Index, i <= count PROVE servers[i].adr # NoServer
    <3>1. CASE i \in old + 1 .. count
      BY <1>9, <3>1, BrowserAssumption
    <3>2. CASE i \notin old + 1 .. count
      <4>1. i <= old /\ i \in Nat \ {0}
        BY <1>5, <1>7, <2>1, <3>2 DEF Index
      <4>2. ~first
        BY <4>1 DEF old
      <4> QED  BY <1>1, <1>5, <1>9, <3>2, <4>1, <4>2 DEF Named
    <3> QED  BY <3>1, <3>2
  <2> QED  BY <1>11, <2>1 DEF Named
<1>14. Hidden(cls'.globalServers, ui'.shown)
  <2>1. \A m \in DOMAIN ui.shown : ui.shown[m] \in Index
    BY <1>1 DEF UI
  <2> QED  BY <1>1, <1>2, <1>9, <1>11, <2>1 DEF Hidden
<1>15. pinglist' \in [Slot -> PingRequest] /\ OwnAnswers(pinglist') /\ commands' \in Nat
       /\ network' \subseteq Packet \X Nat /\ Filled(ui')
  BY <1>1, <1>2 DEF IInv
<1>21. Bounded(cls')
  BY <1>8, <1>11 DEF Bounded
<1>24. Grows(cls, cls', old, count, Len(kept), named)
  <2>1. ASSUME NEW i \in Index, i <= old
        PROVE  /\ cls.numglobalservers # -1 /\ i <= cls.numglobalservers
               /\ cls'.globalServers[i].adr = cls.globalServers[i].adr
    <3>1. i \in Nat \ {0} /\ ~first
      BY <1>22, <2>1 DEF Index
    <3>2. i \notin old + 1 .. count
      BY <1>5, <1>7, <2>1, <3>1
    <3> QED  BY <1>5, <1>9, <1>11, <2>1, <3>1, <3>2 DEF first
  <2>2. \A i \in Index : i \in old + 1 .. count => cls'.globalServers[i].adr = named[i - old]
    BY <1>9, <1>11
  <2>3. ~first => cls.numglobalservers # -1
    BY DEF first
  <2> QED  BY <1>8, <1>11, <2>1, <2>2, <2>3 DEF Grows
<1>25. old \in Nat /\ count \in Nat /\ old <= count /\ count <= old + Len(named)
  BY <1>5, <1>6, <1>7, BrowserAssumption
<1>26. OneRequest(cls, network, commands)
  BY DEF IInv
<1>27. IsInjective(named) /\ ToSet(named) \subseteq ToSet(p[1].servers)
  <2>1. IsInjective(p[1].servers) /\ DOMAIN named = 1 .. Len(named)
    BY <1>4, <1>26 DEF OneRequest
  <2> QED  BY <1>23, <2>1 DEF IsInjective, ToSet
<1>28. /\ Known(cls') \subseteq Known(cls) \cup ToSet(named) \cup {Garbled}
       /\ (first => Known(cls) = {} /\ Different(cls))
  <2>1. Known(cls') \subseteq Known(cls) \cup ToSet(named) \cup {Garbled}
    BY <1>1, <1>4, <1>11, <1>19, <1>24, <1>25, GrownKnown
  <2> QED  BY <2>1 DEF first, Known, Different
<1>29. ASSUME NEW r, requests \subseteq {r} PROVE p[2] = r /\ (~first => cls.requests \subseteq {r})
  BY <1>22, <1>29
<1>30. ASSUME NEW r, requests \subseteq {r} PROVE Different(cls')
  <2>1. Different(cls) /\ ToSet(named) \cap Known(cls) = {}
    <3>1. CASE first
      BY <1>28, <3>1
    <3>2. CASE ~first
      <4>1. cls.requests \subseteq {p[2]}
        BY <1>29, <1>30, <3>2
      <4>2. ToSet(p[1].servers) \cap Known(cls) = {} /\ Different(cls)
        BY <1>26, <4>1 DEF OneRequest
      <4> QED  BY <1>27, <4>2
    <3> QED  BY <3>1, <3>2
  <2> QED  BY <1>1, <1>4, <1>11, <1>19, <1>24, <1>25, <1>27, <2>1, GrownDifferent
<1>31. ASSUME NEW q \in network', requests \subseteq {q[2]}
       PROVE  ToSet(q[1].servers) \cap Known(cls') = {}
  <2>1. q \in network /\ q # p /\ q[2] = p[2]
    BY <1>2, <1>29, <1>31
  <2>2. ToSet(q[1].servers) \cap ToSet(p[1].servers) = {}
    BY <1>26, <2>1 DEF OneRequest, Apart
  <2>3. ToSet(q[1].servers) \cap Known(cls) = {}
    <3>1. CASE first
      BY <1>28, <3>1
    <3>2. CASE ~first
      <4>1. cls.requests \subseteq {q[2]}
        BY <1>29, <1>31, <3>2
      <4> QED  BY <1>26, <2>1, <4>1 DEF OneRequest
    <3> QED  BY <3>1, <3>2
  <2>4. Garbled \notin ToSet(q[1].servers)
    <3>1. q[1].servers \in Seq(Server)
      BY <1>1, <2>1 DEF Packet
    <3>2. ToSet(q[1].servers) \subseteq Server
      BY <3>1 DEF ToSet
    <3> QED  BY <3>2, BrowserAssumption
  <2> QED  BY <1>27, <1>28, <2>2, <2>3, <2>4
<1>32. OneRequest(cls', network', commands')
  <2>1. requests \subseteq 0 .. commands - 1
    <3>1. p[2] < commands /\ cls.requests \subseteq 0 .. commands - 1 /\ commands \in Nat
      BY <1>26 DEF OneRequest, IInv
    <3>2. p[2] \in 0 .. commands - 1
      BY <1>3, <3>1
    <3> QED  BY <1>22, <3>1, <3>2
  <2>2. \A q \in network' : q \in network /\ q[2] < commands /\ IsInjective(q[1].servers)
    BY <1>2, <1>26 DEF OneRequest
  <2>3. Apart(network')
    BY <1>2, <1>26 DEF OneRequest, Apart
  <2> QED  BY <1>2, <1>11, <1>30, <1>31, <2>1, <2>2, <2>3 DEF OneRequest
<1>33. RowsNamed(cls', ui'.shown)
  <2> SUFFICES ASSUME NEW m \in DOMAIN ui.shown, ui.shown[m] <= count
               PROVE  cls'.globalServers[ui.shown[m]].adr # Garbled
    BY <1>2, <1>11 DEF RowsNamed
  <2> DEFINE i == ui.shown[m]
  <2>1. i \in Index /\ i \in Nat \ {0}
    <3>1. ui.shown \in Seq(Index)
      BY <1>1 DEF UI
    <3>2. i \in Index
      BY <3>1
    <3> QED  BY <3>2 DEF Index
  <2>2. CASE i \in old + 1 .. count
    BY <1>9, <1>11, <2>1, <2>2, BrowserAssumption
  <2>3. CASE i \notin old + 1 .. count
    <3>1. i <= old
      BY <1>5, <1>7, <2>1, <2>3
    <3>2. ~first
      BY <1>22, <2>1, <3>1
    <3>3. cls.globalServers[i].adr # Garbled
      BY <1>5, <3>1, <3>2 DEF IInv, RowsNamed
    <3> QED  BY <1>9, <1>11, <2>1, <2>3, <3>3
  <2> QED  BY <2>2, <2>3
<1>16. IInv'
  BY <1>1, <1>2, <1>11, <1>12, <1>13, <1>14, <1>15, <1>21, <1>32, <1>33 DEF IInv
<1> QED  BY <1>1, <1>2, <1>16, SameRows DEF Kept, ForgetsNone, Stops

(* A frame: the queries, the answers, and the rows.                        *)
LEMMA DoServerRefreshKept ==
  ASSUME IInv, DoServerRefresh
  PROVE  Kept
<1> DEFINE asked == AskServers
           updated == CollectAnswers(asked)
           ends == ~updated.status /\ cls.numglobalservers # -1
           refreshing == IF updated.status THEN [ui EXCEPT !.refreshDue = FALSE] ELSE ui
           force == IF ends THEN 2 ELSE 0
           last == UI_BuildServerDisplayList(updated.cls, refreshing, force)
<1>1. /\ cls' = [updated.cls EXCEPT !.globalServers = last.servers]
      /\ pinglist' = updated.pings
      /\ ui' = [last.ui EXCEPT !.refreshActive = ~ends]
      /\ network' = network /\ commands' = commands
  BY DEF DoServerRefresh
<1>2. /\ cls \in Cls /\ ui \in UI /\ pinglist \in [Slot -> PingRequest]
      /\ Own(cls.globalServers) /\ OwnAnswers(pinglist) /\ Named(cls) /\ Hidden(cls.globalServers, ui.shown)
      /\ Filled(ui) /\ Bounded(cls)
  BY DEF IInv
<1>3. /\ asked \in Asking(cls)
      /\ Quiet(asked) => \A i \in Index : i <= cls.numglobalservers => ~Forgotten(cls, asked, i)
  BY <1>2, AskLoop DEF AskServers
<1> HIDE DEF asked
<1>4. /\ asked \in Update /\ asked.cls.numglobalservers = cls.numglobalservers
      /\ \A i \in Index : asked.cls.globalServers[i].visible = cls.globalServers[i].visible
      /\ Own(asked.cls.globalServers) /\ OwnAnswers(asked.pings) /\ Named(asked.cls)
      /\ QueueCount(asked.pings) <= asked.slots
      /\ Len(asked.cls.additional) <= Len(cls.additional)
  BY <1>3 DEF Asking
<1>22. /\ SameList(cls, asked.cls)
       /\ \A i \in Index : ~cls.globalServers[i].visible =>
                             asked.cls.globalServers[i].adr = cls.globalServers[i].adr
  BY <1>3 DEF Asking
<1> DEFINE counted == [asked EXCEPT !.status = asked.status \/ asked.slots > 0]
<1>5. /\ counted \in Update /\ counted.cls = asked.cls /\ counted.pings = asked.pings
      /\ counted.status <=> asked.status \/ asked.slots > 0
  <2>1. asked.status \in BOOLEAN /\ (asked.status \/ asked.slots > 0) \in BOOLEAN
    BY <1>4 DEF Update
  <2> QED  BY <1>4, <2>1 DEF Update
<1>6. updated = Loop(Collect, counted, MAX_PINGREQUESTS)
  BY DEF CollectAnswers
<1> HIDE DEF counted, updated
<1>7. updated \in Collecting(counted)
  BY <1>4, <1>5, <1>6, CollectLoop
<1>8. /\ updated \in Update
      /\ updated.cls.numglobalservers = cls.numglobalservers
      /\ updated.cls.additional = asked.cls.additional /\ updated.cls.requests = asked.cls.requests
      /\ \A i \in Index : /\ updated.cls.globalServers[i].visible = cls.globalServers[i].visible
                          /\ updated.cls.globalServers[i].adr = asked.cls.globalServers[i].adr
      /\ Own(updated.cls.globalServers) /\ OwnAnswers(updated.pings) /\ Named(updated.cls)
      /\ counted.status => updated.status
      /\ (\A j \in Slot : counted.pings[j].adr = NoServer) => updated = counted
  BY <1>4, <1>5, <1>7 DEF Collecting
<1>9. updated.cls \in Cls /\ updated.pings \in [Slot -> PingRequest] /\ updated.status \in BOOLEAN
      /\ updated.cls.globalServers \in Servers
  BY <1>8 DEF Update, Cls
<1>10. /\ refreshing \in UI /\ refreshing.shown = ui.shown /\ refreshing.refreshActive = ui.refreshActive
       /\ refreshing.sortKey = ui.sortKey /\ refreshing.sortDir = ui.sortDir /\ Filled(refreshing)
  BY <1>2 DEF UI, Filled
<1>11. Hidden(updated.cls.globalServers, refreshing.shown)
  <2>1. \A m \in DOMAIN ui.shown : ui.shown[m] \in Index
    BY <1>2 DEF UI
  <2> HIDE DEF refreshing
  <2> QED  BY <1>2, <1>8, <1>10, <2>1 DEF Hidden
<1>12. last \in Built(updated.cls, refreshing, force)
  <2>1. force \in 0 .. 2
    OBVIOUS
  <2> HIDE DEF force, refreshing
  <2> QED  BY <1>9, <1>10, <1>11, <2>1, BuildIs
<1>13. ends \in BOOLEAN /\ (ends => force = 2) /\ force # 1
  OBVIOUS
<1> HIDE DEF force, refreshing, last
<1>14. /\ last.servers \in Servers /\ last.ui \in UI
       /\ Hidden(last.servers, last.ui.shown)
       /\ last.ui.sortKey = refreshing.sortKey /\ last.ui.sortDir = refreshing.sortDir /\ Filled(last.ui)
       /\ Ordered(updated.cls.globalServers, refreshing) => Ordered(last.servers, last.ui)
  BY <1>12 DEF Built, SameBrowser
<1>15. \A i \in Index : /\ last.servers[i].adr = updated.cls.globalServers[i].adr
                        /\ last.servers[i].ping = updated.cls.globalServers[i].ping
                        /\ last.servers[i].info = updated.cls.globalServers[i].info
  BY <1>12 DEF Built
<1>16. ends => \A i \in Index : i <= cls.numglobalservers /\ last.servers[i].visible =>
         updated.cls.globalServers[i].visible /\ updated.cls.globalServers[i].ping <= 0
  BY <1>8, <1>12, <1>13 DEF Built
<1>17. /\ cls' \in Cls /\ cls'.globalServers = last.servers /\ cls'.additional = updated.cls.additional
       /\ cls'.numglobalservers = cls.numglobalservers /\ cls'.requests = updated.cls.requests
  BY <1>1, <1>8, <1>9, <1>14 DEF Cls
<1>23. OneRequest(cls', network', commands')
  <2>1. asked.cls \in Cls
    BY <1>4 DEF Update
  <2>2. SameList(asked.cls, cls')
    <3>1. /\ cls'.numglobalservers = asked.cls.numglobalservers /\ cls'.requests = asked.cls.requests
          /\ cls'.additional = asked.cls.additional
      BY <1>4, <1>8, <1>17
    <3>2. \A i \in Index : cls'.globalServers[i].adr = asked.cls.globalServers[i].adr
      BY <1>8, <1>15, <1>17
    <3> QED  BY <1>17, <2>1, <3>1, <3>2, SameAddresses
  <2>3. SameList(cls, cls')
    BY <1>22, <2>2, SameListTwice
  <2>4. network \in SUBSET (Packet \X Nat) /\ OneRequest(cls, network, commands) /\ commands \in Nat
    BY DEF IInv
  <2>5. OneRequest(cls', network, commands)
    BY <2>3, <2>4, OneSame
  <2> QED  BY <1>1, <2>5
<1>24. RowsNamed(cls', last.ui.shown)
  <2>1. ui.shown \in Seq(Index) /\ last.ui.shown \in Seq(Index)
    BY <1>2, <1>14 DEF UI
  <2>2. ASSUME NEW i \in ToSet(ui.shown)
        PROVE  cls'.globalServers[i].adr = cls.globalServers[i].adr
    <3>1. i \in Index /\ ~cls.globalServers[i].visible
      BY <1>2, <2>1 DEF ToSet, Hidden
    <3> QED  BY <1>8, <1>15, <1>17, <1>22, <3>1
  <2>3. \A i \in ToSet(last.ui.shown) : i \in ToSet(ui.shown) \/ cls'.globalServers[i].ping > 0
    <3>1. \A i \in ToSet(last.ui.shown) : i \in ToSet(ui.shown) \/ updated.cls.globalServers[i].ping > 0
      BY <1>10, <1>12 DEF Built
    <3>2. \A i \in ToSet(last.ui.shown) : i \in Index
      BY <2>1 DEF ToSet
    <3> QED  BY <1>15, <1>17, <3>1, <3>2
  <2>4. Own(cls'.globalServers)
    BY <1>8, <1>15, <1>17 DEF Own
  <2>5. RowsNamed(cls, ui.shown)
    BY DEF IInv
  <2> QED  BY <1>2, <1>17, <2>1, <2>2, <2>3, <2>4, <2>5, RowsStay
<1>18. /\ ui' \in UI /\ ui'.shown = last.ui.shown /\ ui'.sortKey = last.ui.sortKey
       /\ ui'.sortDir = last.ui.sortDir /\ ui'.refreshActive = ~ends /\ Filled(ui')
  <2> HIDE DEF ends
  <2> QED  BY <1>1, <1>13, <1>14 DEF UI, Filled
<1>19. IInv'
  <2>1. Own(cls'.globalServers) /\ Named(cls')
    BY <1>8, <1>15, <1>17 DEF Own, Named
  <2>2. Hidden(cls'.globalServers, ui'.shown)
    BY <1>14, <1>17, <1>18
  <2>3. network' \subseteq Packet \X Nat /\ commands' \in Nat
    BY <1>1 DEF IInv
  <2>4. pinglist' \in [Slot -> PingRequest] /\ OwnAnswers(pinglist')
    BY <1>1, <1>8, <1>9
  <2>5. Bounded(cls')
    <3>1. Len(cls.additional) \in Nat /\ Len(asked.cls.additional) \in Nat
      BY <1>2, <1>4 DEF Cls, Update
    <3>2. MAX_ADDRESSES \in Nat /\ MAX_SERVERSPERPACKET \in Nat
      BY BrowserAssumption
    <3> QED  BY <1>2, <1>4, <1>8, <1>17, <3>1, <3>2 DEF Bounded
  <2> QED  BY <1>17, <1>18, <1>23, <1>24, <2>1, <2>2, <2>3, <2>4, <2>5 DEF IInv
<1>20. KeepsOrder
  <2> SUFFICES ASSUME Ordered(cls'.globalServers, [ui' EXCEPT !.shown = ui.shown])
               PROVE  Ordered(cls'.globalServers, ui')
    BY DEF KeepsOrder
  <2> DEFINE w == [ui' EXCEPT !.shown = ui.shown]
  <2>1. w \in UI /\ w.shown = ui.shown /\ w.sortKey = ui'.sortKey /\ w.sortDir = ui'.sortDir
    BY <1>2, <1>18 DEF UI
  <2>2. Ordered(last.servers, w)
    BY <1>17
  <2> HIDE DEF w
  <2>3. Ordered(updated.cls.globalServers, refreshing)
    BY <1>9, <1>10, <1>14, <1>15, <1>18, <2>1, <2>2, OrderedSame
  <2>4. Ordered(last.servers, last.ui)
    BY <1>14, <2>3
  <2>5. Ordered(last.servers, ui')
    BY <1>14, <1>18, <2>4, OrderedSame
  <2> QED  BY <1>17, <2>5
<1>21. ForgetsNone
  <2> SUFFICES ASSUME Stops, NEW i \in Listed, cls'.globalServers[i].visible
               PROVE  cls'.globalServers[i].ping = 0 \/ Replaced(i)
    BY DEF ForgetsNone
  <2>1. ends
    BY <1>18 DEF Stops
  <2>2. ~updated.status /\ ~counted.status
    BY <1>8, <2>1
  <2>3. asked.slots \in Nat
    BY <1>4 DEF Update
  <2>4. Quiet(asked)
    BY <1>5, <2>2, <2>3 DEF Quiet
  <2>5. \A j \in Slot : asked.pings[j].adr = NoServer
    <3>1. asked.pings \in [Slot -> PingRequest]
      BY <1>4 DEF Update
    <3>2. QueueCount(asked.pings) = 0
      BY <1>4, <2>4, <3>1, Queued DEF Quiet
    <3> QED  BY <3>1, <3>2, Queued
  <2>6. updated.cls = asked.cls
    BY <1>5, <1>8, <2>5
  <2>7. i \in Index /\ i <= cls.numglobalservers
    BY DEF Listed
  <2>8. /\ asked.cls.globalServers[i].visible /\ asked.cls.globalServers[i].ping <= 0
        /\ cls'.globalServers[i].ping = asked.cls.globalServers[i].ping
    BY <1>15, <1>16, <1>17, <2>1, <2>6, <2>7
  <2>9. ~Forgotten(cls, asked, i)
    BY <1>3, <2>4, <2>7
  <2>10. asked.cls.globalServers[i].ping \in -1 .. MaxPing
    <3>1. asked.cls.globalServers[i] \in ServerInfo
      BY <1>9, <2>6, <2>7 DEF Servers
    <3> QED  BY <3>1 DEF ServerInfo
  <2>11. CASE asked.cls.globalServers[i].ping = -1
    <3>1. cls.globalServers[i].ping = 0 /\ Len(asked.cls.additional) < Len(cls.additional)
      BY <2>8, <2>9, <2>11 DEF Forgotten
    <3>2. cls'.additional # cls.additional
      <4>1. Len(cls.additional) \in Nat
        BY <1>2 DEF Cls
      <4> QED  BY <1>8, <1>17, <3>1, <4>1
    <3> QED  BY <3>1, <3>2 DEF Replaced
  <2>12. CASE asked.cls.globalServers[i].ping # -1
    <3>1. asked.cls.globalServers[i].ping = 0
      BY <2>8, <2>10, <2>12, BrowserAssumption
    <3> QED  BY <2>8, <3>1
  <2> QED  BY <2>11, <2>12
<1> QED  BY <1>19, <1>20, <1>21 DEF Kept

(* Every step keeps the invariant, the order and the servers.              *)
LEMMA NextKept ==
  ASSUME IInv, [BrowserNext]_browserVars
  PROVE  Kept
<1>1. CASE RefreshServers
  BY <1>1, RefreshServersKept
<1>2. CASE RefreshFilter \/ UpdateFilter
  BY <1>2, FilterKept
<1>3. ASSUME NEW key \in {"ping", "host"}, ServerSort(key) PROVE Kept
  BY <1>3, ServerSortKept
<1>4. ASSUME NEW a \in Typed, Ping(a) PROVE Kept
  BY <1>4, PingKept
<1>5. ASSUME NEW masterNum \in {0, 1}, GlobalServers(masterNum) PROVE Kept
  BY <1>5, GlobalServersKept
<1>6. ASSUME NEW p \in network, ServersResponse(p) PROVE Kept
  BY <1>6, ServersResponseKept
<1>7. ASSUME NEW a \in Server, ServerInfoPacket(a) PROVE Kept
  BY <1>7, ServerInfoKept
<1>8. CASE DoServerRefresh
  BY <1>8, DoServerRefreshKept
<1>9. ASSUME NEW j \in Slot, QueryExpires(j) PROVE Kept
  BY <1>9, QueryExpiresKept
<1>10. CASE DisplayDue \/ RefreshDue \/ UNCHANGED browserVars
  BY <1>10, ClockKept
<1> QED  BY <1>1, <1>2, <1>3, <1>4, <1>5, <1>6, <1>7, <1>8, <1>9, <1>10 DEF BrowserNext, Player

-----------------------------------------------------------------------------
(* The theorems                                                            *)

(* The inductive invariant holds in every state.                           *)
THEOREM BrowserInvariant == BrowserSpec => []IInv
<1>1. BrowserInit => IInv
  BY InitKept
<1>2. IInv /\ [BrowserNext]_browserVars => IInv'
  BY NextKept DEF Kept
<1> QED  BY <1>1, <1>2, PTL DEF BrowserSpec

(* No query is written past the end of cl_pinglist.  Past the end of       *)
(* displayServers only the number of rows is written, and past the end of  *)
(* the additional servers less than one packet.                            *)
THEOREM BrowserTypeCorrect == BrowserSpec => []BrowserTypeOK
<1>1. IInv => BrowserTypeOK
  <2> SUFFICES ASSUME IInv PROVE BrowserTypeOK
    OBVIOUS
  <2>1. cls \in Cls /\ ui \in UI /\ pinglist \in [Slot -> PingRequest] /\ Filled(ui) /\ Bounded(cls)
    BY DEF IInv
  <2>2. /\ cls.numglobalservers \in -1 .. MAX_GLOBAL_SERVERS
        /\ cls.globalServers \in [Index -> ServerInfo]
    BY <2>1 DEF Cls, Servers
  <2>3. ui.shown \in Seq(Index) /\ ui.unused \in Seq(Index)
    BY <2>1 DEF UI
  <2> DEFINE rows == Len(ui.shown)
             left == Len(ui.unused)
  <2>4. rows \in Nat /\ left \in Nat /\ left > 0 /\ rows + left = MAX_GLOBAL_SERVERS
    <3>1. rows \in Nat /\ left \in Nat
      BY <2>3
    <3>2. left > 0 /\ rows + left = MAX_GLOBAL_SERVERS
      BY <2>1 DEF Filled
    <3> QED  BY <3>1, <3>2
  <2>5. rows < MAX_GLOBAL_SERVERS
    <3> HIDE DEF rows, left
    <3> QED  BY <2>4
  <2>6. Len(cls.additional) < MAX_ADDRESSES + MAX_SERVERSPERPACKET
    BY <2>1 DEF Bounded
  <2> QED  BY <2>1, <2>2, <2>3, <2>4, <2>5, <2>6 DEF BrowserTypeOK
<1> QED  BY <1>1, BrowserInvariant, PTL

(* While the list holds the answer to one request, a server is one row at  *)
(* most.                                                                   *)
THEOREM BrowserOneRow == BrowserSpec => []OneRowPerServer
<1>1. IInv => OneRowPerServer
  <2> SUFFICES ASSUME IInv, Cardinality(cls.requests) <= 1,
                      NEW m \in DOMAIN ui.shown, NEW n \in DOMAIN ui.shown, m # n,
                      ui.shown[m] \in Listed, ui.shown[n] \in Listed
               PROVE  cls.globalServers[ui.shown[m]].adr # cls.globalServers[ui.shown[n]].adr
    BY DEF OneRowPerServer
  <2>1. /\ OneRequest(cls, network, commands) /\ RowsNamed(cls, ui.shown)
        /\ Hidden(cls.globalServers, ui.shown) /\ commands \in Nat
    BY DEF IInv
  <2>2. IsFiniteSet(cls.requests)
    <3>1. IsFiniteSet(0 .. commands - 1)
      BY <2>1, FS_Interval
    <3> QED  BY <2>1, <3>1, FS_Subset DEF OneRequest
  <2>3. PICK r : cls.requests \subseteq {r}
    <3>1. Cardinality(cls.requests) \in Nat
      BY <2>2, FS_CardinalityType
    <3>2. Cardinality(cls.requests) = 0 \/ Cardinality(cls.requests) = 1
      BY <3>1
    <3>3. CASE Cardinality(cls.requests) = 0
      BY <2>2, <3>3, FS_EmptySet
    <3>4. CASE Cardinality(cls.requests) = 1
      BY <2>2, <3>4, FS_Singleton
    <3> QED  BY <3>2, <3>3, <3>4
  <2>4. Different(cls)
    BY <2>1, <2>3 DEF OneRequest
  <2> DEFINE i == ui.shown[m]
             j == ui.shown[n]
  <2>5. i # j
    BY <2>1 DEF Hidden, IsInjective
  <2>6. /\ i \in Index /\ i <= cls.numglobalservers /\ cls.globalServers[i].adr # Garbled
        /\ j \in Index /\ j <= cls.numglobalservers
    BY <2>1 DEF Listed, RowsNamed
  <2>7. cls.numglobalservers # -1
    BY <2>6 DEF Index
  <2> QED  BY <2>4, <2>5, <2>6, <2>7 DEF Different
<1> QED  BY <1>1, BrowserInvariant, PTL

(* A server with a ping carries its own info, although the slots of the    *)
(* queries are used again.                                                 *)
THEOREM BrowserInfoIsOwn == BrowserSpec => []InfoIsOwn
<1>1. IInv => InfoIsOwn
  BY DEF IInv, Own, InfoIsOwn, Listed
<1> QED  BY <1>1, BrowserInvariant, PTL

(* Rows in order by the present pings are in order after every step: the   *)
(* search finds the place of a new row.                                    *)
THEOREM BrowserKeepsOrder == BrowserSpec => InsertionKeepsOrder
<1>1. IInv /\ [BrowserNext]_browserVars => [KeepsOrder]_browserVars
  BY NextKept DEF Kept
<1> QED  BY <1>1, BrowserInvariant, PTL DEF BrowserSpec, InsertionKeepsOrder, KeepsOrder

(* When the refresh stops, every visible server of the list was asked.     *)
THEOREM BrowserForgetsNone == BrowserSpec => NoneForgotten
<1>1. IInv /\ [BrowserNext]_browserVars => [ForgetsNone]_browserVars
  BY NextKept DEF Kept
<1> QED  BY <1>1, BrowserInvariant, PTL DEF BrowserSpec, NoneForgotten, ForgetsNone
=============================================================================
