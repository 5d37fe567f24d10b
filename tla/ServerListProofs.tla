-------------------------- MODULE ServerListProofs --------------------------
(***************************************************************************)
(* What the operations of the server list preserve, for every size of the  *)
(* list: the lemmas the theorems of DpmasterProofs rest on.                *)
(***************************************************************************)
EXTENDS ServerList, FiniteSetTheorems, TLAPS

-----------------------------------------------------------------------------
(* Minima and maxima of sets of slots                                      *)

LEMMA LeastExists ==
  ASSUME NEW S \in SUBSET Nat, S # {}
  PROVE  \E x \in S : \A y \in S : x <= y
<1>1. IsWellFoundedOn(OpToRel(<, Nat), Nat)
  BY NatLessThanWellFounded
<1>2. PICK x \in S : \A y \in S : ~(<<y, x>> \in OpToRel(<, Nat))
  BY <1>1, WFMin
<1>3. ASSUME NEW y \in S PROVE x <= y
  <2>1. ~(y < x) BY <1>2 DEF OpToRel
  <2>2. y \in Nat /\ x \in Nat OBVIOUS
  <2> QED BY <2>1, <2>2
<1> QED BY <1>2, <1>3

(* A nonempty finite set of numbers has a greatest member.                 *)
LEMMA GreatestExists ==
  ASSUME NEW n \in Nat, NEW S \in SUBSET (0 .. n), S # {}
  PROVE  \E x \in S : \A y \in S : x >= y
<1> DEFINE T == {n - x : x \in S}
<1>1. T \in SUBSET Nat
  <2>1. ASSUME NEW x \in S PROVE n - x \in Nat
    <3>1. x \in 0 .. n OBVIOUS
    <3> QED BY <3>1
  <2> QED BY <2>1 DEF T
<1>2. T # {}
  BY DEF T
<1>3. PICK t \in T : \A u \in T : t <= u
  BY <1>1, <1>2, LeastExists
<1>4. PICK x \in S : t = n - x
  BY <1>3 DEF T
<1>5. ASSUME NEW y \in S PROVE x >= y
  <2>1. n - y \in T BY DEF T
  <2>2. n - x <= n - y BY <1>3, <1>4, <2>1
  <2>3. x \in 0 .. n /\ y \in 0 .. n BY <1>4
  <2> QED BY <2>2, <2>3
<1> QED BY <1>4, <1>5

(* A member below all others is Min of FiniteSetsExt.                      *)
LEMMA MinIs ==
  ASSUME NEW S \in SUBSET Int, NEW x \in S, \A y \in S : x <= y
  PROVE  Min(S) = x
<1>1. Min(S) \in S /\ \A y \in S : Min(S) <= y
  BY DEF Min
<1>2. Min(S) <= x /\ x <= Min(S)
  BY <1>1
<1>3. Min(S) \in Int /\ x \in Int
  BY <1>1
<1> QED BY <1>2, <1>3

(* The slots are the first max_nb_servers numbers.                         *)
LEMMA SlotsFinite ==
  /\ IsFiniteSet(Slots)
  /\ Cardinality(Slots) = max_nb_servers
  /\ Slots \in SUBSET Nat
  /\ max_nb_servers - 1 \in Nat
  /\ Slots = 0 .. max_nb_servers - 1
<1>1. max_nb_servers - 1 \in Int /\ max_nb_servers >= 1 /\ max_nb_servers \in Nat
  BY ListAssumption
<1>2. IsFiniteSet(Slots) /\ Cardinality(Slots) = max_nb_servers
  BY <1>1, FS_Interval DEF Slots
<1> QED BY <1>1, <1>2 DEF Slots

(* LowestOf is the least member, or -1.                                    *)
LEMMA LowestIs ==
  ASSUME NEW S \in SUBSET Slots
  PROVE  /\ LowestOf(S) \in Slots \cup {-1}
         /\ S = {} <=> LowestOf(S) = -1
         /\ S # {} => LowestOf(S) \in S /\ \A y \in S : LowestOf(S) <= y
<1>1. CASE S = {}
  BY <1>1 DEF LowestOf
<1>2. CASE S # {}
  <2>1. PICK x \in S : \A y \in S : x <= y
    BY <1>2, LeastExists, SlotsFinite
  <2>2. Min(S) = x
    BY <2>1, MinIs, SlotsFinite
  <2>3. x \in Slots /\ x # -1
    BY SlotsFinite
  <2> QED BY <1>2, <2>1, <2>2, <2>3 DEF LowestOf
<1> QED BY <1>1, <1>2

(* HighestOf is the greatest member, or -1.                                *)
LEMMA HighestIs ==
  ASSUME NEW S \in SUBSET Slots
  PROVE  /\ HighestOf(S) \in Slots \cup {-1}
         /\ S = {} <=> HighestOf(S) = -1
         /\ S # {} => HighestOf(S) \in S /\ \A y \in S : y <= HighestOf(S)
<1>1. CASE S = {}
  BY <1>1 DEF HighestOf
<1>2. CASE S # {}
  <2>1. PICK x \in S : \A y \in S : x >= y
    BY <1>2, GreatestExists, SlotsFinite
  <2>2. Max(S) \in S /\ \A y \in S : Max(S) >= y
    BY <2>1 DEF Max
  <2>3. Max(S) \in Slots /\ S \subseteq Slots
    BY <2>2
  <2>4. \A y \in S : y <= Max(S)
    <3>1. Slots \subseteq Int BY SlotsFinite
    <3> QED BY <2>2, <2>3, <3>1
  <2>5. Max(S) # -1
    BY <2>3, SlotsFinite
  <2> QED BY <1>2, <2>2, <2>3, <2>4, <2>5 DEF HighestOf
<1> QED BY <1>1, <1>2

(* Nothing but the least member is LowestOf.                               *)
LEMMA LowestUnique ==
  ASSUME NEW S \in SUBSET Slots, NEW x \in S, \A y \in S : x <= y
  PROVE  LowestOf(S) = x
BY MinIs, SlotsFinite DEF LowestOf

-----------------------------------------------------------------------------
(* The inductive invariant of the list.  The first conjuncts are what the  *)
(* runs check; the others are what they need to be preserved: a used slot  *)
(* holds an address, only the very last slot can be trusted to be known to *)
(* last_used_slot, and the iteration never stands above it.                *)

Counted(l) == l.nb_servers = Cardinality(Used(l))
FirstFree(l) == l.first_free_slot = LowestOf(Slots \ Used(l))
Addressed(l) == \A i \in Used(l) : l.servers[i].address \in Address
Distinct(l) == \A i, j \in Used(l) : l.servers[i].address = l.servers[j].address => i = j
EndKnown(l) == max_nb_servers - 1 \in Used(l) => l.last_used_slot = max_nb_servers - 1
Bounded(l) == l.crt_server_ind <= l.last_used_slot /\ l.last_server_ind <= l.last_used_slot

ListInv(l) ==
  /\ l \in ServerList
  /\ Counted(l)
  /\ FirstFree(l)
  /\ Addressed(l)
  /\ Distinct(l)
  /\ EndKnown(l)
  /\ Bounded(l)

(* A cleared record is a record.                                           *)
LEMMA UnusedType == UnusedServer \in Server
BY DEF UnusedServer, Server, ServerState

(* The used slots can be counted, and so can any part of them.             *)
LEMMA UsedFinite ==
  ASSUME NEW l
  PROVE  /\ Used(l) \subseteq Slots
         /\ \A R \in SUBSET Used(l) :
              /\ IsFiniteSet(R)
              /\ Cardinality(R) \in Nat
              /\ Cardinality(R) <= Cardinality(Used(l))
              /\ Cardinality(Used(l) \ R) = Cardinality(Used(l)) - Cardinality(R)
<1>1. Used(l) \subseteq Slots
  BY DEF Used
<1>2. IsFiniteSet(Used(l))
  BY <1>1, SlotsFinite, FS_Subset
<1>3. ASSUME NEW R \in SUBSET Used(l)
      PROVE  /\ IsFiniteSet(R)
             /\ Cardinality(R) \in Nat
             /\ Cardinality(R) <= Cardinality(Used(l))
             /\ Cardinality(Used(l) \ R) = Cardinality(Used(l)) - Cardinality(R)
  <2>1. IsFiniteSet(R) /\ Cardinality(R) <= Cardinality(Used(l))
    BY <1>2, FS_Subset
  <2>2. Cardinality(R) \in Nat
    BY <2>1, FS_CardinalityType
  <2>3. Used(l) \cap R = R
    OBVIOUS
  <2>4. Cardinality(Used(l) \ R) = Cardinality(Used(l)) - Cardinality(Used(l) \cap R)
    BY <1>2, FS_Difference
  <2> QED BY <2>1, <2>2, <2>3, <2>4
<1> QED BY <1>1, <1>3

(* The clamp of Sv_Remove.                                                 *)
LEMMA AtMostBound ==
  ASSUME NEW i \in Slots \cup {-1}, NEW b \in Slots \cup {-1}
  PROVE  /\ AtMost(i, b) \in Slots \cup {-1}
         /\ AtMost(i, b) <= b
         /\ AtMost(i, b) <= i
<1>1. i \in Int /\ b \in Int
  BY SlotsFinite
<1> QED BY <1>1 DEF AtMost

(* The fields of a list after Sv_Remove.                                   *)
LEMMA RemoveFields ==
  ASSUME NEW l \in ServerList, NEW R \in SUBSET Used(l),
         Cardinality(R) <= l.nb_servers
  PROVE  LET m == Sv_Remove(l, R)
         IN  /\ m \in ServerList
             /\ Used(m) = Used(l) \ R
             /\ \A i \in Slots : m.servers[i] = IF i \in R THEN UnusedServer ELSE l.servers[i]
             /\ R # {} => m.nb_servers = l.nb_servers - Cardinality(R)
             /\ R # {} => m.first_free_slot = IF l.first_free_slot = -1 \/ Min(R) < l.first_free_slot
                                              THEN Min(R) ELSE l.first_free_slot
             /\ l.last_used_slot \notin R => m.last_used_slot = l.last_used_slot
             /\ Bounded(l) => Bounded(m)
             /\ R # {} => Bounded(m)
             /\ R = {} => m = l
<1> DEFINE left == Used(l) \ R
           below == {i \in left : i < l.last_used_slot}
           last == IF l.last_used_slot \in R THEN HighestOf(below) ELSE l.last_used_slot
           m == Sv_Remove(l, R)
<1>1. CASE R = {}
  <2>1. m = l BY <1>1 DEF Sv_Remove
  <2> QED BY <2>1, <1>1 DEF ServerList
<1>2. CASE R # {}
  <2>1. m = [servers |-> [i \in Slots |-> IF i \in R THEN UnusedServer ELSE l.servers[i]],
             nb_servers |-> l.nb_servers - Cardinality(R),
             last_used_slot |-> last,
             first_free_slot |-> IF l.first_free_slot = -1 \/ Min(R) < l.first_free_slot
                                 THEN Min(R) ELSE l.first_free_slot,
             crt_server_ind |-> AtMost(l.crt_server_ind, last),
             last_server_ind |-> AtMost(l.last_server_ind, last)]
    BY <1>2 DEF Sv_Remove
  <2>2. l.servers \in [Slots -> Server] /\ l.nb_servers \in Nat
        /\ l.last_used_slot \in Slots \cup {-1} /\ l.first_free_slot \in Slots \cup {-1}
        /\ l.crt_server_ind \in Slots \cup {-1} /\ l.last_server_ind \in Slots \cup {-1}
    BY DEF ServerList
  <2>3. R \subseteq Slots /\ below \subseteq Slots /\ Cardinality(R) \in Nat
    BY UsedFinite
  <2>4. last \in Slots \cup {-1}
    BY <2>2, <2>3, HighestIs
  <2>5. Min(R) \in Slots
    <3>1. LowestOf(R) \in R BY <1>2, <2>3, LowestIs
    <3> QED BY <1>2, <2>3, <3>1 DEF LowestOf
  <2>6. AtMost(l.crt_server_ind, last) \in Slots \cup {-1} /\ AtMost(l.crt_server_ind, last) <= last
    BY <2>2, <2>4, AtMostBound
  <2>7. AtMost(l.last_server_ind, last) \in Slots \cup {-1} /\ AtMost(l.last_server_ind, last) <= last
    BY <2>2, <2>4, AtMostBound
  <2>8. l.nb_servers - Cardinality(R) \in Nat
    BY <2>2, <2>3
  <2> HIDE DEF last, m
  <2>9. m.servers = [i \in Slots |-> IF i \in R THEN UnusedServer ELSE l.servers[i]]
    BY <2>1
  <2>10. m.servers \in [Slots -> Server]
    BY <2>9, <2>2, UnusedType
  <2>11. m \in ServerList
    BY <2>1, <2>9, <2>10, <2>4, <2>5, <2>6, <2>7, <2>8, <2>2 DEF ServerList
  <2>12. Used(m) = Used(l) \ R
    BY <2>9 DEF Used, UnusedServer
  <2>13. Bounded(m)
    BY <2>1, <2>6, <2>7 DEF Bounded
  <2>14. l.last_used_slot \notin R => last = l.last_used_slot
    BY DEF last
  <2> QED BY <1>2, <2>1, <2>9, <2>11, <2>12, <2>13, <2>14 DEF m
<1> QED BY <1>1, <1>2

(* Removing any servers keeps the list in order.                           *)
LEMMA RemoveInv ==
  ASSUME NEW l, ListInv(l), NEW R \in SUBSET Used(l)
  PROVE  /\ ListInv(Sv_Remove(l, R))
         /\ Used(Sv_Remove(l, R)) = Used(l) \ R
         /\ \A i \in Used(l) \ R : Sv_Remove(l, R).servers[i] = l.servers[i]
<1> DEFINE m == Sv_Remove(l, R)
<1>1. l \in ServerList /\ l.nb_servers = Cardinality(Used(l)) /\ Bounded(l)
  BY DEF ListInv, Counted
<1>2. Cardinality(R) <= l.nb_servers /\ Cardinality(Used(l) \ R) = l.nb_servers - Cardinality(R)
  BY <1>1, UsedFinite
<1>3. /\ m \in ServerList
      /\ Used(m) = Used(l) \ R
      /\ \A i \in Slots : m.servers[i] = IF i \in R THEN UnusedServer ELSE l.servers[i]
      /\ R # {} => m.nb_servers = l.nb_servers - Cardinality(R)
      /\ R # {} => m.first_free_slot = IF l.first_free_slot = -1 \/ Min(R) < l.first_free_slot
                                       THEN Min(R) ELSE l.first_free_slot
      /\ l.last_used_slot \notin R => m.last_used_slot = l.last_used_slot
      /\ Bounded(m)
      /\ R = {} => m = l
  BY <1>1, <1>2, RemoveFields
<1> HIDE DEF m
<1>4. Used(l) \subseteq Slots
  BY UsedFinite
<1>5. \A i \in Used(m) : i \in Slots /\ i \in Used(l) /\ m.servers[i] = l.servers[i]
  BY <1>3, <1>4
<1>6. Counted(m)
  <2>1. CASE R = {} BY <2>1, <1>3, <1>1 DEF Counted
  <2>2. CASE R # {} BY <2>2, <1>2, <1>3 DEF Counted
  <2> QED BY <2>1, <2>2
<1>7. FirstFree(m)
  <2> DEFINE free == Slots \ Used(l)
  <2>1. CASE R = {}
    BY <2>1, <1>3 DEF ListInv
  <2>2. CASE R # {}
    <3>1. R \subseteq Slots /\ R \in SUBSET Slots BY <1>4
    <3>2. Min(R) \in R /\ \A y \in R : Min(R) <= y
      <4>1. LowestOf(R) = Min(R) BY <2>2 DEF LowestOf
      <4> QED BY <4>1, <2>2, <3>1, LowestIs
    <3>3. l.first_free_slot = LowestOf(free) BY DEF ListInv, FirstFree
    <3>4. free \in SUBSET Slots OBVIOUS
    <3>5. /\ free = {} <=> l.first_free_slot = -1
          /\ free # {} => l.first_free_slot \in free /\ \A y \in free : l.first_free_slot <= y
      BY <3>3, <3>4, LowestIs
    <3>6. Slots \ Used(m) = free \cup R
      BY <1>3, <3>1
    <3>7. m.first_free_slot \in free \cup R /\ \A y \in free \cup R : m.first_free_slot <= y
      <4> HIDE DEF free
      <4>1. free \subseteq Int /\ R \subseteq Int BY <3>1, <3>4, SlotsFinite
      <4>2. CASE l.first_free_slot = -1
        BY <4>2, <3>2, <3>5, <2>2, <1>3
      <4>3. CASE l.first_free_slot # -1 /\ Min(R) < l.first_free_slot
        <5>1. m.first_free_slot = Min(R) BY <4>3, <2>2, <1>3
        <5>2. l.first_free_slot \in free /\ \A y \in free : l.first_free_slot <= y BY <4>3, <3>5
        <5>3. \A y \in free : y \in Int /\ l.first_free_slot <= y BY <5>2, <4>1
        <5>4. Min(R) \in Int /\ l.first_free_slot \in Int BY <5>2, <3>2, <4>1
        <5>5. \A y \in free : Min(R) <= y BY <5>3, <5>4, <4>3
        <5> QED BY <5>1, <5>5, <3>2
      <4>4. CASE l.first_free_slot # -1 /\ ~(Min(R) < l.first_free_slot)
        <5>1. m.first_free_slot = l.first_free_slot BY <4>4, <2>2, <1>3
        <5>2. l.first_free_slot \in free /\ \A y \in free : l.first_free_slot <= y BY <4>4, <3>5
        <5>3. \A y \in R : y \in Int /\ Min(R) <= y BY <3>2, <4>1
        <5>4. Min(R) \in Int /\ l.first_free_slot \in Int BY <5>2, <3>2, <4>1
        <5>5. \A y \in R : l.first_free_slot <= y BY <5>3, <5>4, <4>4
        <5> QED BY <5>1, <5>2, <5>5
      <4> QED BY <4>2, <4>3, <4>4
    <3>8. free \cup R \in SUBSET Slots BY <3>1, <3>4
    <3>9. LowestOf(free \cup R) = m.first_free_slot BY <3>7, <3>8, LowestUnique
    <3> QED BY <3>6, <3>9 DEF FirstFree
  <2> QED BY <2>1, <2>2
<1>8. Addressed(m) /\ Distinct(m)
  BY <1>5 DEF ListInv, Addressed, Distinct
<1>9. EndKnown(m)
  <2> SUFFICES ASSUME max_nb_servers - 1 \in Used(m) PROVE m.last_used_slot = max_nb_servers - 1
    BY DEF EndKnown
  <2>1. max_nb_servers - 1 \in Used(l) /\ max_nb_servers - 1 \notin R BY <1>3
  <2> QED BY <2>1, <1>3 DEF ListInv, EndKnown
<1>10. ListInv(m)
  BY <1>3, <1>6, <1>7, <1>8, <1>9 DEF ListInv
<1> QED BY <1>10, <1>3, <1>4 DEF m

(* A list that is not full has a free slot; a full one has none, and its   *)
(* last slot is known.                                                     *)
LEMMA FullOrFree ==
  ASSUME NEW l, ListInv(l)
  PROVE  /\ l.nb_servers <= max_nb_servers
         /\ l.nb_servers = max_nb_servers => /\ l.last_used_slot = max_nb_servers - 1
                                             /\ l.first_free_slot = -1
         /\ l.nb_servers < max_nb_servers => /\ l.first_free_slot \in Slots \ Used(l)
                                             /\ \A i \in Slots \ Used(l) : l.first_free_slot <= i
<1>1. Used(l) \in SUBSET Slots /\ l.nb_servers = Cardinality(Used(l)) /\ l.first_free_slot = LowestOf(Slots \ Used(l))
  BY UsedFinite DEF ListInv, Counted, FirstFree
<1>2. /\ Cardinality(Used(l)) <= Cardinality(Slots)
      /\ Cardinality(Slots) = Cardinality(Used(l)) => Slots = Used(l)
  BY <1>1, SlotsFinite, FS_Subset
<1>3. Slots \ Used(l) \in SUBSET Slots
  OBVIOUS
<1>4. /\ Slots \ Used(l) = {} <=> l.first_free_slot = -1
      /\ Slots \ Used(l) # {} => /\ l.first_free_slot \in Slots \ Used(l)
                                 /\ \A i \in Slots \ Used(l) : l.first_free_slot <= i
  BY <1>1, <1>3, LowestIs
<1>5. ASSUME l.nb_servers = max_nb_servers
      PROVE  l.last_used_slot = max_nb_servers - 1 /\ l.first_free_slot = -1
  <2>1. Slots = Used(l) BY <1>1, <1>2, <1>5, SlotsFinite
  <2>2. max_nb_servers - 1 \in Slots BY SlotsFinite
  <2> QED BY <2>1, <2>2, <1>4 DEF ListInv, EndKnown
<1>6. ASSUME l.nb_servers < max_nb_servers
      PROVE  Slots \ Used(l) # {}
  <2> SUFFICES ASSUME Slots \ Used(l) = {} PROVE FALSE OBVIOUS
  <2>1. Slots = Used(l) BY <1>1
  <2> QED BY <2>1, <1>1, <1>6, SlotsFinite, ListAssumption
<1> QED BY <1>1, <1>2, <1>4, <1>5, <1>6, SlotsFinite

(* The record Sv_GetByAddr fills in.                                       *)
LEMMA NewServerType ==
  ASSUME NEW a \in Address, NEW now \in Nat
  PROVE  /\ NewServer(a, now) \in Server
         /\ NewServer(a, now).state = "uninitialized"
         /\ NewServer(a, now).address = a
<1>1. Mapping[a] \in Address \cup {NoAddress} /\ now + TIMEOUT_HEARTBEAT \in Nat
  BY ListAssumption
<1> QED BY <1>1 DEF NewServer, UnusedServer, Server, ServerState

(* Adding a server that is not in a list with room for it keeps the list   *)
(* in order.                                                               *)
LEMMA AddInv ==
  ASSUME NEW l, ListInv(l), NEW a \in Address, NEW now \in Nat,
         l.nb_servers < max_nb_servers,
         \A i \in Used(l) : l.servers[i].address # a
  PROVE  LET n == AddServer(l, a, now)
         IN  /\ ListInv(n)
             /\ l.first_free_slot \in Used(n) \ Used(l)
             /\ Used(l) \ Used(n) \subseteq Dead(l, now)
             /\ n.servers[l.first_free_slot] = NewServer(a, now)
             /\ \A i \in Used(n) \ {l.first_free_slot} :
                  i \in Used(l) /\ n.servers[i] = l.servers[i]
<1> DEFINE slot == l.first_free_slot
           open == {i \in Slots \ Active(l, now) : i > slot}
           free == NextFree(l, now)
           gone == {free} \cap Used(l)
           taken == [l EXCEPT !.last_used_slot = LastAfter(l), !.first_free_slot = -1]
           searched == Sv_Remove(taken, gone)
           n == AddServer(l, a, now)
<1>1. l \in ServerList /\ l.nb_servers = Cardinality(Used(l)) /\ Bounded(l)
  BY DEF ListInv, Counted
<1>2. slot \in Slots /\ slot \notin Used(l) /\ \A i \in Slots \ Used(l) : slot <= i
  BY FullOrFree
<1>3. slot \in Int /\ l.last_used_slot \in Slots \cup {-1} /\ l.last_used_slot \in Int
  BY <1>1, <1>2, SlotsFinite DEF ServerList
<1>4. LastAfter(l) \in Slots \cup {-1} /\ LastAfter(l) >= slot /\ LastAfter(l) >= l.last_used_slot
      /\ LastAfter(l) \in Int
  BY <1>2, <1>3 DEF LastAfter
<1>5. /\ free \in Slots \cup {-1}
      /\ open = {} <=> free = -1
      /\ open # {} => free \in open /\ \A y \in open : free <= y
  <2>1. open \in SUBSET Slots OBVIOUS
  <2> QED BY <2>1, LowestIs DEF NextFree
<1>6. /\ taken \in ServerList
      /\ Used(taken) = Used(l)
      /\ taken.servers = l.servers
      /\ taken.nb_servers = l.nb_servers
      /\ taken.last_used_slot = LastAfter(l)
      /\ Bounded(taken)
  <2>1. taken \in ServerList BY <1>1, <1>4 DEF ServerList
  <2>2. taken.servers = l.servers /\ taken.nb_servers = l.nb_servers /\ taken.last_used_slot = LastAfter(l)
        /\ taken.crt_server_ind = l.crt_server_ind /\ taken.last_server_ind = l.last_server_ind
    BY <1>1 DEF ServerList
  <2>3. Used(taken) = Used(l) BY <2>2 DEF Used
  <2>4. l.crt_server_ind \in Int /\ l.last_server_ind \in Int BY <1>1, SlotsFinite DEF ServerList
  <2>5. Bounded(taken) BY <1>1, <1>3, <1>4, <2>2, <2>4 DEF Bounded
  <2> QED BY <2>1, <2>2, <2>3, <2>5
<1> HIDE DEF taken
<1>7. gone \in SUBSET Used(l) /\ gone \in SUBSET Used(taken) /\ Cardinality(gone) <= l.nb_servers
      /\ Cardinality(gone) \in Nat /\ Cardinality(Used(l) \ gone) = l.nb_servers - Cardinality(gone)
  BY <1>1, <1>6, UsedFinite
<1>8. /\ searched \in ServerList
      /\ Used(searched) = Used(l) \ gone
      /\ \A i \in Slots : searched.servers[i] = IF i \in gone THEN UnusedServer ELSE l.servers[i]
      /\ searched.nb_servers = l.nb_servers - Cardinality(gone)
      /\ LastAfter(l) \notin gone => searched.last_used_slot = LastAfter(l)
      /\ Bounded(searched)
  <2>1. /\ searched \in ServerList
        /\ Used(searched) = Used(taken) \ gone
        /\ \A i \in Slots : searched.servers[i] = IF i \in gone THEN UnusedServer ELSE taken.servers[i]
        /\ gone # {} => searched.nb_servers = taken.nb_servers - Cardinality(gone)
        /\ taken.last_used_slot \notin gone => searched.last_used_slot = taken.last_used_slot
        /\ Bounded(searched)
        /\ gone = {} => searched = taken
    <3>1. Cardinality(gone) <= taken.nb_servers BY <1>6, <1>7
    <3>2. taken \in ServerList /\ gone \in SUBSET Used(taken) /\ Bounded(taken) BY <1>6, <1>7
    <3> HIDE DEF gone, free
    <3> QED BY <3>1, <3>2, RemoveFields
  <2>2. searched.nb_servers = l.nb_servers - Cardinality(gone)
    <3>1. CASE gone = {}
      <4>1. Cardinality(gone) = 0 BY <3>1, FS_EmptySet
      <4>2. l.nb_servers \in Int BY <1>1 DEF ServerList
      <4> QED BY <3>1, <4>1, <4>2, <2>1, <1>6
    <3>2. CASE gone # {} BY <3>2, <2>1, <1>6
    <3> QED BY <3>1, <3>2
  <2> QED BY <2>1, <2>2, <1>6
<1>9. n = [searched EXCEPT !.first_free_slot = free,
                           !.servers[slot] = NewServer(a, now),
                           !.nb_servers = @ + 1]
  BY DEF AddServer, taken
<1> HIDE DEF searched, n
<1>10. searched.servers \in [Slots -> Server] /\ searched.nb_servers \in Nat
  BY <1>8 DEF ServerList
<1>11. /\ n.servers = [searched.servers EXCEPT ![slot] = NewServer(a, now)]
       /\ n.first_free_slot = free
       /\ n.nb_servers = searched.nb_servers + 1
       /\ n.last_used_slot = searched.last_used_slot
       /\ n.crt_server_ind = searched.crt_server_ind
       /\ n.last_server_ind = searched.last_server_ind
  BY <1>8, <1>9 DEF ServerList
<1>12. n \in ServerList
  <2>1. n.servers \in [Slots -> Server] BY <1>10, <1>11, NewServerType
  <2>2. n.nb_servers \in Nat BY <1>10, <1>11
  <2> QED BY <1>8, <1>9, <1>5, <2>1, <2>2 DEF ServerList
<1>13. slot \notin gone
  BY <1>2
<1>14. Used(n) = (Used(l) \ gone) \cup {slot}
  <2>1. ASSUME NEW i \in Slots PROVE i \in Used(n) <=> i \in (Used(l) \ gone) \cup {slot}
    <3>1. CASE i = slot
      <4>1. n.servers[i] = NewServer(a, now) BY <3>1, <1>10, <1>11, <1>2
      <4> QED BY <3>1, <4>1, NewServerType DEF Used
    <3>2. CASE i # slot
      <4>1. n.servers[i] = searched.servers[i] BY <3>2, <1>10, <1>11
      <4>2. i \in Used(n) <=> i \in Used(searched) BY <4>1 DEF Used
      <4> QED BY <3>2, <4>2, <1>8
    <3> QED BY <3>1, <3>2
  <2>2. Used(n) \subseteq Slots /\ Used(l) \subseteq Slots BY UsedFinite
  <2> QED BY <2>1, <2>2, <1>2
<1>15. n.servers[slot] = NewServer(a, now)
  BY <1>2, <1>10, <1>11
<1>16. \A i \in Used(n) \ {slot} : i \in Used(l) /\ i \in Slots /\ n.servers[i] = l.servers[i]
  <2> TAKE i \in Used(n) \ {slot}
  <2>1. i \in Used(l) /\ i \notin gone BY <1>14
  <2>2. i \in Slots BY <2>1, UsedFinite
  <2> QED BY <2>1, <2>2, <1>8, <1>10, <1>11
<1>17. Counted(n)
  <2>1. IsFiniteSet(Used(l) \ gone)
    <3>1. Used(l) \ gone \in SUBSET Used(l) OBVIOUS
    <3> QED BY <3>1, UsedFinite
  <2>2. slot \notin Used(l) \ gone BY <1>2
  <2>3. Cardinality((Used(l) \ gone) \cup {slot}) = Cardinality(Used(l) \ gone) + 1
    BY <2>1, <2>2, FS_AddElement
  <2> QED BY <2>3, <1>7, <1>8, <1>11, <1>14 DEF Counted
<1>18. FirstFree(n)
  <2>1. Slots \ Used(n) = open \ {i \in open : i \in Used(l) /\ i # free}
    <3>1. ASSUME NEW i \in Slots \ Used(n) PROVE i \in open /\ ~(i \in Used(l) /\ i # free)
      <4>1. i # slot /\ (i \notin Used(l) \/ i = free) BY <1>14
      <4>2. CASE i \notin Used(l)
        <5>1. slot <= i BY <4>2, <1>2
        <5>2. i > slot BY <4>1, <5>1, <1>3, SlotsFinite
        <5>3. i \notin Active(l, now) BY <4>2 DEF Active
        <5> QED BY <4>2, <5>2, <5>3
      <4>3. CASE i = free /\ i \in Used(l)
        <5>1. free # -1 BY <4>3, SlotsFinite
        <5> QED BY <4>3, <5>1, <1>5
      <4> QED BY <4>1, <4>2, <4>3
    <3>2. ASSUME NEW i \in open, ~(i \in Used(l) /\ i # free) PROVE i \in Slots \ Used(n)
      <4>1. i \in Slots /\ i > slot OBVIOUS
      <4>2. i # slot BY <4>1, <1>3
      <4> QED BY <3>2, <4>1, <4>2, <1>14
    <3> QED BY <3>1, <3>2
  <2>2. CASE open = {}
    <3>1. Slots \ Used(n) = {} BY <2>1, <2>2
    <3> QED BY <3>1, <2>2, <1>5, <1>11 DEF FirstFree, LowestOf
  <2>3. CASE open # {}
    <3>1. free \in open /\ \A y \in open : free <= y BY <2>3, <1>5
    <3>2. free \in Slots \ Used(n) /\ \A y \in Slots \ Used(n) : free <= y BY <3>1, <2>1
    <3>3. Slots \ Used(n) \in SUBSET Slots OBVIOUS
    <3>4. LowestOf(Slots \ Used(n)) = free BY <3>2, <3>3, LowestUnique
    <3> QED BY <3>4, <1>11 DEF FirstFree
  <2> QED BY <2>2, <2>3
<1>19. Addressed(n) /\ Distinct(n)
  <2>1. \A i \in Used(n) : i # slot => i \in Used(l) /\ n.servers[i] = l.servers[i] /\ n.servers[i].address # a
    BY <1>16
  <2>2. n.servers[slot].address = a
    BY <1>15, NewServerType
  <2>3. Addressed(l) /\ Distinct(l)
    BY DEF ListInv
  <2>4. Addressed(n)
    <3> SUFFICES ASSUME NEW i \in Used(n) PROVE n.servers[i].address \in Address
      BY DEF Addressed
    <3>1. CASE i = slot BY <3>1, <2>2
    <3>2. CASE i # slot BY <3>2, <2>1, <2>3 DEF Addressed
    <3> QED BY <3>1, <3>2
  <2>5. Distinct(n)
    <3> SUFFICES ASSUME NEW i \in Used(n), NEW j \in Used(n), n.servers[i].address = n.servers[j].address
                 PROVE  i = j
      BY DEF Distinct
    <3>1. CASE i = slot BY <3>1, <2>1, <2>2
    <3>2. CASE j = slot BY <3>2, <2>1, <2>2
    <3>3. CASE i # slot /\ j # slot
      <4>1. i \in Used(l) /\ j \in Used(l) /\ l.servers[i].address = l.servers[j].address BY <3>3, <2>1
      <4> QED BY <4>1, <2>3 DEF Distinct
    <3> QED BY <3>1, <3>2, <3>3
  <2> QED BY <2>4, <2>5
<1>20. EndKnown(n)
  <2> DEFINE end == max_nb_servers - 1
  <2> SUFFICES ASSUME end \in Used(n) PROVE n.last_used_slot = end
    BY DEF EndKnown
  <2>1. end \in Slots /\ end \in Int /\ \A i \in Slots : i <= end
    BY SlotsFinite
  <2>2. LastAfter(l) = end
    <3>1. CASE slot = end
      <4>1. LastAfter(l) \in Slots BY <3>1, <2>1, <1>3, <1>4, SlotsFinite
      <4>2. LastAfter(l) <= end BY <4>1, <2>1
      <4> QED BY <3>1, <4>2, <1>4, <2>1
    <3>2. CASE slot # end
      <4>1. end \in Used(l) BY <3>2, <1>16
      <4>2. l.last_used_slot = end BY <4>1 DEF ListInv, EndKnown
      <4> QED BY <4>2, <2>1, <1>3, <1>4, SlotsFinite
    <3> QED BY <3>1, <3>2
  <2>3. end \notin gone
    BY <1>13, <1>14
  <2> QED BY <2>2, <2>3, <1>8, <1>11
<1>21. Bounded(n)
  BY <1>8, <1>11 DEF Bounded
<1>22. ListInv(n)
  BY <1>12, <1>17, <1>18, <1>19, <1>20, <1>21 DEF ListInv
<1>23. gone \subseteq Dead(l, now)
  <2> SUFFICES ASSUME free \in Used(l) PROVE free \in Dead(l, now)
    OBVIOUS
  <2>1. free \in Slots /\ free # -1
    BY UsedFinite, SlotsFinite
  <2>2. free \in open
    BY <1>5, <2>1
  <2> QED BY <2>2 DEF Active
<1> QED BY <1>2, <1>22, <1>23, <1>14, <1>15, <1>16 DEF n

(* What is written to the record of a used slot, short of its address and  *)
(* its being used, leaves the list in order.                               *)
LEMMA UpdateInv ==
  ASSUME NEW l, ListInv(l), NEW i \in Used(l), NEW sv \in Server,
         sv.state # "unused_slot", sv.address = l.servers[i].address
  PROVE  LET m == [l EXCEPT !.servers[i] = sv]
         IN  /\ ListInv(m)
             /\ Used(m) = Used(l)
             /\ m.servers[i] = sv
             /\ \A j \in Used(l) \ {i} : m.servers[j] = l.servers[j]
<1> DEFINE m == [l EXCEPT !.servers[i] = sv]
<1>1. l \in ServerList /\ i \in Slots /\ l.servers \in [Slots -> Server]
  BY UsedFinite DEF ListInv, ServerList
<1>2. /\ m.servers = [l.servers EXCEPT ![i] = sv]
      /\ m.nb_servers = l.nb_servers
      /\ m.last_used_slot = l.last_used_slot
      /\ m.first_free_slot = l.first_free_slot
      /\ m.crt_server_ind = l.crt_server_ind
      /\ m.last_server_ind = l.last_server_ind
      /\ m \in ServerList
  BY <1>1 DEF ServerList
<1> HIDE DEF m
<1>3. m.servers[i] = sv /\ \A j \in Slots \ {i} : m.servers[j] = l.servers[j]
  BY <1>1, <1>2
<1>4. Used(m) = Used(l)
  BY <1>1, <1>3 DEF Used
<1>5. \A j \in Used(m) : j \in Used(l) /\ m.servers[j].address = l.servers[j].address
  BY <1>3, <1>4, UsedFinite
<1>6. Addressed(m) /\ Distinct(m)
  BY <1>5 DEF ListInv, Addressed, Distinct
<1>7. Counted(m) /\ FirstFree(m) /\ EndKnown(m) /\ Bounded(m)
  BY <1>2, <1>4 DEF ListInv, Counted, FirstFree, EndKnown, Bounded
<1>8. ListInv(m)
  BY <1>2, <1>6, <1>7 DEF ListInv
<1> QED BY <1>3, <1>4, <1>8, UsedFinite DEF m

(* Starting or continuing an iteration keeps it below last_used_slot.      *)
LEMMA IterateInv ==
  ASSUME NEW l, ListInv(l), l.last_used_slot >= 0
  PROVE  /\ ListInv(Sv_GetNext(l))
         /\ Sv_GetNext(l).servers = l.servers
         /\ \A start \in 0 .. l.last_used_slot :
              /\ ListInv(Sv_GetFirst(l, start))
              /\ Sv_GetFirst(l, start).servers = l.servers
<1>1. /\ l \in ServerList
      /\ l.last_used_slot \in Slots
      /\ l.crt_server_ind \in Slots \cup {-1}
      /\ l.last_server_ind \in Slots \cup {-1}
  BY SlotsFinite DEF ListInv, ServerList
<1>2. l.last_used_slot \in Nat /\ l.last_used_slot <= max_nb_servers - 1 /\ l.crt_server_ind \in Int
      /\ max_nb_servers - 1 \in Nat
  BY <1>1, SlotsFinite
<1>3. ASSUME NEW c \in 0 .. l.last_used_slot, NEW e \in -1 .. l.last_used_slot
      PROVE  /\ ListInv([l EXCEPT !.crt_server_ind = c, !.last_server_ind = e])
             /\ [l EXCEPT !.crt_server_ind = c, !.last_server_ind = e].servers = l.servers
  <2> DEFINE m == [l EXCEPT !.crt_server_ind = c, !.last_server_ind = e]
  <2>1. c \in Slots /\ e \in Slots \cup {-1} /\ c <= l.last_used_slot /\ e <= l.last_used_slot
    BY <1>2, SlotsFinite
  <2>2. /\ m \in ServerList
        /\ m.servers = l.servers
        /\ m.nb_servers = l.nb_servers
        /\ m.last_used_slot = l.last_used_slot
        /\ m.first_free_slot = l.first_free_slot
        /\ m.crt_server_ind = c
        /\ m.last_server_ind = e
    BY <1>1, <2>1 DEF ServerList
  <2> HIDE DEF m
  <2>3. Used(m) = Used(l) BY <2>2 DEF Used
  <2>4. ListInv(m)
    BY <2>1, <2>2, <2>3 DEF ListInv, Counted, FirstFree, Addressed, Distinct, EndKnown, Bounded
  <2> QED BY <2>2, <2>4 DEF m
<1>4. ListInv(Sv_GetNext(l)) /\ Sv_GetNext(l).servers = l.servers
  <2> DEFINE c == (l.crt_server_ind + 1) % (l.last_used_slot + 1)
             e == l.last_server_ind
  <2>1. c \in 0 .. l.last_used_slot BY <1>2
  <2>2. e \in -1 .. l.last_used_slot BY <1>1, <1>2, SlotsFinite DEF ListInv, Bounded
  <2>3. Sv_GetNext(l) = [l EXCEPT !.crt_server_ind = c, !.last_server_ind = e]
    BY <1>1 DEF Sv_GetNext, ServerList
  <2> HIDE DEF c, e
  <2>4. ListInv([l EXCEPT !.crt_server_ind = c, !.last_server_ind = e])
        /\ [l EXCEPT !.crt_server_ind = c, !.last_server_ind = e].servers = l.servers
    BY <1>3, <2>1, <2>2
  <2> QED BY <2>3, <2>4
<1>5. ASSUME NEW start \in 0 .. l.last_used_slot
      PROVE  ListInv(Sv_GetFirst(l, start)) /\ Sv_GetFirst(l, start).servers = l.servers
  <2> DEFINE e == IF start = 0 THEN l.last_used_slot ELSE start - 1
  <2>1. e \in -1 .. l.last_used_slot BY <1>2
  <2>2. Sv_GetFirst(l, start) = [l EXCEPT !.crt_server_ind = start, !.last_server_ind = e]
    BY DEF Sv_GetFirst
  <2> HIDE DEF e
  <2>3. ListInv([l EXCEPT !.crt_server_ind = start, !.last_server_ind = e])
        /\ [l EXCEPT !.crt_server_ind = start, !.last_server_ind = e].servers = l.servers
    BY <1>3, <2>1
  <2> QED BY <2>2, <2>3
<1> QED BY <1>4, <1>5
=============================================================================
