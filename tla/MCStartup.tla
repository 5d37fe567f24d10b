------------------------------ MODULE MCStartup ------------------------------
(* Command lines for TLC: pairs of clauses of one subject, single clauses   *)
(* of all, the other options around a --listen, and nine --listen in a row.*)
EXTENDS Startup, TLC

O(option) == <<[option |-> option, attached |-> FALSE, text |-> "dash"]>>
A(option, text) == <<[option |-> option, attached |-> TRUE, text |-> text]>>
V(text) == <<[option |-> "value", attached |-> FALSE, text |-> text]>>

Games == {"g1", "g2", "g3"}
Numbers == ("0" :> 0 @@ "3" :> 3 @@ "17" :> 17 @@ "65536" :> 65536 @@ "65539" :> 65539)
Sources == {"a", "a1", "a2", "b", "b1", "zero"}
Mappings == [v \in {f \o "=c" : f \in Sources} |-> <<CHOOSE f \in Sources : v = f \o "=c", "c">>]
            @@ ("a=loop" :> <<"a", "loop">> @@ "a=unknown" :> <<"a", "unknown">>)
IPv4Names ==
  "a" :> [ip |-> 7, port |-> 0] @@ "a1" :> [ip |-> 7, port |-> 1] @@ "a2" :> [ip |-> 7, port |-> 2]
  @@ "b" :> [ip |-> 5, port |-> 0] @@ "b1" :> [ip |-> 5, port |-> 1] @@ "c" :> [ip |-> 6, port |-> 0]
  @@ "zero" :> [ip |-> 0, port |-> 0] @@ "loop" :> [ip |-> 127, port |-> 0]
AnyNames == "a" :> [family |-> "AF_INET", port |-> 0] @@ "a1" :> [family |-> "AF_INET", port |-> 1]
            @@ "six" :> [family |-> "AF_INET6", port |-> 0]

(* In the order of strcmp.                                                 *)
Sorted == <<"", "0", "17", "3", "65536", "65539", "a", "a1", "a1=c", "a2", "a2=c",
             "a=c", "a=loop", "a=unknown", "accept", "b", "b1",
             "b1=c", "b=c", "c", "dash", "g1", "g2", "g3",
             "loop", "reject", "six", "unknown", "zero", "zero=c">>
Strings == ToSet(Sorted)
StrCmp == [v \in Strings |-> CHOOSE n \in DOMAIN Sorted : Sorted[n] = v]

(* Sequences of one to three games.                                        *)
GameLists == UNION {[1 .. n -> Games] : n \in 1 .. 3}
Policies == {O("game-policy") \o V("accept") \o FlattenSeq([i \in DOMAIN g |-> V(g[i])]) : g \in GameLists}
            \cup {O("game-policy") \o V("reject") \o V(g) : g \in Games}
            \cup {O("game-policy") \o V("g1") \o V("g2"), O("game-policy") \o V("accept"),
                  A("game-policy", "accept") \o V("g1"), O("game-policy") \o V("accept") \o O("help") \o V("g1")}
Maps == {O("map") \o V(m) \o O("map") \o V(n) : m, n \in {f \o "=c" : f \in Sources \ {"zero"}}}
        \cup {O("map") \o V(m) : m \in {"a=c", "zero=c", "a=loop", "a=unknown", "g1"}}
Listens == {O("listen") \o V(v) : v \in {"a", "a1", "six", "unknown", ""}} \cup {A("listen", "six"), A("listen", "a") \o V("a1")}
Others == {O("port") \o V(v) : v \in {"0", "3", "17", "65536", "65539", "g1"}}
          \cup {O(o) : o \in Flag \cup {"unknown", "verbose", "port"}} \cup {A("verbose", "3"), A("verbose", "17"), A("help", "3")}
          \cup {V("g1"), O("hash-size") \o V("17"), O("hash-size") \o V("3"), O("max-servers") \o V("0"), A("max-servers", "3"),
                A("max-servers-per-addr", "0"), O("log-file") \o V(""), A("info-file", "g1"), O("user") \o V("g1"), A("jail-path", "g1")}

Full == FlattenSeq([i \in 1 .. 9 |-> O("listen") \o V("a")])
Pairs(C, D) == {c \o d : c \in C, d \in D}

CommandLines ==
  {<<>>, Full} \cup Policies \cup Maps \cup Listens \cup Others
  \cup Pairs(Policies, Policies) \cup Pairs(Maps, Maps)
  \cup Pairs(Listens \cup Others, Listens \cup Others)

PlainLines == {<<>>, O("log"), O("port") \o V("3")}
=============================================================================
