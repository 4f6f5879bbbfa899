------------------------------ MODULE Routing -------------------------------
(***************************************************************************)
(* The routing tables of hupsim.pl: NSRouter::createTable, Dijkstra's      *)
(* algorithm with links of unit weight, run for one router after another   *)
(* on fields of the routers themselves.  It sets distance and done anew    *)
(* for every router, but predecessor is left over from the run before.     *)
(***************************************************************************)
EXTENDS Naturals, Sequences, FiniteSetsExt

CONSTANTS
    NRouters,        \* routers are numbered, as in topo.map
    INFINITY         \* 65535

ASSUME Routing_Assumption ==
    NRouters \in Nat \ {0} /\ INFINITY \in Nat /\ INFINITY > NRouters

Routers == 1 .. NRouters
Nobody == 0

\* The fields of all routers before the search from self.
Unvisited(self, predecessor) ==
    [done |-> {},
     distance |-> [v \in Routers |-> IF v = self THEN 0 ELSE INFINITY],
     predecessor |-> predecessor]

\* The first of the nearest routers that are not done.
Nearest(t) ==
    LET near == {v \in Routers \ t.done :
                    \A w \in Routers \ t.done : t.distance[v] <= t.distance[w]}
    IN  Min(near)

\* Mutant: the distances are compared before the link is added.
VisitedEqual(t, next, links) ==
    LET closer == {v \in Routers : /\ <<next, v>> \in links
                                   /\ t.distance[v] >= t.distance[next]}
    IN  [done |-> t.done \cup {next},
         distance |-> [v \in Routers |->
             IF v \in closer THEN t.distance[next] + 1 ELSE t.distance[v]],
         predecessor |-> [v \in Routers |->
             IF v \in closer THEN next ELSE t.predecessor[v]]]

\* The links of next are relaxed.
Visited(t, next, links) ==
    LET weight == t.distance[next] + 1
        closer == {v \in Routers : <<next, v>> \in links /\ t.distance[v] > weight}
    IN  [done |-> t.done \cup {next},
         distance |-> [v \in Routers |->
             IF v \in closer THEN weight ELSE t.distance[v]],
         predecessor |-> [v \in Routers |->
             IF v \in closer THEN next ELSE t.predecessor[v]]]

\* The search from self, which visits as many routers as there are.
Search(self, predecessor, links) ==
    LET after[n \in 0 .. NRouters] ==
            IF n = 0 THEN Unvisited(self, predecessor)
            ELSE LET t == after[n - 1] IN Visited(t, Nearest(t), links)
    IN  after[NRouters]

\* The router behind self on the way to dest: predecessors are followed from
\* dest until the one that was reached from self.
StartRoute(self, dest, predecessor) ==
    LET back[n \in 0 .. NRouters] ==
            IF n = 0 THEN dest
            ELSE LET v == back[n - 1]
                 IN  IF predecessor[v] = self THEN v ELSE predecessor[v]
    IN  back[NRouters]

\* The loop over all routers: each one's table says, for every destination,
\* to which neighbour a packet goes.
CreateTables(links) ==
    LET run[n \in 0 .. NRouters] ==
            IF n = 0 THEN [predecessor |-> [v \in Routers |-> Nobody], tables |-> <<>>]
            ELSE LET before == run[n - 1]
                     p == Search(n, before.predecessor, links).predecessor
                 IN  [predecessor |-> p,
                      tables |-> Append(before.tables,
                          [dest \in Routers \ {n} |-> StartRoute(n, dest, p)])]
    IN  run[NRouters].tables

-----------------------------------------------------------------------------
\* Reference definitions: the routers at most n links away from r, ...
Ball(r, n, links) ==
    LET ball[k \in 0 .. n] ==
            IF k = 0 THEN {r}
            ELSE LET b == ball[k - 1]
                 IN  b \cup {v \in Routers : \E u \in b : <<u, v>> \in links}
    IN  ball[n]

\* ... how many links there are between two routers, ...
Hops(r, s, links) == Min({n \in 0 .. NRouters : s \in Ball(r, n, links)})

\* ... and whether any two are connected.
Connected(links) == \A r \in Routers : Ball(r, NRouters, links) = Routers

\* Where a packet from r to s is after n links.
After(n, r, s, tables) ==
    LET next == [v \in Routers |-> IF v = s THEN s ELSE tables[v][s]]
        at[k \in 0 .. n] == IF k = 0 THEN r ELSE next[at[k - 1]]
    IN  at[n]
=============================================================================
