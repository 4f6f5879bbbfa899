---------------------------- MODULE RoutingProofs ----------------------------
(***************************************************************************)
(* createTable of hupsim.pl, for every number of routers and every         *)
(* topology: the search leaves the distances and a nearer neighbour for    *)
(* everyone (SearchIs), although it begins with what another search left   *)
(* in predecessor; the tables go from neighbour to nearer neighbour        *)
(* (CreateTablesIs); and so a packet arrives on a shortest way (Reaches).  *)
(*                                                                         *)
(* Induction is on sets of numbers (LeastNumber, Induction), and Recursion *)
(* is what the recursive functions of Routing are unfolded with.           *)
(***************************************************************************)
EXTENDS Routing, WellFoundedInduction, FiniteSetTheorems, TLAPS

\* A set of numbers that holds something holds a least number.
LEMMA LeastNumber ==
    ASSUME NEW S \in SUBSET Nat, S # {}
    PROVE  Min(S) \in S /\ \A k \in S : Min(S) <= k
<1>1. PICK m \in S : \A k \in S : <<k, m>> \notin OpToRel(<, Nat)
  BY WFMin, NatLessThanWellFounded
<1>2. \A k \in S : <<k, m>> \in Nat \X Nat /\ <<k, m>>[1] = k /\ <<k, m>>[2] = m
  OBVIOUS
<1>3. \A k \in S : ~(k < m)
  BY <1>1, <1>2, Zenon DEF OpToRel
<1>4. \A k \in S : m <= k
  BY <1>3
<1> QED
  BY <1>4 DEF Min

\* Induction, for properties given as sets.
LEMMA Induction ==
    ASSUME NEW N \in Nat, NEW S, 0 \in S,
           \A n \in 0 .. N - 1 : n \in S => n + 1 \in S
    PROVE  \A n \in 0 .. N : n \in S
<1> SUFFICES ASSUME NEW k \in 0 .. N, k \notin S PROVE FALSE
  OBVIOUS
<1> DEFINE Bad == {n \in 0 .. N : n \notin S}
           m == Min(Bad)
<1>1. Bad \in SUBSET Nat /\ Bad # {}
  OBVIOUS
<1>2. m \in Bad /\ \A j \in Bad : m <= j
  BY <1>1, LeastNumber, Zenon
<1> HIDE DEF m
<1>3. m \in Nat /\ m # 0 /\ m <= N /\ m \notin S
  BY <1>2
<1>4. m - 1 \in 0 .. N - 1 /\ m - 1 + 1 = m
  BY <1>3
<1>5. m - 1 \in S
  <2> SUFFICES ASSUME m - 1 \notin S PROVE FALSE
    OBVIOUS
  <2>1. m - 1 \in Bad
    BY <1>4
  <2> QED
    BY <2>1, <1>2, <1>3
<1> QED
  BY <1>3, <1>4, <1>5

\* f begins with c, and next gives each value from the one before.
Recursive(f, N, T, c, next) ==
    /\ f \in [0 .. N -> T]
    /\ f[0] = c
    /\ \A n \in 1 .. N : f[n] = next[<<n, f[n - 1]>>]

\* Such a function exists.
LEMMA Recursion ==
    ASSUME NEW N \in Nat, NEW T, NEW c \in T, NEW next \in [(1 .. N) \X T -> T]
    PROVE  \E f : Recursive(f, N, T, c, next)
<1> DEFINE Good(n) == \E f \in [0 .. n -> T] :
              /\ f[0] = c
              /\ \A k \in 1 .. n : f[k] = next[<<k, f[k - 1]>>]
           S == {n \in 0 .. N : Good(n)}
<1>1. 0 \in S
  <2> DEFINE g == [k \in 0 .. 0 |-> c]
  <2>1. g \in [0 .. 0 -> T] /\ g[0] = c /\ \A k \in 1 .. 0 : FALSE
    OBVIOUS
  <2> HIDE DEF g
  <2>2. Good(0)
    BY <2>1
  <2> QED
    BY <2>2
<1>2. ASSUME NEW n \in 0 .. N - 1, n \in S PROVE n + 1 \in S
  <2>1. PICK f \in [0 .. n -> T] :
              /\ f[0] = c
              /\ \A k \in 1 .. n : f[k] = next[<<k, f[k - 1]>>]
    BY <1>2
  <2> DEFINE g == [k \in 0 .. n + 1 |->
                      IF k = n + 1 THEN next[<<n + 1, f[n]>>] ELSE f[k]]
  <2>2. <<n + 1, f[n]>> \in (1 .. N) \X T
    BY <2>1
  <2>3. next[<<n + 1, f[n]>>] \in T
    BY <2>2
  <2>4. g \in [0 .. n + 1 -> T]
    BY <2>1, <2>3
  <2>5. /\ g[n + 1] = next[<<n + 1, f[n]>>]
        /\ \A k \in 0 .. n : g[k] = f[k]
    OBVIOUS
  <2> HIDE DEF g
  <2>6. ASSUME NEW k \in 1 .. n + 1 PROVE g[k] = next[<<k, g[k - 1]>>]
    <3>1. CASE k = n + 1
      <4>1. k - 1 = n /\ n \in 0 .. n
        BY <3>1
      <4> QED
        BY <3>1, <4>1, <2>5
    <3>2. CASE k # n + 1
      <4>1. k \in 1 .. n /\ k - 1 \in 0 .. n /\ k \in 0 .. n
        BY <3>2
      <4> QED
        BY <4>1, <2>1, <2>5
    <3> QED
      BY <3>1, <3>2
  <2>7. Good(n + 1)
    BY <2>1, <2>4, <2>5, <2>6
  <2>8. n + 1 \in 0 .. N
    OBVIOUS
  <2> QED
    BY <2>7, <2>8
<1>3. \A n \in 0 .. N : n \in S
  <2> HIDE DEF S
  <2> QED
    BY <1>1, <1>2, Induction
<1> QED
  BY <1>3 DEF Recursive

-----------------------------------------------------------------------------
(* Following the tables. *)

\* Tables that send a packet for s from router to router.
Leads(s, tables) == \A v \in Routers \ {s} : tables[v][s] \in Routers

\* f is the way from r to s, n steps of it.
IsWay(f, n, r, s, tables) ==
    /\ f \in [0 .. n -> Routers]
    /\ f[0] = r /\ After(n, r, s, tables) = f[n]
    /\ \A k \in 1 .. n : f[k] = IF f[k - 1] = s THEN s ELSE tables[f[k - 1]][s]

\* The way from r to s, as the recursive function After is made from.
LEMMA Way ==
    ASSUME NEW n \in Nat, NEW r \in Routers, NEW s \in Routers, NEW tables,
           Leads(s, tables)
    PROVE  \E f : IsWay(f, n, r, s, tables)
<1> DEFINE next == [v \in Routers |-> IF v = s THEN s ELSE tables[v][s]]
           step == [x \in (1 .. n) \X Routers |-> next[x[2]]]
           at == CHOOSE at : at = [k \in 0 .. n |-> IF k = 0 THEN r ELSE next[at[k - 1]]]
<1>1. next \in [Routers -> Routers]
  BY DEF Leads
<1>2. step \in [(1 .. n) \X Routers -> Routers]
  <2> HIDE DEF next
  <2> QED BY <1>1
<1>3. \A k \in 1 .. n : \A v \in Routers : step[<<k, v>>] = next[v]
  OBVIOUS
<1>4. \A v \in Routers : next[v] = IF v = s THEN s ELSE tables[v][s]
  OBVIOUS
<1> HIDE DEF step, next
<1>5. PICK f : Recursive(f, n, Routers, r, step)
  BY <1>2, Recursion
<1>6. \A k \in 1 .. n : k - 1 \in 0 .. n /\ f[k - 1] \in Routers
  BY <1>5 DEF Recursive
<1>7. \A k \in 1 .. n : f[k] = next[f[k - 1]]
  BY <1>3, <1>5, <1>6 DEF Recursive
<1>8. f = [k \in 0 .. n |-> IF k = 0 THEN r ELSE next[f[k - 1]]]
  BY <1>5, <1>7 DEF Recursive
<1>9. at = [k \in 0 .. n |-> IF k = 0 THEN r ELSE next[at[k - 1]]]
  BY <1>8
<1>10. at \in [0 .. n -> Routers]
  <2> DEFINE S == {k \in 0 .. n : at[k] \in Routers}
  <2> HIDE DEF at
  <2>1. 0 \in S
    BY <1>9
  <2>2. ASSUME NEW k \in 0 .. n - 1, k \in S PROVE k + 1 \in S
    <3>1. k + 1 \in 0 .. n /\ k + 1 # 0 /\ k + 1 - 1 = k
      OBVIOUS
    <3> QED
      BY <3>1, <2>2, <1>9, <1>1
  <2>3. \A k \in 0 .. n : k \in S
    <3> HIDE DEF S
    <3> QED
      BY <2>1, <2>2, Induction
  <2> QED
    BY <2>3, <1>9
<1>11. After(n, r, s, tables) = at[n]
  BY DEF After, next
<1>12. /\ at[0] = r
       /\ \A k \in 1 .. n : at[k] = next[at[k - 1]]
  <2> HIDE DEF at
  <2> QED
    BY <1>9
<1> HIDE DEF at
<1>13. \A k \in 1 .. n : at[k] = IF at[k - 1] = s THEN s ELSE tables[at[k - 1]][s]
  <2> SUFFICES ASSUME NEW k \in 1 .. n
               PROVE  at[k] = IF at[k - 1] = s THEN s ELSE tables[at[k - 1]][s]
    OBVIOUS
  <2>1. at[k - 1] \in Routers
    BY <1>10
  <2> QED
    BY <2>1, <1>4, <1>12
<1> QED
  BY <1>10, <1>11, <1>12, <1>13 DEF IsWay

\* No step has been taken: the packet is where it was.
LEMMA FirstAfter ==
    ASSUME NEW r \in Routers, NEW s \in Routers, NEW tables, Leads(s, tables)
    PROVE  After(0, r, s, tables) = r
<1>1. PICK f : IsWay(f, 0, r, s, tables)
  BY Way
<1> QED
  BY <1>1 DEF IsWay

\* The next step goes where the table of that router says.
LEMMA NextAfter ==
    ASSUME NEW n \in Nat, NEW r \in Routers, NEW s \in Routers, NEW tables,
           Leads(s, tables)
    PROVE  LET v == After(n, r, s, tables)
           IN  /\ v \in Routers
               /\ After(n + 1, r, s, tables) = IF v = s THEN s ELSE tables[v][s]
<1>1. PICK f : IsWay(f, n, r, s, tables)
  BY Way
<1>2. PICK g : IsWay(g, n + 1, r, s, tables)
  <2>1. n + 1 \in Nat
    OBVIOUS
  <2> QED
    BY <2>1, Way, Zenon
<1> DEFINE S == {k \in 0 .. n : f[k] = g[k]}
<1>3. 0 \in S
  BY <1>1, <1>2 DEF IsWay
<1>4. ASSUME NEW k \in 0 .. n - 1, k \in S PROVE k + 1 \in S
  <2>1. k + 1 \in 1 .. n /\ k + 1 - 1 = k /\ k + 1 \in 1 .. n + 1
    OBVIOUS
  <2>2. f[k + 1] = IF f[k] = s THEN s ELSE tables[f[k]][s]
    BY <1>1, <2>1 DEF IsWay
  <2>3. g[k + 1] = IF g[k] = s THEN s ELSE tables[g[k]][s]
    BY <1>2, <2>1 DEF IsWay
  <2> QED
    BY <1>4, <2>1, <2>2, <2>3
<1>5. \A k \in 0 .. n : k \in S
  <2> HIDE DEF S
  <2> QED
    BY <1>3, <1>4, Induction
<1>6. f[n] = g[n] /\ n + 1 \in 1 .. n + 1 /\ n + 1 - 1 = n
  BY <1>5
<1> QED
  BY <1>1, <1>2, <1>6 DEF IsWay

\* Who has arrived stays where he is.
LEMMA StaysThere ==
    ASSUME NEW n \in Nat, NEW r \in Routers, NEW s \in Routers, NEW tables,
           Leads(s, tables), After(n, r, s, tables) = s, NEW m \in Nat
    PROVE  After(n + m, r, s, tables) = s
<1> DEFINE S == {k \in 0 .. m : After(n + k, r, s, tables) = s}
<1>1. 0 \in S
  OBVIOUS
<1>2. ASSUME NEW k \in 0 .. m - 1, k \in S PROVE k + 1 \in S
  <2>1. n + k \in Nat /\ k + 1 \in 0 .. m /\ n + k + 1 = n + (k + 1)
    OBVIOUS
  <2>2. After(n + k + 1, r, s, tables) = s
    BY <1>2, <2>1, NextAfter
  <2> QED
    BY <2>1, <2>2
<1>3. \A k \in 0 .. m : k \in S
  <2> HIDE DEF S
  <2> QED
    BY <1>1, <1>2, Induction
<1> QED
  BY <1>3

\* Who is at the same place twice goes round in a circle.
LEMMA GoesRound ==
    ASSUME NEW j \in Nat, NEW k \in Nat, NEW r \in Routers, NEW s \in Routers,
           NEW tables, Leads(s, tables),
           After(j, r, s, tables) = After(k, r, s, tables), NEW m \in Nat
    PROVE  After(j + m, r, s, tables) = After(k + m, r, s, tables)
<1> DEFINE S == {i \in 0 .. m : After(j + i, r, s, tables) = After(k + i, r, s, tables)}
<1>1. 0 \in S
  OBVIOUS
<1>2. ASSUME NEW i \in 0 .. m - 1, i \in S PROVE i + 1 \in S
  <2>1. /\ j + i \in Nat /\ k + i \in Nat /\ i + 1 \in 0 .. m
        /\ j + i + 1 = j + (i + 1) /\ k + i + 1 = k + (i + 1)
    OBVIOUS
  <2>2. After(j + i, r, s, tables) = After(k + i, r, s, tables)
    BY <1>2
  <2> HIDE DEF S
  <2>3. ASSUME NEW a \in Nat
        PROVE  LET v == After(a, r, s, tables)
               IN  After(a + 1, r, s, tables) = IF v = s THEN s ELSE tables[v][s]
    BY NextAfter
  <2>4. After(j + i + 1, r, s, tables) = After(k + i + 1, r, s, tables)
    <3>1. LET v == After(j + i, r, s, tables)
          IN  After(j + i + 1, r, s, tables) = IF v = s THEN s ELSE tables[v][s]
      BY <2>1, <2>3
    <3>2. LET v == After(k + i, r, s, tables)
          IN  After(k + i + 1, r, s, tables) = IF v = s THEN s ELSE tables[v][s]
      BY <2>1, <2>3
    <3> QED
      BY <2>2, <3>1, <3>2
  <2> QED
    BY <2>1, <2>4 DEF S
<1>3. \A i \in 0 .. m : i \in S
  <2> HIDE DEF S
  <2> QED
    BY <1>1, <1>2, Induction
<1> QED
  BY <1>3

\* Who arrives has not been anywhere twice.
LEMMA NoCircle ==
    ASSUME NEW j \in Nat, NEW k \in Nat, NEW r \in Routers, NEW s \in Routers,
           NEW tables, Leads(s, tables), NEW n \in Nat,
           After(n, r, s, tables) = s,
           After(j, r, s, tables) = After(k, r, s, tables), j < k
    PROVE  After(j, r, s, tables) = s
<1> DEFINE S == {i \in 0 .. n : After(i, r, s, tables) = s}
           h == Min(S)
<1>0. \A m \in Nat : After(j + m, r, s, tables) = After(k + m, r, s, tables)
  <2> SUFFICES ASSUME NEW m \in Nat
               PROVE  After(j + m, r, s, tables) = After(k + m, r, s, tables)
    OBVIOUS
  <2> HIDE DEF S, h
  <2> QED
    BY GoesRound
<1>1. S \in SUBSET Nat /\ S # {}
  OBVIOUS
<1>2. h \in S /\ \A i \in S : h <= i
  BY <1>1, LeastNumber, Zenon
<1> HIDE DEF h
<1>3. h \in Nat /\ h <= n /\ After(h, r, s, tables) = s
  BY <1>2
<1>4. CASE h <= k
  <2>1. k - h \in Nat /\ h + (k - h) = k
    BY <1>3, <1>4
  <2> QED
    BY <1>3, <2>1, StaysThere
<1>5. CASE h > k
  <2>1. PICK m \in Nat : k + m = h /\ j + m \in 0 .. n /\ j + m < h
    <3>1. h - k \in Nat /\ k + (h - k) = h /\ j + (h - k) \in 0 .. n /\ j + (h - k) < h
      BY <1>3, <1>5
    <3> QED
      BY <3>1
  <2>2. After(j + m, r, s, tables) = After(k + m, r, s, tables)
    BY <1>0
  <2>3. j + m \in S
    BY <1>3, <2>1, <2>2
  <2> QED
    BY <1>2, <1>3, <2>1, <2>3
<1> QED
  BY <1>3, <1>4, <1>5

-----------------------------------------------------------------------------
(* Connected routers. *)

\* Routers that are connected are at most NRouters links from each other.
LEMMA HopsInRange ==
    ASSUME NEW links, Connected(links), NEW r \in Routers, NEW s \in Routers
    PROVE  /\ Hops(r, s, links) \in 0 .. NRouters
           /\ s \in Ball(r, Hops(r, s, links), links)
           /\ \A n \in 0 .. NRouters :
                 s \in Ball(r, n, links) => Hops(r, s, links) <= n
<1> DEFINE S == {n \in 0 .. NRouters : s \in Ball(r, n, links)}
<1>1. NRouters \in S
  BY Routing_Assumption DEF Connected
<1>2. S \in SUBSET Nat /\ S # {}
  BY <1>1
<1>3. Min(S) \in S /\ \A n \in S : Min(S) <= n
  BY <1>2, LeastNumber, Zenon
<1> QED
  BY <1>3 DEF Hops

-----------------------------------------------------------------------------
(* Distances. *)

\* The routers in b and their neighbours.
Spread(b, links) == b \cup {v \in Routers : \E u \in b : <<u, v>> \in links}

\* f[k] are the routers at most k links away from r.
IsBall(f, n, r, links) ==
    /\ f \in [0 .. n -> SUBSET Routers]
    /\ f[0] = {r} /\ Ball(r, n, links) = f[n]
    /\ \A k \in 1 .. n : f[k] = Spread(f[k - 1], links)

\* The recursive function Ball, unfolded.
LEMMA BallDef ==
    ASSUME NEW n \in Nat, NEW r \in Routers, NEW links
    PROVE  \E f : IsBall(f, n, r, links)
<1> DEFINE T == SUBSET Routers
           step == [x \in (1 .. n) \X T |-> Spread(x[2], links)]
           ball == CHOOSE ball : ball = [k \in 0 .. n |->
                       IF k = 0 THEN {r}
                       ELSE Spread(ball[k - 1], links)]
<1>1. step \in [(1 .. n) \X T -> T] /\ {r} \in T
  BY DEF Spread
<1>2. \A k \in 1 .. n : \A b \in T : step[<<k, b>>] = Spread(b, links)
  OBVIOUS
<1> HIDE DEF step
<1>3. PICK f : Recursive(f, n, T, {r}, step)
  BY <1>1, Recursion
<1>4. ASSUME NEW k \in 1 .. n PROVE f[k] = Spread(f[k - 1], links)
  <2>1. k - 1 \in 0 .. n /\ f[k - 1] \in T /\ f[k] = step[<<k, f[k - 1]>>]
    BY <1>3 DEF Recursive
  <2> QED
    BY <1>2, <2>1
<1>5. f = [k \in 0 .. n |->
              IF k = 0 THEN {r}
              ELSE Spread(f[k - 1], links)]
  <2>1. \A k \in 0 .. n : k # 0 => k \in 1 .. n
    OBVIOUS
  <2>2. \A k \in 1 .. n : f[k] = Spread(f[k - 1], links)
    BY <1>4
  <2>3. f \in [0 .. n -> T] /\ f[0] = {r}
    BY <1>3 DEF Recursive
  <2> QED
    BY <2>1, <2>2, <2>3
<1>6. ball = [k \in 0 .. n |->
              IF k = 0 THEN {r}
              ELSE Spread(ball[k - 1], links)]
  BY <1>5
<1>7. Ball(r, n, links) = ball[n]
  BY DEF Ball, Spread
<1> HIDE DEF ball
<1>8. ball[0] = {r} /\ \A k \in 1 .. n : ball[k] = Spread(ball[k - 1], links)
  <2>1. \A k \in 1 .. n : k \in 0 .. n /\ k # 0
    OBVIOUS
  <2>2. 0 \in 0 .. n
    OBVIOUS
  <2>3. \A k \in 1 .. n : ball[k] = Spread(ball[k - 1], links)
    BY <1>6, <2>1
  <2>4. ball[0] = {r}
    BY <1>6, <2>2
  <2> QED
    BY <2>3, <2>4
<1>9. ball \in [0 .. n -> T]
  <2> DEFINE S == {k \in 0 .. n : ball[k] \in T}
  <2>1. 0 \in S
    BY <1>1, <1>8
  <2>2. ASSUME NEW k \in 0 .. n - 1, k \in S PROVE k + 1 \in S
    <3>1. k + 1 \in 1 .. n /\ k + 1 \in 0 .. n /\ k + 1 - 1 = k
      OBVIOUS
    <3>2. ball[k + 1] = Spread(ball[k], links)
      BY <1>8, <3>1
    <3> QED
      BY <2>2, <3>1, <3>2 DEF Spread
  <2>3. \A k \in 0 .. n : k \in S
    <3> HIDE DEF S
    <3> QED
      BY <2>1, <2>2, Induction
  <2> QED
    BY <1>6, <2>3
<1> QED
  BY <1>7, <1>8, <1>9 DEF IsBall

\* No link leads anywhere else, ...
LEMMA FirstBall ==
    ASSUME NEW r \in Routers, NEW links
    PROVE  Ball(r, 0, links) = {r}
<1>1. PICK f : IsBall(f, 0, r, links)
  BY BallDef
<1> QED
  BY <1>1 DEF IsBall

\* ... and one more link leads to the neighbours.
LEMMA NextBall ==
    ASSUME NEW n \in Nat, NEW r \in Routers, NEW links
    PROVE  /\ Ball(r, n, links) \subseteq Routers
           /\ Ball(r, n + 1, links) = Spread(Ball(r, n, links), links)
<1>1. PICK f : IsBall(f, n, r, links)
  BY BallDef
<1>2. PICK g : IsBall(g, n + 1, r, links)
  <2>1. n + 1 \in Nat
    OBVIOUS
  <2> QED
    BY <2>1, BallDef, Zenon
<1> DEFINE S == {k \in 0 .. n : f[k] = g[k]}
<1>3. 0 \in S
  <2>1. f[0] = {r} /\ g[0] = {r} /\ 0 \in 0 .. n
    BY <1>1, <1>2 DEF IsBall
  <2> QED
    BY <2>1
<1>4. ASSUME NEW k \in 0 .. n - 1, k \in S PROVE k + 1 \in S
  <2>1. k + 1 \in 1 .. n /\ k + 1 - 1 = k /\ k + 1 \in 1 .. n + 1 /\ k + 1 \in 0 .. n
    OBVIOUS
  <2>2. f[k + 1] = Spread(f[k], links)
    BY <1>1, <2>1 DEF IsBall
  <2>3. g[k + 1] = Spread(g[k], links)
    BY <1>2, <2>1 DEF IsBall
  <2> QED
    BY <1>4, <2>1, <2>2, <2>3
<1>5. \A k \in 0 .. n : k \in S
  <2> HIDE DEF S
  <2> QED
    BY <1>3, <1>4, Induction
<1>6. f[n] = g[n] /\ n + 1 \in 1 .. n + 1 /\ n + 1 - 1 = n /\ n \in 0 .. n
  BY <1>5
<1> QED
  BY <1>1, <1>2, <1>6 DEF IsBall

\* More links lead further.
LEMMA BallGrows ==
    ASSUME NEW n \in Nat, NEW m \in Nat, NEW r \in Routers, NEW links
    PROVE  Ball(r, n, links) \subseteq Ball(r, n + m, links)
<1> DEFINE S == {k \in 0 .. m : Ball(r, n, links) \subseteq Ball(r, n + k, links)}
<1>1. 0 \in S
  OBVIOUS
<1>2. ASSUME NEW k \in 0 .. m - 1, k \in S PROVE k + 1 \in S
  <2>1. n + k \in Nat /\ n + k + 1 = n + (k + 1) /\ k + 1 \in 0 .. m
    OBVIOUS
  <2>2. Ball(r, n + k + 1, links) = Spread(Ball(r, n + k, links), links)
    BY <2>1, NextBall
  <2> QED
    BY <1>2, <2>1, <2>2 DEF Spread
<1>3. \A k \in 0 .. m : k \in S
  <2> HIDE DEF S
  <2> QED
    BY <1>1, <1>2, Induction
<1> QED
  BY <1>3

\* A link in front of a way makes a way.
LEMMA LinkBefore ==
    ASSUME NEW n \in Nat, NEW u \in Routers, NEW v \in Routers, NEW links,
           <<u, v>> \in links
    PROVE  Ball(v, n, links) \subseteq Ball(u, n + 1, links)
<1> DEFINE S == {k \in 0 .. n : Ball(v, k, links) \subseteq Ball(u, k + 1, links)}
<1>1. 0 \in S
  <2>1. Ball(u, 0 + 1, links) = Spread({u}, links) /\ Ball(v, 0, links) = {v}
    <3>1. Ball(u, 0, links) = {u} /\ Ball(v, 0, links) = {v} /\ 0 \in Nat
      BY FirstBall
    <3>2. ASSUME NEW z \in Nat
          PROVE  Ball(u, z + 1, links) = Spread(Ball(u, z, links), links)
      BY NextBall
    <3>3. Ball(u, 0 + 1, links) = Spread(Ball(u, 0, links), links)
      BY <3>2
    <3> QED
      BY <3>1, <3>3
  <2> QED
    BY <2>1 DEF Spread
<1>2. ASSUME NEW k \in 0 .. n - 1, k \in S PROVE k + 1 \in S
  <2>1. k \in Nat /\ k + 1 \in Nat /\ k + 1 \in 0 .. n
    OBVIOUS
  <2>2. Ball(u, k + 1 + 1, links) = Spread(Ball(u, k + 1, links), links)
    BY <2>1, NextBall
  <2>3. Ball(v, k + 1, links) = Spread(Ball(v, k, links), links)
    BY <2>1, NextBall
  <2> QED
    BY <1>2, <2>1, <2>2, <2>3 DEF Spread
<1>3. \A k \in 0 .. n : k \in S
  <2> HIDE DEF S
  <2> QED
    BY <1>1, <1>2, Induction
<1> QED
  BY <1>3

\* What Hops says of connected routers.
LEMMA Distance ==
    ASSUME NEW links, Connected(links), NEW r \in Routers
    PROVE  /\ \A s \in Routers : Hops(r, s, links) \in 0 .. NRouters
           /\ \A s \in Routers : \A n \in Nat :
                 s \in Ball(r, n, links) <=> Hops(r, s, links) <= n
<1>0. NRouters \in Nat
  BY Routing_Assumption
<1> SUFFICES ASSUME NEW s \in Routers
             PROVE  /\ Hops(r, s, links) \in 0 .. NRouters
                    /\ \A n \in Nat : s \in Ball(r, n, links) <=> Hops(r, s, links) <= n
  OBVIOUS
<1> DEFINE h == Hops(r, s, links)
<1>1. /\ h \in 0 .. NRouters /\ s \in Ball(r, h, links)
      /\ \A n \in 0 .. NRouters : s \in Ball(r, n, links) => h <= n
  BY HopsInRange
<1> HIDE DEF h
<1>2. ASSUME NEW n \in Nat, h <= n PROVE s \in Ball(r, n, links)
  <2>1. h \in Nat /\ n - h \in Nat /\ h + (n - h) = n
    BY <1>0, <1>1, <1>2
  <2>2. Ball(r, h, links) \subseteq Ball(r, h + (n - h), links)
    BY <2>1, BallGrows
  <2> QED
    BY <1>1, <2>1, <2>2
<1>3. ASSUME NEW n \in Nat, s \in Ball(r, n, links) PROVE h <= n
  <2>1. CASE n <= NRouters
    BY <1>0, <1>1, <1>3, <2>1
  <2>2. CASE ~(n <= NRouters)
    BY <1>0, <1>1, <2>2
  <2> QED
    BY <2>1, <2>2
<1> QED
  BY <1>1, <1>2, <1>3 DEF h

\* Only the router itself is no link away.
LEMMA NoDistance ==
    ASSUME NEW links, Connected(links), NEW r \in Routers, NEW s \in Routers
    PROVE  Hops(r, s, links) = 0 <=> r = s
<1>1. Hops(r, s, links) \in Nat /\ (s \in Ball(r, 0, links) <=> Hops(r, s, links) <= 0)
  BY Distance, Routing_Assumption
<1>2. Ball(r, 0, links) = {r}
  BY FirstBall
<1> QED
  BY <1>1, <1>2

\* A link makes a difference of one at most, ...
LEMMA LinkBehind ==
    ASSUME NEW links, Connected(links), NEW r \in Routers, NEW u \in Routers,
           NEW v \in Routers, <<u, v>> \in links
    PROVE  Hops(r, v, links) <= Hops(r, u, links) + 1
<1>1. Hops(r, u, links) \in Nat /\ Hops(r, u, links) + 1 \in Nat
  BY Distance, Routing_Assumption
<1>2. u \in Ball(r, Hops(r, u, links), links)
  BY <1>1, Distance
<1>3. v \in Ball(r, Hops(r, u, links) + 1, links)
  BY <1>1, <1>2, NextBall DEF Spread
<1> QED
  BY <1>1, <1>3, Distance

\* ... and some link makes it.
LEMMA LastLink ==
    ASSUME NEW links, Connected(links), NEW r \in Routers, NEW v \in Routers,
           v # r
    PROVE  \E u \in Routers : <<u, v>> \in links /\ Hops(r, v, links) = Hops(r, u, links) + 1
<1> DEFINE h == Hops(r, v, links)
<1>1. h \in Nat /\ h # 0
  BY Distance, NoDistance, Routing_Assumption
<1> HIDE DEF h
<1>2. h - 1 \in Nat /\ (h - 1) + 1 = h
  BY <1>1
<1>3. v \in Ball(r, h, links) /\ v \notin Ball(r, h - 1, links)
  BY <1>1, <1>2, Distance DEF h
<1>4. Ball(r, h, links) = Spread(Ball(r, h - 1, links), links)
  <2>1. Ball(r, (h - 1) + 1, links) = Spread(Ball(r, h - 1, links), links)
    BY <1>2, NextBall
  <2> QED
    BY <1>2, <2>1
<1>5. PICK u \in Ball(r, h - 1, links) : <<u, v>> \in links
  BY <1>3, <1>4 DEF Spread
<1>6. u \in Routers
  BY <1>2, NextBall
<1>7. Hops(r, u, links) <= h - 1 /\ Hops(r, u, links) \in Nat
  BY <1>2, <1>5, <1>6, Distance, Routing_Assumption
<1>8. h <= Hops(r, u, links) + 1
  BY <1>5, <1>6, LinkBehind DEF h
<1> QED
  BY <1>1, <1>5, <1>6, <1>7, <1>8 DEF h

-----------------------------------------------------------------------------
(* The search for the shortest ways. *)

\* What is true of the fields in a search from self: who is done has its distance;
\* links from there are relaxed; and predecessor is right where distance is set,
\* whatever it says elsewhere.
Searched(t, self, links) ==
    /\ t.done \subseteq Routers
    /\ t.distance \in [Routers -> Nat] /\ t.distance[self] = 0
    /\ \A v \in Routers : t.distance[v] >= Hops(self, v, links)
    /\ \A u \in t.done : t.distance[u] = Hops(self, u, links)
    /\ \A u \in t.done : \A v \in Routers :
          <<u, v>> \in links => t.distance[v] <= t.distance[u] + 1
    /\ \A v \in Routers : v # self /\ t.distance[v] # INFINITY =>
          /\ t.predecessor[v] \in t.done /\ <<t.predecessor[v], v>> \in links
          /\ t.distance[v] = t.distance[t.predecessor[v]] + 1

\* Before the search: predecessor is from the search of another router.
LEMMA UnvisitedIs ==
    ASSUME NEW links, Connected(links), NEW self \in Routers, NEW predecessor
    PROVE  Searched(Unvisited(self, predecessor), self, links)
<1> DEFINE t == Unvisited(self, predecessor)
<1>1. /\ t.done = {} /\ t.distance = [v \in Routers |-> IF v = self THEN 0 ELSE INFINITY]
      /\ INFINITY \in Nat /\ INFINITY > NRouters /\ NRouters \in Nat
  BY Routing_Assumption DEF Unvisited
<1> HIDE DEF t
<1>2. t.distance \in [Routers -> Nat] /\ t.distance[self] = 0
  BY <1>1
<1>3. ASSUME NEW v \in Routers PROVE t.distance[v] >= Hops(self, v, links)
  <2>1. Hops(self, v, links) \in 0 .. NRouters /\ (v = self => Hops(self, v, links) = 0)
    BY Distance, NoDistance
  <2> QED
    BY <1>1, <2>1
<1>4. \A v \in Routers : v # self => t.distance[v] = INFINITY
  BY <1>1
<1> QED
  BY <1>1, <1>2, <1>3, <1>4 DEF Searched, t

\* Nearest chooses as its name says, while there is anyone to choose from.
LEMMA NearestIs ==
    ASSUME NEW t, t.done \subseteq Routers, t.done # Routers,
           t.distance \in [Routers -> Nat]
    PROVE  /\ Nearest(t) \in Routers \ t.done
           /\ \A w \in Routers \ t.done : t.distance[Nearest(t)] <= t.distance[w]
<1> DEFINE Undone == Routers \ t.done
           S == {t.distance[v] : v \in Undone}
           near == {v \in Undone : \A w \in Undone : t.distance[v] <= t.distance[w]}
<1>1. S \in SUBSET Nat /\ S # {}
  OBVIOUS
<1>2. Min(S) \in S /\ \A k \in S : Min(S) <= k
  BY <1>1, LeastNumber, Zenon
<1>3. near \in SUBSET Nat /\ near # {}
  <2>1. near \subseteq Nat
    BY DEF Routers
  <2>2. PICK v \in Undone : t.distance[v] = Min(S)
    BY <1>2
  <2>3. \A w \in Undone : t.distance[v] <= t.distance[w]
    BY <1>2, <2>2
  <2> QED
    BY <2>1, <2>3
<1>4. Min(near) \in near
  BY <1>3, LeastNumber, Zenon
<1> QED
  BY <1>4 DEF Nearest

\* The nearest one that is not done has its distance, too.
LEMMA NearestIsExact ==
    ASSUME NEW links, Connected(links), NEW self \in Routers, NEW t,
           Searched(t, self, links), t.done # Routers
    PROVE  t.distance[Nearest(t)] = Hops(self, Nearest(t), links)
<1> DEFINE Undone == Routers \ t.done
           S == {Hops(self, v, links) : v \in Undone}
           next == Nearest(t)
<1>1. \A v \in Routers : Hops(self, v, links) \in Nat
  BY Distance, Routing_Assumption
<1>2. t.done \subseteq Routers /\ t.distance \in [Routers -> Nat] /\ Undone # {}
  BY DEF Searched
<1>3. next \in Undone /\ \A w \in Undone : t.distance[next] <= t.distance[w]
  BY <1>2, NearestIs
<1> HIDE DEF next
<1>4. S \in SUBSET Nat /\ S # {}
  BY <1>1, <1>2
<1>5. Min(S) \in S /\ \A k \in S : Min(S) <= k
  BY <1>4, LeastNumber, Zenon
<1>6. PICK y \in Undone : \A w \in Undone : Hops(self, y, links) <= Hops(self, w, links)
  BY <1>5
<1>7. t.distance[y] <= Hops(self, y, links)
  <2>1. CASE y = self
    BY <1>1, <2>1 DEF Searched
  <2>2. CASE y # self
    <3>1. PICK z \in Routers :
              <<z, y>> \in links /\ Hops(self, y, links) = Hops(self, z, links) + 1
      BY <2>2, LastLink
    <3>2. z \notin Undone
      BY <1>1, <1>6, <3>1
    <3>3. t.distance[y] <= t.distance[z] + 1 /\ t.distance[z] = Hops(self, z, links)
      BY <3>1, <3>2 DEF Searched
    <3> QED
      BY <3>1, <3>3
  <2> QED
    BY <2>1, <2>2
<1>8. t.distance[next] <= t.distance[y] /\ Hops(self, y, links) <= Hops(self, next, links)
  BY <1>3, <1>6
<1>9. /\ t.distance[next] >= Hops(self, next, links)
      /\ t.distance[next] \in Nat /\ t.distance[y] \in Nat
  BY <1>2, <1>3 DEF Searched
<1>10. Hops(self, next, links) \in Nat /\ Hops(self, y, links) \in Nat
  BY <1>1, <1>3
<1> QED
  BY <1>7, <1>8, <1>9, <1>10 DEF next

\* Relaxing the links of the nearest router keeps the search as it is.
LEMMA VisitedKeeps ==
    ASSUME NEW links, Connected(links), \A l \in links : l[1] # l[2],
           NEW self \in Routers, NEW t,
           Searched(t, self, links), t.done # Routers
    PROVE  /\ Searched(Visited(t, Nearest(t), links), self, links)
           /\ Visited(t, Nearest(t), links).done = t.done \cup {Nearest(t)}
           /\ Nearest(t) \in Routers \ t.done
<1> DEFINE next == Nearest(t)
           weight == t.distance[next] + 1
           closer == {v \in Routers : <<next, v>> \in links /\ t.distance[v] > weight}
           u == Visited(t, next, links)
<1>1. /\ t.done \subseteq Routers
      /\ t.distance \in [Routers -> Nat] /\ t.distance[self] = 0
      /\ \A v \in Routers : t.distance[v] >= Hops(self, v, links)
      /\ \A v \in t.done : t.distance[v] = Hops(self, v, links)
      /\ \A v \in t.done : \A w \in Routers :
            <<v, w>> \in links => t.distance[w] <= t.distance[v] + 1
      /\ \A v \in Routers : v # self /\ t.distance[v] # INFINITY =>
            /\ t.predecessor[v] \in t.done /\ <<t.predecessor[v], v>> \in links
            /\ t.distance[v] = t.distance[t.predecessor[v]] + 1
  BY DEF Searched
<1>2. next \in Routers \ t.done
  BY <1>1, NearestIs
<1>3. t.distance[next] = Hops(self, next, links)
  BY NearestIsExact
<1>4. /\ u.done = t.done \cup {next}
      /\ u.distance = [v \in Routers |-> IF v \in closer THEN weight ELSE t.distance[v]]
      /\ u.predecessor = [v \in Routers |-> IF v \in closer THEN next ELSE t.predecessor[v]]
  BY DEF Visited
<1> HIDE DEF next, u
<1>5. weight \in Nat /\ weight = Hops(self, next, links) + 1
  BY <1>1, <1>2, <1>3
<1>6. \A v \in Routers : <<next, v>> \in links => Hops(self, v, links) <= weight
  BY <1>2, <1>5, LinkBehind
<1> HIDE DEF weight
<1>7. \A v \in closer : v \notin t.done /\ v # self
  <2>1. \A v \in Routers : Hops(self, v, links) \in Nat
    BY Distance, Routing_Assumption
  <2> QED
    BY <1>1, <1>5, <1>6, <2>1
<1>8. next \notin closer
  <2>1. <<next, next>>[1] = next /\ <<next, next>>[2] = next
    OBVIOUS
  <2> QED
    BY <2>1
<1>9. \A v \in closer : v \in Routers /\ <<next, v>> \in links /\ t.distance[v] > weight
  OBVIOUS
<1>10. \A v \in Routers : v \notin closer /\ <<next, v>> \in links => t.distance[v] <= weight
  BY <1>1, <1>5
<1> HIDE DEF closer
<1>11. u.distance \in [Routers -> Nat] /\ u.distance[self] = 0
  BY <1>1, <1>4, <1>5, <1>7
<1>12. \A v \in Routers : u.distance[v] >= Hops(self, v, links)
  <2>1. \A v \in Routers : Hops(self, v, links) \in Nat
    BY Distance, Routing_Assumption
  <2> QED
    BY <1>1, <1>4, <1>5, <1>6, <1>9, <2>1
<1>13. \A v \in u.done : v \in Routers /\ v \notin closer /\ u.distance[v] = t.distance[v]
  BY <1>1, <1>2, <1>4, <1>7, <1>8
<1>14. \A v \in u.done : u.distance[v] = Hops(self, v, links)
  BY <1>1, <1>3, <1>4, <1>13
<1>15. ASSUME NEW v \in u.done, NEW w \in Routers, <<v, w>> \in links
       PROVE  u.distance[w] <= u.distance[v] + 1
  <2>1. u.distance[v] = t.distance[v] /\ v \in Routers
    BY <1>13
  <2>2. CASE v = next
    <3>1. u.distance[v] + 1 = weight
      BY <2>1, <2>2 DEF weight
    <3>2. CASE w \in closer
      BY <1>4, <1>5, <3>1, <3>2
    <3>3. CASE w \notin closer
      BY <1>4, <1>10, <1>15, <2>2, <3>1, <3>3
    <3> QED
      BY <3>2, <3>3
  <2>3. CASE v # next
    <3>1. v \in t.done /\ t.distance[w] <= t.distance[v] + 1
      BY <1>1, <1>4, <1>15, <2>3
    <3>2. CASE w \in closer
      <4>1. u.distance[w] = weight /\ t.distance[w] > weight
        BY <1>4, <1>9, <3>2
      <4> QED
        BY <1>1, <1>5, <2>1, <3>1, <4>1
    <3>3. CASE w \notin closer
      BY <1>4, <2>1, <3>1, <3>3
    <3> QED
      BY <3>2, <3>3
  <2> QED
    BY <2>2, <2>3
<1>16. ASSUME NEW v \in Routers, v # self, u.distance[v] # INFINITY
       PROVE  /\ u.predecessor[v] \in u.done /\ <<u.predecessor[v], v>> \in links
              /\ u.distance[v] = u.distance[u.predecessor[v]] + 1
  <2>1. CASE v \in closer
    <3>1. u.predecessor[v] = next /\ u.distance[v] = weight /\ next \in u.done
      BY <1>4, <2>1
    <3>2. u.distance[next] + 1 = weight
      BY <1>13, <3>1 DEF weight
    <3> QED
      BY <1>9, <2>1, <3>1, <3>2
  <2>2. CASE v \notin closer
    <3>1. u.predecessor[v] = t.predecessor[v] /\ u.distance[v] = t.distance[v]
      BY <1>4, <2>2
    <3>2. /\ t.predecessor[v] \in t.done /\ <<t.predecessor[v], v>> \in links
          /\ t.distance[v] = t.distance[t.predecessor[v]] + 1
      BY <1>1, <1>16, <3>1
    <3>3. /\ t.predecessor[v] \in u.done
          /\ u.distance[t.predecessor[v]] = t.distance[t.predecessor[v]]
      BY <1>4, <1>13, <3>2
    <3> QED
      BY <3>1, <3>2, <3>3
  <2> QED
    BY <2>1, <2>2
<1>17. u.done \subseteq Routers
  BY <1>13
<1>18. Searched(u, self, links)
  BY <1>11, <1>12, <1>14, <1>15, <1>16, <1>17 DEF Searched
<1> QED
  BY <1>2, <1>4, <1>18 DEF u, next

\* The values of predecessor.
Known == Routers \cup {Nobody}

\* So many visits are needed, and no more.
LEMMA HowManyRouters ==
    IsFiniteSet(Routers) /\ Cardinality(Routers) = NRouters
<1>1. 1 \in Int /\ NRouters \in Int /\ NRouters >= 1
  BY Routing_Assumption
<1>2. IsFiniteSet(1 .. NRouters) /\ Cardinality(1 .. NRouters) = NRouters - 1 + 1
  BY <1>1, FS_Interval
<1> QED
  BY <1>1, <1>2 DEF Routers

\* After the search, everyone's predecessor is one link nearer to self.
Nearer(p, self, links) ==
    /\ p \in [Routers -> Known]
    /\ \A v \in Routers \ {self} :
          /\ p[v] \in Routers /\ <<p[v], v>> \in links
          /\ Hops(self, v, links) = Hops(self, p[v], links) + 1

\* The search of one router: everyone's predecessor is one link nearer to it,
\* whatever predecessor was before.
LEMMA SearchIs ==
    ASSUME NEW links, Connected(links), \A l \in links : l[1] # l[2],
           NEW self \in Routers, NEW predecessor \in [Routers -> Known]
    PROVE  Nearer(Search(self, predecessor, links).predecessor, self, links)
<1> DEFINE N == NRouters
           T == [done : SUBSET Routers, distance : [Routers -> Nat],
                 predecessor : [Routers -> Known]]
           first == Unvisited(self, predecessor)
           step == [x \in (1 .. N) \X T |->
                       IF x[2].done = Routers THEN x[2]
                       ELSE Visited(x[2], Nearest(x[2]), links)]
           after == CHOOSE after : after = [n \in 0 .. NRouters |->
                        IF n = 0 THEN Unvisited(self, predecessor)
                        ELSE Visited(after[n - 1], Nearest(after[n - 1]), links)]
<1>0. N \in Nat /\ INFINITY \in Nat /\ INFINITY > N
  BY Routing_Assumption
<1>1. first \in T
  BY <1>0 DEF Unvisited
<1>2. ASSUME NEW t \in T,
             t.done # Routers PROVE Visited(t, Nearest(t), links) \in T
  <2>1. Nearest(t) \in Routers
    BY <1>2, NearestIs
  <2>2. t.distance[Nearest(t)] + 1 \in Nat
    BY <2>1
  <2> QED
    BY <2>1, <2>2 DEF Visited, Known
<1>3. step \in [(1 .. N) \X T -> T]
  <2> SUFFICES ASSUME NEW t \in T
               PROVE  (IF t.done = Routers THEN t ELSE Visited(t, Nearest(t), links)) \in T
    OBVIOUS
  <2> QED
    BY <1>2
<1>4. \A n \in 1 .. N : \A t \in T : step[<<n, t>>] =
          IF t.done = Routers THEN t ELSE Visited(t, Nearest(t), links)
  OBVIOUS
<1> HIDE DEF step, T, N
<1>5. PICK g : Recursive(g, N, T, first, step)
  BY <1>0, <1>1, <1>3, Recursion
<1> DEFINE Good(t, n) == /\ Searched(t, self, links)
                         /\ IsFiniteSet(t.done) /\ Cardinality(t.done) = n
           S == {n \in 0 .. N : Good(g[n], n)}
<1>6. ASSUME NEW n \in 0 .. N - 1, n \in S
      PROVE  /\ g[n + 1] = Visited(g[n], Nearest(g[n]), links)
             /\ n + 1 \in S
  <2>1. n + 1 \in 1 .. N /\ n + 1 \in 0 .. N /\ n \in 0 .. N /\ n + 1 - 1 = n /\ n # N
    BY <1>0
  <2>2. g[n] \in T /\ g[n + 1] = step[<<n + 1, g[n]>>]
    BY <1>5, <2>1 DEF Recursive
  <2>3. g[n].done # Routers
    BY <1>6, <2>1, HowManyRouters DEF N
  <2>4. g[n + 1] = Visited(g[n], Nearest(g[n]), links)
    BY <1>4, <2>1, <2>2, <2>3
  <2>5. /\ Searched(g[n + 1], self, links)
        /\ g[n + 1].done = g[n].done \cup {Nearest(g[n])}
        /\ Nearest(g[n]) \in Routers \ g[n].done
    BY <1>6, <2>3, <2>4, VisitedKeeps
  <2>6. IsFiniteSet(g[n].done) /\ Cardinality(g[n].done) = n
    BY <1>6
  <2>7. /\ IsFiniteSet(g[n].done \cup {Nearest(g[n])})
        /\ Cardinality(g[n].done \cup {Nearest(g[n])}) = n + 1
    BY <2>5, <2>6, FS_AddElement
  <2> QED
    BY <2>1, <2>4, <2>5, <2>7
<1>7. 0 \in S
  <2>1. g[0] = first /\ Searched(first, self, links)
    BY <1>5, UnvisitedIs DEF Recursive
  <2>2. first.done = {} /\ IsFiniteSet({}) /\ Cardinality({}) = 0
    BY FS_EmptySet DEF Unvisited
  <2> HIDE DEF first
  <2> QED
    <3>1. Good(g[0], 0)
      BY <2>1, <2>2
    <3>2. 0 \in 0 .. N
      BY <1>0
    <3> QED
      BY <3>1, <3>2
<1>8. \A n \in 0 .. N : n \in S
  <2> HIDE DEF S
  <2> QED
    BY <1>0, <1>6, <1>7, Induction
<1>9. ASSUME NEW n \in 1 .. N
      PROVE  g[n] = Visited(g[n - 1], Nearest(g[n - 1]), links)
  <2>1. n - 1 \in 0 .. N - 1 /\ n - 1 \in 0 .. N /\ n - 1 + 1 = n
    BY <1>0
  <2>2. n - 1 \in S
    BY <1>8, <2>1
  <2>3. g[(n - 1) + 1] = Visited(g[n - 1], Nearest(g[n - 1]), links)
    BY <1>6, <2>1, <2>2
  <2> QED
    BY <2>1, <2>3
<1>10. g = [n \in 0 .. NRouters |->
              IF n = 0 THEN Unvisited(self, predecessor)
              ELSE Visited(g[n - 1], Nearest(g[n - 1]), links)]
  <2>1. \A n \in 0 .. N : n # 0 => n \in 1 .. N
    BY <1>0
  <2>2. g \in [0 .. N -> T] /\ g[0] = first
    BY <1>5 DEF Recursive
  <2> QED
    BY <1>9, <2>1, <2>2 DEF N
<1>11. after = [n \in 0 .. NRouters |->
              IF n = 0 THEN Unvisited(self, predecessor)
              ELSE Visited(after[n - 1], Nearest(after[n - 1]), links)]
  BY <1>10
<1>12. Search(self, predecessor, links) = after[N]
  BY DEF Search, N
<1> HIDE DEF after
<1>13. ASSUME NEW n \in 1 .. N
       PROVE  after[n] = Visited(after[n - 1], Nearest(after[n - 1]), links)
  <2>1. n \in 0 .. NRouters /\ n # 0
    BY <1>0 DEF N
  <2> QED
    BY <1>11, <2>1
<1>14. after[N] = g[N]
  <2> DEFINE Q == {n \in 0 .. N : after[n] = g[n]}
  <2>1. 0 \in Q
    <3>1. 0 \in 0 .. N
      BY <1>0
    <3> QED
      BY <1>5, <1>11, <3>1 DEF Recursive, N
  <2>2. ASSUME NEW n \in 0 .. N - 1, n \in Q PROVE n + 1 \in Q
    <3>1. n + 1 \in 1 .. N /\ n + 1 \in 0 .. N /\ n + 1 - 1 = n /\ n + 1 # 0
      BY <1>0
    <3>2. g[n + 1] = Visited(g[n], Nearest(g[n]), links)
      BY <1>9, <3>1
    <3>3. after[n + 1] = Visited(after[n], Nearest(after[n]), links)
      BY <1>13, <3>1
    <3> QED
      BY <2>2, <3>1, <3>2, <3>3
  <2>3. \A n \in 0 .. N : n \in Q
    <3> HIDE DEF Q
    <3> QED
      BY <1>0, <2>1, <2>2, Induction
  <2>4. N \in 0 .. N
    BY <1>0
  <2> QED
    BY <2>3, <2>4
<1> DEFINE t == g[N]
<1>15. Searched(t, self, links) /\ t.done = Routers /\ t \in T
  <2>1. N \in 0 .. N
    BY <1>0
  <2>2. Good(t, N) /\ t \in T
    BY <1>5, <1>8, <2>1 DEF Recursive
  <2>3. t.done \subseteq Routers
    BY <2>2 DEF Searched
  <2> HIDE DEF t
  <2>4. t.done = Routers
    BY <2>2, <2>3, HowManyRouters, FS_Subset DEF N
  <2> QED
    BY <2>2, <2>4
<1> HIDE DEF t
<1>16. t.predecessor \in [Routers -> Known]
  BY <1>15 DEF T
<1>17. ASSUME NEW v \in Routers \ {self}
       PROVE  /\ t.predecessor[v] \in Routers /\ <<t.predecessor[v], v>> \in links
              /\ Hops(self, v, links) = Hops(self, t.predecessor[v], links) + 1
  <2>1. t.distance[v] = Hops(self, v, links) /\ Hops(self, v, links) \in 0 .. NRouters
    BY <1>15, Distance DEF Searched
  <2>2. t.distance[v] # INFINITY
    BY <1>0, <2>1 DEF N
  <2>3. /\ t.predecessor[v] \in Routers /\ <<t.predecessor[v], v>> \in links
        /\ t.distance[v] = t.distance[t.predecessor[v]] + 1
    BY <1>15, <2>2 DEF Searched
  <2>4. t.distance[t.predecessor[v]] = Hops(self, t.predecessor[v], links)
    BY <1>15, <2>3 DEF Searched
  <2> QED
    BY <2>1, <2>3, <2>4
<1>18. Nearer(t.predecessor, self, links)
  BY <1>16, <1>17 DEF Nearer
<1> QED
  BY <1>12, <1>14, <1>18 DEF t

-----------------------------------------------------------------------------
(* From the predecessors to the tables. *)

\* v is a neighbour of self, from which it is less far to dest.
NextHop(v, self, dest, links) ==
    /\ v \in Routers /\ <<self, v>> \in links
    /\ Hops(v, dest, links) < Hops(self, dest, links)

\* Following the predecessors back from dest leads to a neighbour of self from
\* which it is less far to dest.
LEMMA StartRouteIs ==
    ASSUME NEW links, Connected(links), NEW self \in Routers, NEW p,
           Nearer(p, self, links), NEW dest \in Routers, dest # self
    PROVE  NextHop(StartRoute(self, dest, p), self, dest, links)
<1> DEFINE N == NRouters
           T == Routers \ {self}
           next(v) == IF p[v] = self THEN v ELSE p[v]
           step == [x \in (1 .. N) \X T |-> next(x[2])]
           back == CHOOSE back : back = [n \in 0 .. NRouters |->
                        IF n = 0 THEN dest
                        ELSE IF p[back[n - 1]] = self THEN back[n - 1] ELSE p[back[n - 1]]]
<1>0. N \in Nat /\ dest \in T
  BY Routing_Assumption
<1>1. \A v \in T : /\ next(v) \in T
                   /\ p[v] \in Routers /\ <<p[v], v>> \in links
                   /\ Hops(self, v, links) = Hops(self, p[v], links) + 1
  BY DEF Nearer
<1>2. step \in [(1 .. N) \X T -> T]
  BY <1>1
<1>3. \A n \in 1 .. N : \A v \in T : step[<<n, v>>] = next(v)
  OBVIOUS
<1> HIDE DEF step, T, N
<1>4. PICK g : Recursive(g, N, T, dest, step)
  BY <1>0, <1>2, Recursion
<1>5. ASSUME NEW n \in 1 .. N PROVE g[n] = next(g[n - 1])
  <2>1. n - 1 \in 0 .. N
    BY <1>0
  <2>2. g[n - 1] \in T /\ g[n] = step[<<n, g[n - 1]>>]
    BY <1>4, <2>1 DEF Recursive
  <2> QED
    BY <1>3, <2>2
<1>6. g = [n \in 0 .. NRouters |->
              IF n = 0 THEN dest
              ELSE IF p[g[n - 1]] = self THEN g[n - 1] ELSE p[g[n - 1]]]
  <2>1. \A n \in 0 .. N : n # 0 => n \in 1 .. N
    BY <1>0
  <2>2. g \in [0 .. N -> T] /\ g[0] = dest
    BY <1>4 DEF Recursive
  <2> QED
    BY <1>5, <2>1, <2>2 DEF N
<1>7. back = [n \in 0 .. NRouters |->
              IF n = 0 THEN dest
              ELSE IF p[back[n - 1]] = self THEN back[n - 1] ELSE p[back[n - 1]]]
  BY <1>6
<1>8. StartRoute(self, dest, p) = back[N]
  BY DEF StartRoute, N
<1> HIDE DEF back
<1>9. ASSUME NEW n \in 1 .. N PROVE back[n] = next(back[n - 1])
  <2>1. n \in 0 .. NRouters /\ n # 0
    BY <1>0 DEF N
  <2> QED
    BY <1>7, <2>1
<1>10. back[0] = dest
  <2>1. 0 \in 0 .. NRouters
    BY <1>0 DEF N
  <2> QED
    BY <1>7, <2>1
<1> HIDE DEF next
<1> DEFINE h == Hops(self, dest, links)
           Walked(w, n, j) == /\ Hops(self, w, links) + j = h
                              /\ dest \in Ball(w, j, links)
                              /\ j = n \/ p[w] = self
           S == {n \in 0 .. N : back[n] \in T /\ \E j \in Nat : Walked(back[n], n, j)}
<1>11. h \in 0 .. N /\ \A v \in Routers : Hops(self, v, links) \in 0 .. N
  BY Distance DEF N
<1> HIDE DEF h
<1>12. 0 \in S
  <2>1. dest \in Ball(dest, 0, links)
    BY FirstBall
  <2>2. Walked(back[0], 0, 0)
    BY <1>10, <1>11, <2>1 DEF h
  <2>3. 0 \in 0 .. N /\ 0 \in Nat
    BY <1>0
  <2> HIDE DEF Walked
  <2> QED
    BY <1>0, <1>10, <2>2, <2>3
<1>13. ASSUME NEW n \in 0 .. N - 1, n \in S PROVE n + 1 \in S
  <2>1. n + 1 \in 1 .. N /\ n + 1 \in 0 .. N /\ n + 1 - 1 = n
    BY <1>0
  <2> DEFINE v == back[n]
  <2>2. v \in T /\ back[n + 1] = next(v)
    BY <1>9, <1>13, <2>1
  <2>3. PICK j \in Nat : Walked(v, n, j)
    BY <1>13
  <2> HIDE DEF v
  <2>4. CASE p[v] = self
    <3>1. Walked(back[n + 1], n + 1, j)
      BY <2>2, <2>3, <2>4 DEF next
    <3> HIDE DEF Walked
    <3> QED
      BY <1>1, <2>1, <2>2, <3>1
  <2>5. CASE p[v] # self
    <3>1. back[n + 1] = p[v] /\ j = n
      BY <2>2, <2>3, <2>5 DEF next
    <3>2. /\ p[v] \in Routers /\ <<p[v], v>> \in links
          /\ Hops(self, v, links) = Hops(self, p[v], links) + 1
      BY <1>1, <2>2
    <3>3. dest \in Ball(p[v], j + 1, links)
      <4>1. Ball(v, j, links) \subseteq Ball(p[v], j + 1, links)
        BY <2>2, <3>2, LinkBefore DEF T
      <4> QED
        BY <2>3, <4>1
    <3>4. Hops(self, p[v], links) + (j + 1) = h
      <4>1. Hops(self, p[v], links) \in Nat
        BY <1>0, <1>11, <3>2
      <4> QED
        BY <2>3, <3>2, <4>1
    <3>5. Walked(back[n + 1], n + 1, j + 1) /\ j + 1 \in Nat
      BY <3>1, <3>3, <3>4
    <3> HIDE DEF Walked
    <3> QED
      BY <1>1, <2>1, <2>2, <3>5
  <2> QED
    BY <2>4, <2>5
<1>14. \A n \in 0 .. N : n \in S
  <2> HIDE DEF S
  <2> QED
    BY <1>0, <1>12, <1>13, Induction
<1> DEFINE w == back[N]
<1>15. w \in T /\ \E j \in Nat : Walked(w, N, j)
  <2>1. N \in 0 .. N
    BY <1>0
  <2> HIDE DEF Walked
  <2> QED
    BY <1>14, <2>1
<1> HIDE DEF w
<1>16. PICK j \in Nat : Walked(w, N, j)
  BY <1>15
<1>17. w \in Routers /\ w # self
  BY <1>15 DEF T
<1>18. Hops(self, w, links) \in Nat /\ Hops(self, w, links) # 0
  <2>1. Hops(self, w, links) \in 0 .. N
    BY <1>11, <1>17
  <2>2. Hops(self, w, links) # 0
    BY <1>17, NoDistance
  <2> QED
    BY <1>0, <2>1, <2>2
<1>19. j # N
  BY <1>0, <1>11, <1>16, <1>18
<1>20. p[w] = self
  BY <1>16, <1>19
<1>21. <<self, w>> \in links
  BY <1>1, <1>15, <1>20
<1>22. j < h
  BY <1>0, <1>11, <1>16, <1>18
<1>23. Hops(w, dest, links) <= j
  BY <1>16, <1>17, Distance
<1>24. Hops(w, dest, links) \in Nat /\ h \in Nat
  <2>1. Hops(w, dest, links) \in 0 .. N
    BY <1>17, Distance DEF N
  <2> QED
    BY <1>0, <1>11, <2>1
<1>25. Hops(w, dest, links) < h
  BY <1>22, <1>23, <1>24
<1> QED
  BY <1>8, <1>17, <1>21, <1>25 DEF NextHop, w, h

\* The table of router n, with what the search from there leaves behind.
Tabled(n, before, links) ==
    LET p == Search(n, before.predecessor, links).predecessor
    IN  [predecessor |-> p,
         tables |-> Append(before.tables,
                           [dest \in Routers \ {n} |-> StartRoute(n, dest, p)])]

\* The tables of the first n routers.
Routed(tables, n, links) ==
    \A r \in 1 .. n : \A s \in Routers \ {r} : NextHop(tables[r][s], r, s, links)

\* One search after the other, each beginning with what the last one left: in
\* the tables of all routers each entry is a neighbour that is nearer.
LEMMA CreateTablesIs ==
    ASSUME NEW links, Connected(links), \A l \in links : l[1] # l[2]
    PROVE  Routed(CreateTables(links), NRouters, links)
<1> DEFINE N == NRouters
           X == UNION {[Routers \ {n} -> Routers] : n \in Routers}
           T == [predecessor : [Routers -> Known], tables : Seq(X)]
           first == [predecessor |-> [v \in Routers |-> Nobody], tables |-> <<>>]
           step == [x \in (1 .. N) \X T |-> Tabled(x[1], x[2], links)]
           run == CHOOSE run : run = [n \in 0 .. NRouters |->
                      IF n = 0 THEN first ELSE Tabled(n, run[n - 1], links)]
<1>0. N \in Nat /\ Routers = 1 .. N
  BY Routing_Assumption DEF Routers
<1>1. first \in T
  <2>1. <<>> \in Seq(X) /\ [v \in Routers |-> Nobody] \in [Routers -> Known]
    BY DEF Known
  <2> QED
    BY <2>1
<1>2. ASSUME NEW n \in Routers, NEW t \in T
      PROVE  /\ Tabled(n, t, links) \in T
             /\ Len(Tabled(n, t, links).tables) = Len(t.tables) + 1
             /\ \A r \in 1 .. Len(t.tables) :
                   Tabled(n, t, links).tables[r] = t.tables[r]
             /\ \A s \in Routers \ {n} :
                   NextHop(Tabled(n, t, links).tables[Len(t.tables) + 1][s], n, s, links)
  <2> DEFINE p == Search(n, t.predecessor, links).predecessor
             tab == [dest \in Routers \ {n} |-> StartRoute(n, dest, p)]
  <2>1. t.predecessor \in [Routers -> Known] /\ t.tables \in Seq(X)
    OBVIOUS
  <2>2. Nearer(p, n, links)
    BY <2>1, SearchIs
  <2> HIDE DEF p
  <2>3. \A s \in Routers \ {n} : NextHop(StartRoute(n, s, p), n, s, links)
    BY <2>2, StartRouteIs
  <2>4. tab \in [Routers \ {n} -> Routers]
    BY <2>3 DEF NextHop
  <2>5. \A s \in Routers \ {n} : NextHop(tab[s], n, s, links)
    BY <2>3
  <2>6. tab \in X
    BY <2>4
  <2>7. Tabled(n, t, links) = [predecessor |-> p, tables |-> Append(t.tables, tab)]
    BY DEF Tabled, p
  <2>8. p \in [Routers -> Known]
    BY <2>2 DEF Nearer
  <2> HIDE DEF X, tab
  <2>9. /\ Append(t.tables, tab) \in Seq(X)
        /\ Len(Append(t.tables, tab)) = Len(t.tables) + 1
        /\ Append(t.tables, tab)[Len(t.tables) + 1] = tab
        /\ \A r \in 1 .. Len(t.tables) : Append(t.tables, tab)[r] = t.tables[r]
    BY <2>1, <2>6
  <2>10. Tabled(n, t, links) \in T /\ Tabled(n, t, links).tables = Append(t.tables, tab)
    BY <2>7, <2>8, <2>9
  <2> QED
    BY <2>5, <2>9, <2>10
<1>3. /\ step \in [(1 .. N) \X T -> T]
      /\ \A n \in 1 .. N : \A t \in T : step[<<n, t>>] = Tabled(n, t, links)
  <2> HIDE DEF T
  <2> QED
    BY <1>0, <1>2
<1> HIDE DEF step, N, first
<1>4. PICK g : Recursive(g, N, T, first, step)
  <2> HIDE DEF T
  <2> QED
    BY <1>0, <1>1, <1>3, Recursion
<1> DEFINE Good(t, n) == Len(t.tables) = n /\ Routed(t.tables, n, links)
<1>5. ASSUME NEW n \in Routers, NEW t \in T,
             Good(t, n - 1) PROVE Good(Tabled(n, t, links), n)
  <2> DEFINE u == Tabled(n, t, links)
  <2>1. n \in Nat /\ n - 1 \in Nat /\ n - 1 + 1 = n
    BY <1>0
  <2>2. Len(t.tables) = n - 1
    BY <1>5
  <2>3. /\ Len(u.tables) = Len(t.tables) + 1
        /\ \A r \in 1 .. Len(t.tables) : u.tables[r] = t.tables[r]
        /\ \A s \in Routers \ {n} : NextHop(u.tables[Len(t.tables) + 1][s], n, s, links)
    <3> HIDE DEF T
    <3> QED
      BY <1>2
  <2> HIDE DEF u
  <2>4. /\ Len(u.tables) = n
        /\ \A r \in 1 .. n - 1 : u.tables[r] = t.tables[r]
        /\ \A s \in Routers \ {n} : NextHop(u.tables[n][s], n, s, links)
    BY <2>1, <2>2, <2>3
  <2>5. \A r \in 1 .. n - 1 : \A s \in Routers \ {r} : NextHop(t.tables[r][s], r, s, links)
    BY <1>5 DEF Routed
  <2>6. ASSUME NEW r \in 1 .. n,
               NEW s \in Routers \ {r}
PROVE  NextHop(u.tables[r][s], r, s, links)
    <3>1. CASE r = n
      BY <2>4, <3>1
    <3>2. CASE r # n
      <4>1. r \in 1 .. n - 1
        BY <2>1, <3>2
      <4> QED
        BY <2>4, <2>5, <4>1
    <3> QED
      BY <3>1, <3>2
  <2> QED
    BY <2>4, <2>6 DEF Routed, u
<1>6. ASSUME NEW n \in 1 .. N
      PROVE  g[n - 1] \in T /\ g[n] = Tabled(n, g[n - 1], links)
  <2>1. n - 1 \in 0 .. N
    BY <1>0
  <2>2. g[n - 1] \in T /\ g[n] = step[<<n, g[n - 1]>>]
    BY <1>4, <2>1 DEF Recursive
  <2> QED
    BY <1>3, <2>2
<1>7. g = [n \in 0 .. NRouters |->
              IF n = 0 THEN first ELSE Tabled(n, g[n - 1], links)]
  <2>1. \A n \in 0 .. N : n # 0 => n \in 1 .. N
    BY <1>0
  <2>2. g \in [0 .. N -> T] /\ g[0] = first
    BY <1>4 DEF Recursive
  <2> HIDE DEF T
  <2> QED
    BY <1>6, <2>1, <2>2 DEF N
<1>8. run = [n \in 0 .. NRouters |->
              IF n = 0 THEN first ELSE Tabled(n, run[n - 1], links)]
  BY <1>7
<1>9. CreateTables(links) = run[N].tables
  BY DEF CreateTables, Tabled, N, first
<1> HIDE DEF run
<1>10. ASSUME NEW n \in 1 .. N PROVE run[n] = Tabled(n, run[n - 1], links)
  <2>1. n \in 0 .. NRouters /\ n # 0
    BY <1>0 DEF N
  <2> QED
    BY <1>8, <2>1
<1>11. run[0] = first
  <2>1. 0 \in 0 .. NRouters
    BY <1>0 DEF N
  <2> QED
    BY <1>8, <2>1
<1> DEFINE S == {n \in 0 .. N : run[n] \in T /\ Good(run[n], n)}
<1>12. 0 \in S
  <2>1. Len(first.tables) = 0
    BY DEF first
  <2>2. Good(first, 0)
    BY <2>1 DEF Routed
  <2>3. 0 \in 0 .. N
    BY <1>0
  <2> HIDE DEF Good, T
  <2> QED
    BY <1>1, <1>11, <2>2, <2>3
<1>13. ASSUME NEW n \in 0 .. N - 1, n \in S PROVE n + 1 \in S
  <2>1. n + 1 \in 1 .. N /\ n + 1 \in 0 .. N /\ n + 1 - 1 = n /\ n + 1 \in Routers
    BY <1>0
  <2>2. run[n] \in T /\ Good(run[n], n)
    BY <1>13
  <2>3. run[n + 1] = Tabled(n + 1, run[n], links)
    BY <1>10, <2>1
  <2> HIDE DEF Good, T
  <2>4. run[n + 1] \in T /\ Good(run[n + 1], n + 1)
    BY <1>2, <1>5, <2>1, <2>2, <2>3
  <2> QED
    BY <2>1, <2>4
<1>14. \A n \in 0 .. N : n \in S
  <2> HIDE DEF S
  <2> QED
    BY <1>0, <1>12, <1>13, Induction
<1>15. N \in S
  <2>1. N \in 0 .. N
    BY <1>0
  <2> QED
    BY <1>14, <2>1
<1> QED
  BY <1>9, <1>15 DEF N

\* Who always goes nearer arrives.
LEMMA Reaches ==
    ASSUME NEW links, Connected(links), NEW tables,
           Routed(tables, NRouters, links), NEW r \in Routers, NEW s \in Routers, r # s
    PROVE  /\ <<r, tables[r][s]>> \in links
           /\ After(Hops(r, s, links), r, s, tables) = s
<1> DEFINE h == Hops(r, s, links)
<1>0. NRouters \in Nat /\ Routers = 1 .. NRouters
  BY Routing_Assumption DEF Routers
<1>1. \A v \in Routers \ {s} : NextHop(tables[v][s], v, s, links)
  BY <1>0 DEF Routed
<1>2. Leads(s, tables)
  BY <1>1 DEF Leads, NextHop
<1>3. \A v \in Routers : Hops(v, s, links) \in Nat /\ (Hops(v, s, links) = 0 <=> v = s)
  <2> SUFFICES ASSUME NEW v \in Routers
               PROVE  Hops(v, s, links) \in Nat /\ (Hops(v, s, links) = 0 <=> v = s)
    OBVIOUS
  <2>1. Hops(v, s, links) \in 0 .. NRouters
    BY Distance
  <2>2. Hops(v, s, links) = 0 <=> v = s
    BY NoDistance
  <2> QED
    BY <2>1, <2>2
<1>4. h \in Nat
  BY <1>3
<1> HIDE DEF h
<1> DEFINE S == {k \in 0 .. h : /\ After(k, r, s, tables) \in Routers
                                /\ Hops(After(k, r, s, tables), s, links) + k <= h}
<1>5. 0 \in S
  <2>1. After(0, r, s, tables) = r
    BY <1>2, FirstAfter
  <2> QED
    BY <1>3, <1>4, <2>1 DEF h
<1>6. ASSUME NEW k \in 0 .. h - 1, k \in S PROVE k + 1 \in S
  <2> DEFINE v == After(k, r, s, tables)
  <2>1. k \in Nat /\ k + 1 \in 0 .. h
    BY <1>4
  <2>2. v \in Routers /\ Hops(v, s, links) + k <= h /\ Hops(v, s, links) \in Nat
    BY <1>3, <1>6
  <2>3. After(k + 1, r, s, tables) = IF v = s THEN s ELSE tables[v][s]
    BY <1>2, <2>1, NextAfter
  <2> HIDE DEF v
  <2>4. CASE v = s
    <3>1. Hops(s, s, links) = 0
      BY <1>3
    <3> QED
      BY <2>1, <2>3, <2>4, <3>1
  <2>5. CASE v # s
    <3>1. /\ tables[v][s] \in Routers
          /\ Hops(tables[v][s], s, links) < Hops(v, s, links)
      BY <1>1, <2>2, <2>5 DEF NextHop
    <3>2. Hops(tables[v][s], s, links) \in Nat
      BY <1>3, <3>1
    <3>3. Hops(tables[v][s], s, links) + (k + 1) <= h
      BY <1>4, <2>1, <2>2, <3>1, <3>2
    <3> QED
      BY <2>1, <2>3, <2>5, <3>1, <3>3
  <2> QED
    BY <2>4, <2>5
<1>7. \A k \in 0 .. h : k \in S
  <2> HIDE DEF S
  <2> QED
    BY <1>4, <1>5, <1>6, Induction
<1>8. After(h, r, s, tables) = s
  <2>1. h \in S
    BY <1>4, <1>7
  <2> QED
    BY <1>3, <1>4, <2>1
<1>9. <<r, tables[r][s]>> \in links
  BY <1>1 DEF NextHop
<1> QED
  BY <1>8, <1>9 DEF h
=============================================================================
