---------------------------- MODULE PoolTheorems ----------------------------
(***************************************************************************)
(* What the operations of ConnectionPool and Timeout promise, for pools of *)
(* any size and connections of any type that has a peer.  SwarmProofs and  *)
(* SignalProofs apply these lemmas to the download and the upload pool.    *)
(***************************************************************************)
EXTENDS Timeout, FiniteSetTheorems, TLAPS

-----------------------------------------------------------------------------
(* Least elements and ranks. *)

\* The first slot, the first index and the first position the loops of the
\* code stop at exist and are what the loops stop at.
LEMMA MinOfNaturals ==
    ASSUME NEW S \in SUBSET Nat, S # {}
    PROVE  Min(S) \in S /\ \A k \in S : Min(S) <= k
<1>1. PICK m \in S : \A k \in S : <<k, m>> \notin OpToRel(<, Nat)
  BY WFMin, NatLessThanWellFounded
<1>2. \A k \in S : <<k, m>> \in Nat \X Nat /\ <<k, m>>[1] = k /\ <<k, m>>[2] = m
  OBVIOUS
<1>3. \A k \in S : ~(k < m)
  BY <1>1, <1>2, Zenon DEF OpToRel
<1>4. \A k \in S : m <= k
  BY <1>3, SMT
<1> QED
  BY <1>4 DEF Min

-----------------------------------------------------------------------------
(* Slots. *)

\* A pool of n slots has finitely many connections, all in its slots.
LEMMA PoolSlots ==
    ASSUME NEW n \in Nat, NEW C, NULL \notin C, NEW pool \in PoolOf(n, C)
    PROVE  /\ DOMAIN pool.connections = 0 .. n - 1
           /\ pool.size \in Int
           /\ Occupied(pool) \subseteq 0 .. n - 1
           /\ FreeSlots(pool) \subseteq 0 .. n - 1
           /\ IsFiniteSet(Occupied(pool))
           /\ Cardinality(Occupied(pool)) \in Nat
           /\ \A k \in Occupied(pool) : pool.connections[k] \in C
<1>1. /\ DOMAIN pool.connections = 0 .. n - 1
      /\ pool.size \in Int
      /\ Occupied(pool) \subseteq 0 .. n - 1
      /\ FreeSlots(pool) \subseteq 0 .. n - 1
  BY DEF PoolOf, Occupied, FreeSlots
<1>2. IsFiniteSet(0 .. n - 1)
  BY FS_Interval
<1>3. IsFiniteSet(Occupied(pool)) /\ Cardinality(Occupied(pool)) \in Nat
  BY <1>1, <1>2, FS_Subset, FS_CardinalityType
<1>4. \A k \in Occupied(pool) : pool.connections[k] \in C
  BY DEF PoolOf, Occupied
<1> QED
  BY <1>1, <1>3, <1>4

\* A full pool has as many connections as slots, so that a counter below
\* max_conn means that add_to_*_pool finds a free slot.
LEMMA FreeSlotExists ==
    ASSUME NEW n \in Nat, NEW C, NULL \notin C, NEW pool \in PoolOf(n, C),
           Cardinality(Occupied(pool)) < n
    PROVE  Min(FreeSlots(pool)) \in FreeSlots(pool)
<1>1. FreeSlots(pool) \subseteq Nat /\ DOMAIN pool.connections = 0 .. n - 1
  BY PoolSlots
<1>2. FreeSlots(pool) # {}
  <2>1. SUFFICES ASSUME FreeSlots(pool) = {} PROVE FALSE
    OBVIOUS
  <2>2. Occupied(pool) = 0 .. n - 1
    BY <1>1, <2>1, PoolSlots DEF FreeSlots
  <2>3. Cardinality(0 .. n - 1) = n
    BY FS_Interval
  <2> QED
    BY <2>2, <2>3
<1> QED
  BY <1>1, <1>2, MinOfNaturals

\* find_*_connection returns a connection of the pool, and one with the peer.
LEMMA FindInPool ==
    ASSUME NEW n \in Nat, NEW C, NULL \notin C, NEW pool \in PoolOf(n, C),
           NEW q, Connected(pool, q)
    PROVE  /\ Min(SlotsOf(pool, q)) \in SlotsOf(pool, q)
           /\ Min(SlotsOf(pool, q)) \in Occupied(pool)
           /\ Min(SlotsOf(pool, q)) \in 0 .. n - 1
           /\ Find(pool, q) = pool.connections[Min(SlotsOf(pool, q))]
           /\ Find(pool, q) \in C
           /\ Find(pool, q).peer = q
<1>1. SlotsOf(pool, q) \subseteq Occupied(pool) /\ SlotsOf(pool, q) # {}
  BY DEF SlotsOf, Connected
<1>2. SlotsOf(pool, q) \in SUBSET Nat
  BY <1>1, PoolSlots
<1>3. Min(SlotsOf(pool, q)) \in SlotsOf(pool, q)
  BY <1>1, <1>2, MinOfNaturals
<1> QED
  BY <1>1, <1>3, PoolSlots DEF Find, SlotsOf

-----------------------------------------------------------------------------
(* Types. *)

\* An empty pool is a pool without connections, and consistent.
LEMMA EmptyPoolType ==
    ASSUME NEW n \in Nat, NEW C
    PROVE  /\ EmptyPool(n) \in PoolOf(n, C)
           /\ Occupied(EmptyPool(n)) = {}
           /\ Consistent(EmptyPool(n))
<1>1. EmptyPool(n) \in PoolOf(n, C) /\ Occupied(EmptyPool(n)) = {}
  BY DEF EmptyPool, PoolOf, Occupied
<1>2. EmptyPool(n).size = 0
  BY DEF EmptyPool
<1> QED
  BY <1>1, <1>2, FS_EmptySet DEF Consistent

\* Adding a connection yields a pool.
LEMMA AddToType ==
    ASSUME NEW n \in Nat, NEW C, NULL \notin C, NEW pool \in PoolOf(n, C),
           NEW c \in C
    PROVE  AddTo(pool, c) \in PoolOf(n, C)
<1>1. CASE FreeSlots(pool) = {}
  BY <1>1 DEF AddTo, PoolOf
<1>2. CASE FreeSlots(pool) # {}
  <2>1. Min(FreeSlots(pool)) \in 0 .. n - 1
    <3>1. FreeSlots(pool) \subseteq 0 .. n - 1
      BY PoolSlots
    <3>2. FreeSlots(pool) \in SUBSET Nat
      BY <3>1
    <3> QED
      BY <1>2, <3>1, <3>2, MinOfNaturals
  <2> QED
    BY <1>2, <2>1 DEF AddTo, PoolOf
<1> QED
  BY <1>1, <1>2

\* Removing a connection yields a pool.
LEMMA RemoveFromType ==
    ASSUME NEW n \in Nat, NEW C, NULL \notin C, NEW pool \in PoolOf(n, C), NEW q
    PROVE  RemoveFrom(pool, q) \in PoolOf(n, C)
<1>1. CASE ~Connected(pool, q)
  BY <1>1 DEF RemoveFrom
<1>2. CASE Connected(pool, q)
  <2>1. Min(SlotsOf(pool, q)) \in 0 .. n - 1
    BY <1>2, FindInPool
  <2> QED
    BY <1>2, <2>1 DEF RemoveFrom, PoolOf
<1> QED
  BY <1>1, <1>2

\* Writing to a connection changes that connection and no slot.
LEMMA UpdateSlots ==
    ASSUME NEW n \in Nat, NEW C, NULL \notin C, NEW pool \in PoolOf(n, C),
           NEW q, Connected(pool, q), NEW c \in C
    PROVE  /\ Update(pool, q, c) \in PoolOf(n, C)
           /\ Update(pool, q, c).size = pool.size
           /\ Occupied(Update(pool, q, c)) = Occupied(pool)
           /\ \A k \in Occupied(pool) :
                Update(pool, q, c).connections[k] =
                    IF k = Min(SlotsOf(pool, q)) THEN c ELSE pool.connections[k]
<1> DEFINE new == Update(pool, q, c)
           m == Min(SlotsOf(pool, q))
<1>1. m \in Occupied(pool) /\ m \in 0 .. n - 1
  BY FindInPool
<1>2. /\ new = [connections |-> [pool.connections EXCEPT ![m] = c],
                size |-> pool.size]
      /\ pool.connections \in [0 .. n - 1 -> C \cup {NULL}]
      /\ pool.size \in Int
  BY DEF Update, PoolOf
<1>3. new \in PoolOf(n, C) /\ new.size = pool.size
  BY <1>1, <1>2 DEF PoolOf
<1>4. \A k \in 0 .. n - 1 :
        new.connections[k] = IF k = m THEN c ELSE pool.connections[k]
  BY <1>1, <1>2
<1>5. Occupied(new) = Occupied(pool)
  <2>1. DOMAIN new.connections = 0 .. n - 1 /\ DOMAIN pool.connections = 0 .. n - 1
    BY <1>2
  <2>2. c # NULL
    OBVIOUS
  <2> QED
    BY <1>1, <1>4, <2>1, <2>2 DEF Occupied
<1> QED
  BY <1>1, <1>3, <1>4, <1>5, PoolSlots

-----------------------------------------------------------------------------
(* Consistency. *)

\* Writing to a connection keeps the pool consistent: its peer is not written.
LEMMA UpdateConsistent ==
    ASSUME NEW n \in Nat, NEW C, NULL \notin C, NEW pool \in PoolOf(n, C),
           NEW q, Connected(pool, q), NEW c \in C, c.peer = q,
           Consistent(pool)
    PROVE  Consistent(Update(pool, q, c))
<1> DEFINE new == Update(pool, q, c)
<1>1. /\ new.size = pool.size
      /\ Occupied(new) = Occupied(pool)
      /\ \A k \in Occupied(pool) :
           new.connections[k] =
               IF k = Min(SlotsOf(pool, q)) THEN c ELSE pool.connections[k]
  BY UpdateSlots
<1>2. /\ Min(SlotsOf(pool, q)) \in Occupied(pool)
      /\ pool.connections[Min(SlotsOf(pool, q))].peer = q
  BY FindInPool
<1>3. \A k \in Occupied(pool) :
        new.connections[k].peer = pool.connections[k].peer
  BY <1>1, <1>2
<1> QED
  BY <1>1, <1>3 DEF Consistent

\* A connection added for a peer that has none takes a free slot, as long as
\* the counter is below the number of slots.
LEMMA AddToConsistent ==
    ASSUME NEW n \in Nat, NEW C, NULL \notin C, NEW pool \in PoolOf(n, C),
           NEW c \in C, Consistent(pool), pool.size < n,
           ~Connected(pool, c.peer)
    PROVE  LET f == Min(FreeSlots(pool))
           IN  /\ f \in 0 .. n - 1 /\ f \notin Occupied(pool)
               /\ Occupied(AddTo(pool, c)) = Occupied(pool) \cup {f}
               /\ AddTo(pool, c).connections[f] = c
               /\ \A k \in Occupied(pool) :
                    AddTo(pool, c).connections[k] = pool.connections[k]
               /\ Consistent(AddTo(pool, c))
<1> DEFINE new == AddTo(pool, c)
           f == Min(FreeSlots(pool))
<1>1. f \in FreeSlots(pool)
  BY FreeSlotExists DEF Consistent
<1>2. f \in 0 .. n - 1 /\ f \notin Occupied(pool)
  BY <1>1, PoolSlots DEF FreeSlots
<1>3. /\ new = [connections |-> [pool.connections EXCEPT ![f] = c],
                size |-> pool.size + 1]
      /\ DOMAIN pool.connections = 0 .. n - 1
  BY <1>1, PoolSlots DEF AddTo
<1>4. \A k \in 0 .. n - 1 :
        new.connections[k] = IF k = f THEN c ELSE pool.connections[k]
  BY <1>2, <1>3
<1>5. Occupied(new) = Occupied(pool) \cup {f}
  <2>1. DOMAIN new.connections = 0 .. n - 1 /\ c # NULL
    BY <1>3
  <2> QED
    BY <1>2, <1>3, <1>4, <2>1 DEF Occupied
<1>6. \A k \in Occupied(pool) : new.connections[k] = pool.connections[k]
  BY <1>2, <1>4, PoolSlots
<1>7. new.size = Cardinality(Occupied(new))
  <2>1. IsFiniteSet(Occupied(pool))
    BY PoolSlots
  <2>2. Cardinality(Occupied(pool) \cup {f}) = Cardinality(Occupied(pool)) + 1
    BY <1>2, <2>1, FS_AddElement
  <2>3. new.size = pool.size + 1
    BY <1>3
  <2> QED
    BY <1>5, <2>2, <2>3 DEF Consistent
<1>8. \A k \in Occupied(pool) : pool.connections[k].peer # c.peer
  BY DEF Connected, SlotsOf
<1>9. ASSUME NEW j \in Occupied(new), NEW k \in Occupied(new),
             new.connections[j].peer = new.connections[k].peer
      PROVE  j = k
  BY <1>2, <1>4, <1>5, <1>6, <1>8, <1>9 DEF Consistent
<1> QED
  BY <1>2, <1>4, <1>5, <1>6, <1>7, <1>9 DEF Consistent

\* Removing a peer from a consistent pool leaves it with no connection there,
\* and all other connections as they were.
LEMMA RemoveFromConsistent ==
    ASSUME NEW n \in Nat, NEW C, NULL \notin C, NEW pool \in PoolOf(n, C),
           NEW q, Consistent(pool)
    PROVE  /\ Consistent(RemoveFrom(pool, q))
           /\ ~Connected(RemoveFrom(pool, q), q)
           /\ Occupied(RemoveFrom(pool, q)) = Occupied(pool) \ SlotsOf(pool, q)
           /\ \A k \in Occupied(pool) \ SlotsOf(pool, q) :
                RemoveFrom(pool, q).connections[k] = pool.connections[k]
<1> DEFINE new == RemoveFrom(pool, q)
           m == Min(SlotsOf(pool, q))
<1>1. CASE ~Connected(pool, q)
  BY <1>1 DEF RemoveFrom, Connected
<1>2. CASE Connected(pool, q)
  <2>1. m \in SlotsOf(pool, q) /\ m \in Occupied(pool) /\ m \in 0 .. n - 1
    BY <1>2, FindInPool
  <2>2. SlotsOf(pool, q) = {m}
    BY <2>1 DEF SlotsOf, Consistent
  <2>3. /\ new = [connections |-> [pool.connections EXCEPT ![m] = NULL],
                  size |-> pool.size - 1]
        /\ DOMAIN pool.connections = 0 .. n - 1
    BY <1>2, PoolSlots DEF RemoveFrom
  <2>4. \A k \in 0 .. n - 1 :
          new.connections[k] = IF k = m THEN NULL ELSE pool.connections[k]
    BY <2>1, <2>3
  <2>5. Occupied(new) = Occupied(pool) \ {m}
    BY <2>1, <2>3, <2>4 DEF Occupied
  <2>6. \A k \in Occupied(new) : new.connections[k] = pool.connections[k]
    BY <2>4, <2>5, PoolSlots
  <2>7. new.size = Cardinality(Occupied(new))
    <3>1. IsFiniteSet(Occupied(pool))
      BY PoolSlots
    <3>2. Cardinality(Occupied(pool) \ {m}) = Cardinality(Occupied(pool)) - 1
      BY <2>1, <3>1, FS_RemoveElement
    <3>3. new.size = pool.size - 1
      BY <2>3
    <3> QED
      BY <2>5, <3>2, <3>3 DEF Consistent
  <2>8. \A j, k \in Occupied(new) :
          new.connections[j].peer = new.connections[k].peer => j = k
    BY <2>5, <2>6 DEF Consistent
  <2>9. SlotsOf(new, q) = {}
    BY <2>2, <2>5, <2>6 DEF SlotsOf
  <2> QED
    BY <2>2, <2>5, <2>6, <2>7, <2>8, <2>9 DEF Consistent, Connected
<1> QED
  BY <1>1, <1>2
-----------------------------------------------------------------------------
(* Where connections come from. *)

\* Every connection of a pool that something was added to, removed from or
\* written in was there before, in the same slot, or is the one written.
LEMMA AddToKeeps ==
    ASSUME NEW n \in Nat, NEW C, NULL \notin C, NEW pool \in PoolOf(n, C),
           NEW c \in C, NEW k \in Occupied(AddTo(pool, c))
    PROVE  \/ AddTo(pool, c).connections[k] = c
           \/ /\ k \in Occupied(pool)
              /\ AddTo(pool, c).connections[k] = pool.connections[k]
<1> DEFINE f == Min(FreeSlots(pool))
<1>1. CASE FreeSlots(pool) = {}
  BY <1>1 DEF AddTo, Occupied
<1>2. CASE FreeSlots(pool) # {}
  <2>1. AddTo(pool, c).connections = [pool.connections EXCEPT ![f] = c]
    BY <1>2 DEF AddTo
  <2>2. k \in DOMAIN pool.connections /\ AddTo(pool, c).connections[k] # NULL
    BY <2>1 DEF Occupied
  <2> QED
    BY <2>1, <2>2 DEF Occupied
<1> QED
  BY <1>1, <1>2

\* Removing a connection writes no other slot.
LEMMA RemoveFromKeeps ==
    ASSUME NEW n \in Nat, NEW C, NULL \notin C, NEW pool \in PoolOf(n, C),
           NEW q, NEW k \in Occupied(RemoveFrom(pool, q))
    PROVE  /\ k \in Occupied(pool)
           /\ RemoveFrom(pool, q).connections[k] = pool.connections[k]
<1> DEFINE m == Min(SlotsOf(pool, q))
<1>1. CASE ~Connected(pool, q)
  BY <1>1 DEF RemoveFrom
<1>2. CASE Connected(pool, q)
  <2>1. RemoveFrom(pool, q).connections = [pool.connections EXCEPT ![m] = NULL]
    BY <1>2 DEF RemoveFrom
  <2>2. /\ k \in DOMAIN pool.connections
        /\ RemoveFrom(pool, q).connections[k] # NULL
    BY <2>1 DEF Occupied
  <2> QED
    BY <2>1, <2>2 DEF Occupied
<1> QED
  BY <1>1, <1>2

-----------------------------------------------------------------------------
(* The pools after handle_timeout. *)

\* The pool after the loop: the connections given up are gone, the other late
\* ones are what the loop made of them.
LEMMA CheckedType ==
    ASSUME NEW n \in Nat, NEW C, NULL \notin C, NEW pool \in PoolOf(n, C),
           NEW late \in SUBSET Occupied(pool), NEW retried,
           \A k \in late \ GivenUp(pool, late) : retried[k] \in C
    PROVE  Checked(pool, late, retried) \in PoolOf(n, C)
<1>1. GivenUp(pool, late) \in SUBSET Occupied(pool)
  BY DEF GivenUp
<1>2. Cardinality(GivenUp(pool, late)) \in Nat
  BY <1>1, PoolSlots, FS_Subset, FS_CardinalityType
<1>3. /\ pool.connections \in [0 .. n - 1 -> C \cup {NULL}]
      /\ pool.size \in Int
  BY DEF PoolOf
<1>4. [k \in DOMAIN pool.connections |->
          IF k \notin late THEN pool.connections[k]
          ELSE IF k \in GivenUp(pool, late) THEN NULL ELSE retried[k]]
      \in [0 .. n - 1 -> C \cup {NULL}]
  BY <1>3
<1>5. pool.size - Cardinality(GivenUp(pool, late)) \in Int
  BY <1>2, <1>3
<1> QED
  BY <1>4, <1>5 DEF Checked, PoolOf

\* The loop empties the slots given up and leaves the peers of the others.
LEMMA CheckedSlots ==
    ASSUME NEW n \in Nat, NEW C, NULL \notin C, NEW pool \in PoolOf(n, C),
           NEW late \in SUBSET Occupied(pool), NEW retried,
           \A k \in late \ GivenUp(pool, late) : retried[k] \in C
    PROVE  LET new == Checked(pool, late, retried)
           IN  /\ Occupied(new) = Occupied(pool) \ GivenUp(pool, late)
               /\ \A k \in Occupied(new) :
                    new.connections[k] =
                        IF k \in late THEN retried[k] ELSE pool.connections[k]
<1> DEFINE new == Checked(pool, late, retried)
           out == GivenUp(pool, late)
<1>1. DOMAIN pool.connections = 0 .. n - 1 /\ Occupied(pool) \subseteq 0 .. n - 1
  BY PoolSlots
<1>2. out \subseteq late
  BY DEF GivenUp
<1>3. DOMAIN new.connections = 0 .. n - 1
  BY <1>1 DEF Checked
<1>4. \A k \in 0 .. n - 1 :
        new.connections[k] = IF k \notin late THEN pool.connections[k]
                             ELSE IF k \in out THEN NULL ELSE retried[k]
  BY <1>1 DEF Checked
<1>5. Occupied(new) = Occupied(pool) \ out
  BY <1>1, <1>2, <1>3, <1>4 DEF Occupied
<1> QED
  BY <1>1, <1>4, <1>5

\* The loop counts what it empties, so a consistent pool stays consistent.
LEMMA CheckedConsistent ==
    ASSUME NEW n \in Nat, NEW C, NULL \notin C, NEW pool \in PoolOf(n, C),
           NEW late \in SUBSET Occupied(pool), NEW retried,
           \A k \in late \ GivenUp(pool, late) :
               /\ retried[k] \in C
               /\ retried[k].peer = pool.connections[k].peer,
           Consistent(pool)
    PROVE  Consistent(Checked(pool, late, retried))
<1> DEFINE new == Checked(pool, late, retried)
           out == GivenUp(pool, late)
<1>1. out \subseteq late /\ out \subseteq Occupied(pool)
  BY DEF GivenUp
<1>2. /\ Occupied(new) = Occupied(pool) \ out
      /\ \A k \in Occupied(new) :
           new.connections[k] =
               IF k \in late THEN retried[k] ELSE pool.connections[k]
  <2>1. \A k \in late \ out : retried[k] \in C
    OBVIOUS
  <2> QED
    BY <2>1, CheckedSlots
<1>3. Cardinality(Occupied(new)) = Cardinality(Occupied(pool)) - Cardinality(out)
  <2>1. IsFiniteSet(Occupied(pool))
    BY PoolSlots
  <2>2. Occupied(pool) \cap out = out
    BY <1>1
  <2> QED
    BY <1>2, <2>1, <2>2, FS_Difference
<1>4. new.size = pool.size - Cardinality(out)
  BY DEF Checked
<1>5. \A k \in Occupied(new) : new.connections[k].peer = pool.connections[k].peer
  BY <1>2
<1> QED
  BY <1>2, <1>3, <1>4, <1>5 DEF Consistent
=============================================================================
