------------------------------ MODULE Timeout -------------------------------
(***************************************************************************)
(* handle_timeout of process_packets.c: what its two loops do to a pool.   *)
(* late is the set of slots whose connections have waited too long.        *)
(***************************************************************************)
EXTENDS ConnectionPool

CONSTANTS
    OVERTIME_LIMIT   \* timeouts in a row a connection survives (5)

ASSUME OVERTIME_LIMIT_Assumption == OVERTIME_LIMIT \in Nat

\* Mutant: go back to the beginning of the chunk.
RewoundToStart(c) ==
    [c EXCEPT !.next = 1, !.duplicate_num = 0,
              !.available = Available(c.last_acked)]

\* Go back to the first packet that is not acknowledged.
Rewound(c) ==
    [c EXCEPT !.next = c.last_acked + 1, !.duplicate_num = 0,
              !.available = Available(c.last_acked)]

\* Mutant: the threshold is compared before the count is incremented.
GivenUpLate(pool, late) ==
    {k \in late : pool.connections[k].overtime_count > OVERTIME_LIMIT}

GivenUp(pool, late) ==
    {k \in late : pool.connections[k].overtime_count + 1 > OVERTIME_LIMIT}

\* Mutant: the timeout is not counted.
Uncounted(c) == c

Overtime(c) == [c EXCEPT !.overtime_count = @ + 1]

\* The pool after the loop; retried[k] is what became of a late connection.  The
\* code removes a connection by its peer, and so the first slot of that peer:
\* this one, as no peer has two (PoolsConsistent).
Checked(pool, late, retried) ==
    [connections |->
        [k \in DOMAIN pool.connections |->
            IF k \notin late THEN pool.connections[k]
            ELSE IF k \in GivenUp(pool, late) THEN NULL ELSE retried[k]],
     size |-> pool.size - Cardinality(GivenUp(pool, late))]

ResentUploads(pool, late) ==
    [k \in late |-> Sent(Rewound(Overtime(pool.connections[k])))]

WaitingDownloads(pool, late) ==
    [k \in late |-> Overtime(pool.connections[k])]

\* Mutant: the timer is left to the packets and the requests.
NotRearmed(left, out, retry) == out # {} \/ retry

\* Connections are left, or process_download has set the timer.
Rearmed(left, out, retry) == left # {} \/ out # {} \/ retry
=============================================================================
