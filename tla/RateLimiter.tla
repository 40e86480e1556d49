----------------------------- MODULE RateLimiter -----------------------------
(***************************************************************************)
(* The rate limiter: one token bucket for every peer key and one for every *)
(* client address, the table of clients kept to MAX_CLIENTS entries.       *)
(*                                                                         *)
(* The limiter's code is not in the repository; its interface is what the  *)
(* unit tests call (should_rate_limit(id, now), should_rate_limit_client(  *)
(* ip, now), the three constants) and its algorithm is the one of section  *)
(* 4.4 of the design document.  Each table has its own mutex, so a query   *)
(* is one step.  The time of a query is an argument: the caller reads the  *)
(* clock before it takes the mutex, and queries reach a bucket in any      *)
(* order of their times.                                                   *)
(*                                                                         *)
(* Time is counted in ticks (microseconds in the tests) and a bucket holds *)
(* its tokens in units of 1/TicksPerSecond of a token, so that the refill  *)
(* of any number of ticks is exact.                                        *)
(***************************************************************************)
EXTENDS Integers, Sequences, FiniteSets, FiniteSetsExt, Functions, TLC

CONSTANTS
    BUCKET_SIZE,       \* the burst, in tokens
    TOKEN_RATE,        \* tokens per second
    TicksPerSecond,
    MAX_CLIENTS,       \* the size of the table of clients
    Peers, Clients,    \* the identifiers: peer keys, client addresses
    Stamps,            \* bound of the model: the times a query can carry
    MaxCalls,          \* bound of the model: the number of queries
    Nil

ASSUME /\ {BUCKET_SIZE, TOKEN_RATE, TicksPerSecond, MAX_CLIENTS} \subseteq Nat \ {0}
       /\ Stamps \subseteq Nat

VARIABLES
    peer_buckets,      \* peer key -> bucket, for the keys seen
    client_buckets,    \* address -> bucket, for the addresses in the table
    log                \* history: the queries and their answers

vars == <<peer_buckets, client_buckets, log>>

-----------------------------------------------------------------------------
(* One bucket                                                              *)

OneToken == TicksPerSecond
Full     == BUCKET_SIZE * OneToken

FreshButEmpty(now) == [tokens |-> 0, last |-> now]

\* 1. a bucket is inserted with tokens = BUCKET_SIZE, last = now
Fresh(now) == [tokens |-> Full, last |-> now]

ElapsedUnsaturated(b, now) == now - b.last

\* now - b.last, saturating
Elapsed(b, now) == Max({0, now - b.last})

RefilledWithoutCap(b, now) ==
    [tokens |-> b.tokens + Elapsed(b, now) * TOKEN_RATE, last |-> now]

\* 2. tokens = min(BUCKET_SIZE, tokens + (now - last) * TOKEN_RATE)
\* 3. last = now
Refilled(b, now) ==
    [tokens |-> Min({Full, b.tokens + Elapsed(b, now) * TOKEN_RATE}), last |-> now]

Allows(b) == b.tokens >= OneToken

\* 4. with a token, take it
Spent(b) == IF Allows(b) THEN [b EXCEPT !.tokens = @ - OneToken] ELSE b

\* The query on a table: the table after it and the answer.
Query(table, id, now) ==
    LET b == Refilled(IF id \in DOMAIN table THEN table[id] ELSE Fresh(now), now)
    IN  [table |-> (id :> Spent(b)) @@ table, allow |-> Allows(b)]

-----------------------------------------------------------------------------
(* The table of clients                                                    *)

\* The buckets whose `last` is oldest.
Oldest(table) ==
    {c \in DOMAIN table : \A d \in DOMAIN table : table[c].last <= table[d].last}

NoVictims(table, id) == {Nil}

\* Who may have to go for `id`: nobody when id has a bucket or the table
\* has room, else one of the oldest.
Victims(table, id) ==
    IF id \in DOMAIN table \/ Cardinality(DOMAIN table) < MAX_CLIENTS
    THEN {Nil}
    ELSE Oldest(table)

Without(table, victim) == Restrict(table, DOMAIN table \ {victim})

-----------------------------------------------------------------------------
(* The two operations                                                      *)

Logged(kind, id, now, q, victim) ==
    log' = Append(log, [kind |-> kind, id |-> id, now |-> now,
                         allow |-> q.allow, evicted |-> victim])

\* The C++ functions return true for "throttle".
should_rate_limit(id, now) ==
    LET q == Query(peer_buckets, id, now) IN
    /\ peer_buckets' = q.table
    /\ Logged("peer", id, now, q, Nil)
    /\ UNCHANGED client_buckets

should_rate_limit_client(ip, now) ==
    \E victim \in Victims(client_buckets, ip) :
        LET q == Query(Without(client_buckets, victim), ip, now) IN
        /\ client_buckets' = q.table
        /\ Logged("client", ip, now, q, victim)
        /\ UNCHANGED peer_buckets

-----------------------------------------------------------------------------
(* Specification: any queries, with any times                              *)

Init ==
    /\ peer_buckets = <<>>
    /\ client_buckets = <<>>
    /\ log = <<>>

Next ==
    /\ Len(log) < MaxCalls
    /\ \E now \in Stamps :
          \/ \E id \in Peers : should_rate_limit(id, now)
          \/ \E ip \in Clients : should_rate_limit_client(ip, now)

Spec == Init /\ [][Next]_vars

-----------------------------------------------------------------------------
(* Properties                                                              *)

Buckets == [tokens : 0..Full, last : Nat]

\* The type invariant; the table of clients never has more than
\* MAX_CLIENTS buckets, whatever addresses arrive (a bucket is inserted
\* only after room was made for it).
TypeOK ==
    /\ DOMAIN peer_buckets \subseteq Peers
    /\ DOMAIN client_buckets \subseteq Clients
    /\ \A p \in DOMAIN peer_buckets : peer_buckets[p] \in Buckets
    /\ \A c \in DOMAIN client_buckets : client_buckets[c] \in Buckets
    /\ Cardinality(DOMAIN client_buckets) <= MAX_CLIENTS
    /\ Len(log) <= MaxCalls

\* The queries i..j of the log that went to the bucket query i went to.
Mine(i, j) == {k \in i..j : log[k].kind = log[i].kind /\ log[k].id = log[i].id}

\* Query i and query j met the same bucket, and every query to it in
\* between carried a time no earlier than the one before.
OneBucketInOrder(i, j) ==
    /\ j \in Mine(i, j)
    /\ \A k \in i..j : log[k].evicted # log[i].id \/ log[k].kind # log[i].kind
    /\ \A k, l \in Mine(i, j) : k <= l => log[k].now <= log[l].now

CeilDiv(a, b) == (a + b - 1) \div b

\* The rate: of the queries for one identifier that carry non-decreasing
\* times, those in a window of length W are allowed at most BUCKET_SIZE
\* plus W * TOKEN_RATE (rounded up) times (section 8 of the design
\* document).  This is what refill, cap and spending must add up to from
\* any state an earlier query left the bucket in, including one whose
\* `last` a late query has set back.  It is claimed for a client only
\* while its bucket stays in the table: an evicted address comes back to a
\* full bucket.
RateBounded ==
    \A i, j \in DOMAIN log :
        i <= j /\ OneBucketInOrder(i, j) =>
            Cardinality({k \in Mine(i, j) : log[k].allow})
                <= BUCKET_SIZE
                   + CeilDiv((log[j].now - log[i].now) * TOKEN_RATE, TicksPerSecond)

\* The ticks one token takes to arrive.
TokenPeriod == CeilDiv(TicksPerSecond, TOKEN_RATE)

\* After a quiet period the next query is allowed (section 8 of the design
\* document; the unit tests wait "just enough to allow one more request"):
\* a query that comes a token's time or more after the query before it for
\* the same identifier is never throttled, whatever that query was, and
\* whatever times the queries before them carried.  A query that arrives
\* with a time before the bucket's `last` must count as no time passed;
\* counted as negative time, it would take tokens away and the wait that
\* follows would not be enough.
QuietThenAllowed ==
    \A k, l \in DOMAIN log :
        /\ k < l
        /\ Mine(k, l) = {k, l}
        /\ log[l].now >= log[k].now + TokenPeriod
        => log[l].allow

=============================================================================
