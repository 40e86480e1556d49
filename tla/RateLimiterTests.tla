-------------------------- MODULE RateLimiterTests --------------------------
(***************************************************************************)
(* The unit tests of the rate limiter, run against the limiter of module   *)
(* RateLimiter.                                                            *)
(*                                                                         *)
(* A test case is the sequence of its calls; a call carries the identifier,*)
(* the time, what the test expects of it (CHECK: throttled, CHECK_FALSE:   *)
(* not throttled, or nothing) and the line of the expectation.  Every test *)
(* case starts with a limiter of its own and the clock read once (`now`);  *)
(* later calls carry `now` plus a delay the test computes from TOKEN_RATE  *)
(* by integer division, which drops what is left of a tick.                *)
(***************************************************************************)
EXTENDS RateLimiter, SequencesExt

VARIABLES
    test,      \* the test case that runs
    done,      \* the calls it has made
    failed     \* history: the lines of the expectations that did not hold

testVars == <<vars, test, done, failed>>

-----------------------------------------------------------------------------
(* The test cases                                                          *)

\* const auto now = std::chrono::steady_clock::now();
now == 0

\* std::chrono::microseconds(1'000'000ul / RateLimiter::TOKEN_RATE)
Delta == TicksPerSecond \div TOKEN_RATE

\* identifier, identifier1, identifier2; ip_start + i
Identifier(kind, n) == SetToSeq(IF kind = "peer" THEN Peers ELSE Clients)[n]

Call(kind, n, at, throttled, line) ==
    [kind |-> kind, id |-> Identifier(kind, n), at |-> at, throttled |-> throttled,
     line |-> line]

Times(n, call) == [j \in 1..n |-> call]

\* BUCKET_SIZE calls pass, the next does not, and one token later one does.
EmptyBucket(kind, lines) ==
    Times(BUCKET_SIZE, Call(kind, 1, now, FALSE, lines[1]))
        \o <<Call(kind, 1, now, TRUE, lines[2]),
             Call(kind, 1, now + Delta, FALSE, lines[3])>>

\* Calls at the rate the bucket fills at all pass.
SteadyFillup(kind, line) ==
    [j \in 1..(BUCKET_SIZE * 10) |->
        Call(kind, 1, now + ((j - 1) * TicksPerSecond) \div TOKEN_RATE, FALSE, line)]

\* An empty bucket of one identifier does not throttle another.
MultipleIdentifiers(kind, lines) ==
    Times(BUCKET_SIZE, Call(kind, 1, now, FALSE, lines[1]))
        \o <<Call(kind, 1, now, TRUE, lines[2]),
             Call(kind, 2, now, FALSE, lines[3])>>

\* MAX_CLIENTS addresses fill the table; one more is throttled, and is
\* not once the buckets have filled.
MaxClientLimit ==
    [j \in 1..MAX_CLIENTS |-> Call("client", j, now, Nil, 117)]
        \o <<Call("client", MAX_CLIENTS + 1, now, TRUE, 120),
             Call("client", MAX_CLIENTS + 1, now + Delta, FALSE, 123)>>

TestCases ==
    [mnode_empty_bucket          |-> EmptyBucket("peer", <<20, 22, 27>>),
     mnode_steady_bucket_fillup  |-> SteadyFillup("peer", 40),
     mnode_multiple_identifiers  |-> MultipleIdentifiers("peer", <<52, 54, 59>>),
     client_empty_bucket         |-> EmptyBucket("client", <<69, 71, 76>>),
     client_steady_bucket_fillup |-> SteadyFillup("client", 89),
     client_multiple_identifiers |-> MultipleIdentifiers("client", <<100, 102, 106>>),
     client_max_client_limit     |-> MaxClientLimit]

-----------------------------------------------------------------------------
(* Running them                                                            *)

\* RateLimiter rate_limiter{bmq};
Begin ==
    /\ Init
    /\ test \in DOMAIN TestCases
    /\ done = 0
    /\ failed = {}

\* The next call of the test case and its CHECK or CHECK_FALSE.
Step ==
    /\ done < Len(TestCases[test])
    /\ LET call == TestCases[test][done + 1] IN
       /\ \/ call.kind = "peer" /\ should_rate_limit(call.id, call.at)
          \/ call.kind = "client" /\ should_rate_limit_client(call.id, call.at)
       /\ failed' = failed \cup
              {call.line : x \in {call.throttled} \cap {Last(log').allow}}
    /\ done' = done + 1
    /\ UNCHANGED test

TestSpec == Begin /\ [][Step]_testVars

-----------------------------------------------------------------------------
(* Properties                                                              *)

\* The expectation about a table of clients that is full.
FullTableChecks == {120}

\* The expectations after the wait that is "just enough to allow one more
\* request": 1'000'000 / TOKEN_RATE, cut to whole microseconds, is less
\* than a token's time unless TOKEN_RATE divides the second.
WaitsCutShort == IF TicksPerSecond % TOKEN_RATE = 0 THEN {} ELSE {27, 76}

\* The limiter of the design document passes the unit tests: every CHECK
\* and CHECK_FALSE holds at the call it is made for, with the bursts, the
\* refusal after the burst and the delays computed by the tests, for peers
\* and for clients.  There are two exceptions.  The address that meets a
\* full table: the test expects it to be throttled, the design document
\* makes room for it by eviction and admits it.  And the query after the
\* cut wait: the test expects a token, the refill of the design document
\* counts the time that passed and has a little less than one.
ChecksHold == failed \subseteq FullTableChecks \cup WaitsCutShort

=============================================================================
