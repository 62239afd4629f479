------------------------------- MODULE Gateway -------------------------------
(***************************************************************************)
(* graphql-bff: a resolver asks identity-svc about the caller's token,     *)
(* answers a query from Redis or from transaction-svc, and passes a        *)
(* mutation on.  Every call to a service goes through the service's        *)
(* circuit breaker (sony/gobreaker).                                       *)
(*                                                                         *)
(* One record stands for all of them: its versions are counted, and the    *)
(* cache entry of a query holds the version it was fetched at.  A client   *)
(* asks again and again, so a request starts over once it is answered.     *)
(***************************************************************************)
EXTENDS Integers, FiniteSets

CONSTANTS
    Requests,       \* GraphQL requests that may be in flight
    TripAfter,      \* consecutive failures a closed breaker bears; 5 in the code
    MaxRequests,    \* calls a half-open breaker lets through; 3 in the code
    TTL,            \* life of a cache entry in ticks; five minutes in the code
    MaxWrites,      \* bound: mutations applied
    MaxErrors       \* bound: errors of the services and of Redis

ASSUME GatewayAssumption ==
    /\ {MaxRequests, TTL} \subseteq Nat \ {0}
    /\ {TripAfter, MaxWrites, MaxErrors} \subseteq Nat

Services == {"identity", "transaction"}

VARIABLES
    pc,         \* the next step of each request
    kind,       \* "query" or "mutation"
    seen,       \* the version transaction-svc answered a query with
    breaker,    \* the breaker of each service
    version,    \* the record at transaction-svc
    entry,      \* its entry in Redis; none when ttl is 0
    errors      \* errors so far

vars == <<pc, kind, seen, breaker, version, entry, errors>>

\* What a breaker starts over with when its state changes or a closed one's
\* interval ends.  The counts that gobreaker keeps and never reads in a state are
\* left out; calls are the calls it has let through since.
Generation(s) == [state |-> s, streak |-> 0, admitted |-> 0, calls |-> {}]

Init ==
    /\ pc = [r \in Requests |-> "idle"]
    /\ kind = [r \in Requests |-> "query"]
    /\ seen = [r \in Requests |-> 0]
    /\ breaker = [s \in Services |-> Generation("closed")]
    /\ version = 0
    /\ entry = [version |-> 0, ttl |-> 0]
    /\ errors = 0

------------------------------------------------------------------------------
(***************************************************************************)
(* The breaker.                                                            *)
(***************************************************************************)

Admits(b) ==
    \/ b.state = "closed"
    \/ b.state = "half-open" /\ b.admitted < MaxRequests

Admitted(b, r) ==
    [b EXCEPT !.calls = @ \union {r},
              !.admitted = IF b.state = "half-open" THEN @ + 1 ELSE @]

\* Mutant: the breaker waits for one success more than it lets calls through.
SucceededOnceMore(b, r) ==
    IF r \notin b.calls THEN b
    ELSE IF b.state = "closed" THEN [b EXCEPT !.calls = @ \ {r}, !.streak = 0]
    ELSE IF b.streak >= MaxRequests THEN Generation("closed")
    ELSE [b EXCEPT !.calls = @ \ {r}, !.streak = @ + 1]

\* The result of a call of an earlier generation does not count.
Succeeded(b, r) ==
    IF r \notin b.calls THEN b
    ELSE IF b.state = "closed" THEN [b EXCEPT !.calls = @ \ {r}, !.streak = 0]
    ELSE IF b.streak + 1 >= MaxRequests THEN Generation("closed")
    ELSE [b EXCEPT !.calls = @ \ {r}, !.streak = @ + 1]

\* Any error is a failure, one that only tells the client it asked for something
\* that does not exist too.
Failed(b, r) ==
    IF r \notin b.calls THEN b
    ELSE IF b.state = "closed" /\ b.streak + 1 <= TripAfter
    THEN [b EXCEPT !.calls = @ \ {r}, !.streak = @ + 1]
    ELSE Generation("open")

\* Execute begins a call to service s; the fallback of a refused one is an error.
BeginCall(r, s, at, next) ==
    /\ pc[r] = at
    /\ IF Admits(breaker[s])
       THEN /\ breaker' = [breaker EXCEPT ![s] = Admitted(@, r)]
            /\ pc' = [pc EXCEPT ![r] = next]
       ELSE /\ pc' = [pc EXCEPT ![r] = "idle"]
            /\ UNCHANGED breaker
    /\ UNCHANGED <<kind, seen, version, entry, errors>>

------------------------------------------------------------------------------
(***************************************************************************)
(* The steps of a request.                                                 *)
(***************************************************************************)

Mutating == {r \in Requests : pc[r] # "idle" /\ kind[r] = "mutation"}

Ask(r, k) ==
    /\ pc[r] = "idle"
    /\ k = "mutation" => version + Cardinality(Mutating) < MaxWrites
    /\ pc' = [pc EXCEPT ![r] = "auth"]
    /\ kind' = [kind EXCEPT ![r] = k]
    /\ seen' = [seen EXCEPT ![r] = 0]
    /\ UNCHANGED <<breaker, version, entry, errors>>

ValidateToken(r) == BeginCall(r, "identity", "auth", "token")

\* A query looks into the cache; a mutation neither reads nor evicts it.
TokenValidated(r, valid) ==
    /\ pc[r] = "token"
    /\ breaker' = [breaker EXCEPT !["identity"] = Succeeded(@, r)]
    /\ pc' = [pc EXCEPT ![r] = IF ~valid THEN "idle"
                               ELSE IF kind[r] = "query" THEN "lookup" ELSE "call"]
    /\ UNCHANGED <<kind, seen, version, entry, errors>>

\* Mutant: a hit extends the life of the entry.
LookupSliding(r) ==
    /\ pc[r] = "lookup"
    /\ pc' = [pc EXCEPT ![r] = IF entry.ttl > 0 THEN "idle" ELSE "call"]
    /\ entry' = [entry EXCEPT !.ttl = IF entry.ttl > 0 THEN TTL ELSE 0]
    /\ UNCHANGED <<kind, seen, breaker, version, errors>>

Lookup(r) ==
    /\ pc[r] = "lookup"
    /\ pc' = [pc EXCEPT ![r] = IF entry.ttl > 0 THEN "idle" ELSE "call"]
    /\ UNCHANGED <<kind, seen, breaker, version, entry, errors>>

CallService(r) == BeginCall(r, "transaction", "call", "reply")

Reply(r) ==
    /\ pc[r] = "reply"
    /\ breaker' = [breaker EXCEPT !["transaction"] = Succeeded(@, r)]
    /\ IF kind[r] = "query"
       THEN /\ seen' = [seen EXCEPT ![r] = version]
            /\ pc' = [pc EXCEPT ![r] = "fill"]
            /\ UNCHANGED version
       ELSE /\ version' = version + 1
            /\ pc' = [pc EXCEPT ![r] = "idle"]
            /\ UNCHANGED seen
    /\ UNCHANGED <<kind, entry, errors>>

Fill(r) ==
    /\ pc[r] = "fill"
    /\ entry' = [version |-> seen[r], ttl |-> TTL]
    /\ pc' = [pc EXCEPT ![r] = "idle"]
    /\ UNCHANGED <<kind, seen, breaker, version, errors>>

\* The service answers with an error, or the caller's 30 seconds are over; a
\* mutation may have been applied all the same.
CallFails(r, s, applied) ==
    /\ pc[r] = IF s = "identity" THEN "token" ELSE "reply"
    /\ errors < MaxErrors
    /\ errors' = errors + 1
    /\ applied => s = "transaction" /\ kind[r] = "mutation"
    /\ version' = IF applied THEN version + 1 ELSE version
    /\ breaker' = [breaker EXCEPT ![s] = Failed(@, r)]
    /\ pc' = [pc EXCEPT ![r] = "idle"]
    /\ UNCHANGED <<kind, seen, entry>>

\* A Redis error fails the query, even when its answer is at hand.
CacheFails(r) ==
    /\ pc[r] \in {"lookup", "fill"}
    /\ errors < MaxErrors
    /\ errors' = errors + 1
    /\ pc' = [pc EXCEPT ![r] = "idle"]
    /\ UNCHANGED <<kind, seen, breaker, version, entry>>

------------------------------------------------------------------------------
(***************************************************************************)
(* Time.                                                                   *)
(***************************************************************************)

Tick ==
    /\ entry.ttl > 0
    /\ entry' = [entry EXCEPT !.ttl = @ - 1]
    /\ UNCHANGED <<pc, kind, seen, breaker, version, errors>>

Timeout(s) ==
    /\ breaker[s].state = "open"
    /\ breaker' = [breaker EXCEPT ![s] = Generation("half-open")]
    /\ UNCHANGED <<pc, kind, seen, version, entry, errors>>

Interval(s) ==
    /\ breaker[s].state = "closed"
    /\ breaker' = [breaker EXCEPT ![s] = Generation("closed")]
    /\ UNCHANGED <<pc, kind, seen, version, entry, errors>>

------------------------------------------------------------------------------

Step(r) ==
    \/ ValidateToken(r)
    \/ \E valid \in BOOLEAN : TokenValidated(r, valid)
    \/ Lookup(r) \/ CallService(r) \/ Reply(r) \/ Fill(r)
    \/ \E s \in Services, applied \in BOOLEAN : CallFails(r, s, applied)
    \/ CacheFails(r)

Next ==
    \/ \E r \in Requests : Step(r) \/ Ask(r, "query") \/ Ask(r, "mutation")
    \/ Tick
    \/ \E s \in Services : Timeout(s) \/ Interval(s)

\* There are always queries with a valid token; each call ends, by its answer or
\* by the router's timeout, and time passes.
Fairness ==
    /\ \A r \in Requests :
        /\ WF_vars(Step(r))
        /\ WF_vars(Ask(r, "query"))
        /\ SF_vars(TokenValidated(r, TRUE))
    /\ WF_vars(Tick)
    /\ \A s \in Services : WF_vars(Timeout(s))

Spec == Init /\ [][Next]_vars /\ Fairness

------------------------------------------------------------------------------
(***************************************************************************)
(* Properties.                                                             *)
(***************************************************************************)

\* Once the services stop failing, both breakers close and stay closed: a half-open
\* breaker lets as many calls through as it needs successes, the results of older
\* calls do not count against them, and cached answers do not keep queries from
\* probing for ever.
BreakersRecover == <>[](\A s \in Services : breaker[s].state = "closed")

\* Mutations do not evict, and a slow query may write an old version back; all the
\* same, once the mutations are over, queries stop being answered with an old
\* version: a hit does not extend the life of an entry.
EventuallyFresh == <>[](entry.ttl > 0 => entry.version = version)
==============================================================================
