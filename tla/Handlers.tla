------------------------------- MODULE Handlers -------------------------------
(***************************************************************************)
(* What the handlers of transaction-svc, budget-svc, investment-svc and    *)
(* identity-svc have in common: a request looks its Idempotency-Key up in  *)
(* Redis, reads, commits one transaction, stores the response under the    *)
(* key and evicts cache entries.  Every call to PostgreSQL or Redis is one *)
(* step, and the steps of different requests interleave.  A service's      *)
(* module EXTENDS this one and adds its tables, its cache and its          *)
(* operations.                                                             *)
(***************************************************************************)
EXTENDS Integers, FiniteSets

CONSTANTS
    Requests,       \* RPC calls of a behaviour, each made once
    Keys, NoKey,    \* Idempotency-Key values, and the empty one
    Overlaps,       \* how many requests may be in flight: 1, when callers wait, or more
    MaxFaults       \* bound: how many faults happen

\* A database error that undoes the request, one after its commit, a Redis error,
\* an error of another service, a request that dies between two steps.
Faults == {"db", "late", "redis", "remote", "abandon"}

ASSUME HandlersAssumption ==
    /\ IsFiniteSet(Requests)
    /\ NoKey \notin Keys
    /\ Overlaps \subseteq Nat \ {0}
    /\ MaxFaults \in Nat

VARIABLES
    overlap,    \* how many requests may be in flight in this behaviour
    pc,         \* the next step of each request
    call,       \* what each request in flight asks for
    copy,       \* what it holds in memory
    sent,       \* history: the command a client bound each key to
    stored,     \* the keys whose response is in Redis
    commits,    \* history: transactions committed under each key
    faults      \* faults so far, by kind

frameVars == <<overlap, pc, call, copy, sent, stored, commits, faults>>

NoCall == [op |-> "none", key |-> NoKey]

NoCopy == [none |-> TRUE]

FrameInit ==
    /\ overlap \in Overlaps
    /\ pc = [r \in Requests |-> "idle"]
    /\ call = [r \in Requests |-> NoCall]
    /\ copy = [r \in Requests |-> NoCopy]
    /\ sent = [k \in Keys |-> NoCall]
    /\ stored = {}
    /\ commits = [k \in Keys |-> 0]
    /\ faults = [f \in Faults |-> 0]

TotalFaults ==
    faults["db"] + faults["late"] + faults["redis"] + faults["remote"] + faults["abandon"]

Fault(f) ==
    /\ TotalFaults < MaxFaults
    /\ faults' = [faults EXCEPT ![f] = @ + 1]

InFlight(r) == pc[r] \notin {"idle", "done"}

Quiescent == \A r \in Requests : ~InFlight(r)

Serial == overlap = 1

\* The request takes c as its call and goes on at s with x in memory; once it
\* has returned to its caller nothing of it is left.
Continue(r, c, s, x) ==
    /\ pc' = [pc EXCEPT ![r] = s]
    /\ call' = [call EXCEPT ![r] = IF s = "done" THEN NoCall ELSE c]
    /\ copy' = [copy EXCEPT ![r] = IF s = "done" THEN NoCopy ELSE x]

Goto(r, s, x) == Continue(r, call[r], s, x)

Return(r) == Goto(r, "done", NoCopy)

\* A key names one command: a client sends it again only to retry.  up is false
\* when the handler's first call to Redis fails, which every handler takes for
\* a miss; asks tells whether it makes one.
Arrives(r, c, up, asks) ==
    /\ pc[r] = "idle"
    /\ Cardinality({q \in Requests : InFlight(q)}) < overlap
    /\ c.key # NoKey => sent[c.key] \in {NoCall, c}
    /\ sent' = [k \in Keys |-> IF k = c.key THEN c ELSE sent[k]]
    /\ ~up => asks
    /\ IF up THEN UNCHANGED faults ELSE Fault("redis")
    /\ UNCHANGED <<overlap, stored, commits>>

\* The check at the head of a mutation: a stored response is returned as it is.
Replayed(k, up) == up /\ k \in stored

\* A step that reads, or that is refused: only the request moves.
Reads(r, at) ==
    /\ pc[r] = at
    /\ UNCHANGED <<overlap, sent, stored, commits, faults>>

\* The transaction of request r commits.
Commits(r) ==
    /\ pc[r] = "commit"
    /\ commits' = [k \in Keys |-> IF k = call[r].key THEN commits[k] + 1 ELSE commits[k]]
    /\ UNCHANGED <<overlap, sent, stored, faults>>

\* A query or a transaction fails and is rolled back.
DatabaseFails(r) ==
    /\ pc[r] \in {"find", "commit"}
    /\ Fault("db")
    /\ Return(r)
    /\ UNCHANGED <<overlap, sent, stored, commits>>

\* SETNX: a response already there stays.
StoreKey(r, next) ==
    /\ pc[r] = "store"
    /\ stored' = stored \union {call[r].key}
    /\ Goto(r, next, NoCopy)
    /\ UNCHANGED <<overlap, sent, commits, faults>>

\* The response could not be stored; the error is dropped.
StoreFails(r, next) ==
    /\ pc[r] = "store"
    /\ Fault("redis")
    /\ Goto(r, next, NoCopy)
    /\ UNCHANGED <<overlap, sent, stored, commits>>

\* The cache could not be written or evicted; the error is dropped.
CacheFails(r) ==
    /\ pc[r] \in {"evict", "fill"}
    /\ Fault("redis")
    /\ Return(r)
    /\ UNCHANGED <<overlap, sent, stored, commits>>

\* The replica dies or the caller's context ends: the remaining steps are lost.
Abandon(r) ==
    /\ InFlight(r)
    /\ Fault("abandon")
    /\ Return(r)
    /\ UNCHANGED <<overlap, sent, stored, commits>>

\* No eviction or store was lost so far.
NothingLost == faults["late"] + faults["redis"] + faults["abandon"] = 0

FrameTypeOK ==
    /\ overlap \in Nat \ {0}
    /\ pc \in [Requests -> {"idle", "find", "commit", "reread", "store", "evict", "fill", "done"}]
    /\ stored \subseteq Keys
    /\ commits \in [Keys -> Nat]
    /\ faults \in [Faults -> Nat]

\* The mutations of one Idempotency-Key commit once when calls do not overlap;
\* each Redis error, each query that failed after the commit and each request
\* that died before Store may let one repetition through.
AtMostOncePerKey ==
    Serial => \A k \in Keys :
        commits[k] <= 1 + faults["late"] + faults["redis"] + faults["abandon"]
==============================================================================
