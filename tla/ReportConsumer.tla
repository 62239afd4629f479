---------------------------- MODULE ReportConsumer ----------------------------
(***************************************************************************)
(* report-svc's side of Kafka: replicas of one consumer group reading one  *)
(* partition, HandleMessage and the projectors behind it.                  *)
(*                                                                         *)
(* ReadMessage marks a message as consumed before the handler sees it; the *)
(* library sends the mark to the broker a second later, or when the member *)
(* gives the partition up.  A member the broker has evicted goes on        *)
(* reading until it learns of it, and a mark may get lost or be sent late. *)
(* A handler that fails ends its goroutine, but the reader stays a member  *)
(* of the group and keeps the partition.                                   *)
(*                                                                         *)
(* Offsets count from 1; an offset stands for the message before it.  The  *)
(* broker and the library kafka-go are modelled as report-svc uses them.   *)
(* What the projectors compute is left out: no property is about it.       *)
(***************************************************************************)
EXTENDS Integers, Sequences, FiniteSets

CONSTANTS
    Replicas, NoReplica,    \* processes of report-svc, and none
    MaxMessages,            \* bound: messages published
    MaxCrashes,             \* bound: processes that die or are shut down
    MaxMoves,               \* bound: rebalances away from a live member
    MaxLapses,              \* bound: marks lost or sent late, and evictions
    MaxErrors               \* bound: database errors

ASSUME ReportConsumerAssumption ==
    /\ IsFiniteSet(Replicas) /\ NoReplica \notin Replicas
    /\ {MaxMessages, MaxCrashes, MaxMoves, MaxLapses, MaxErrors} \subseteq Nat

\* What a message may be: an outbox event as the relays publish it (ReportEvent
\* finds no Type in it); an event in report-svc's own format, by the projectors
\* it is for: a transaction created or deleted (month, then category), one
\* updated or an investment or a debt (a summary that is read and rewritten), a
\* budget or a card (a row written outright); and bytes that are no event.
Shapes == {"outbox", "transaction", "summary", "row", "garbled"}

\* The group has not committed an offset yet; no mark.
Fresh == -1

VARIABLES
    log,        \* the partition
    committed,  \* the offset the broker keeps for the group, or Fresh
    owner,      \* the member the partition is assigned to
    holds,      \* members whose reader takes the partition for its own
    proc,       \* what each replica is doing
    at,         \* the offset each replica handles, or 0
    position,   \* the last offset its reader has delivered
    marked,     \* the offset the owner has marked and not sent, or Fresh
    late,       \* the mark each replica had not sent when it was evicted, or Fresh
    seeded,     \* the user's rows of the summaries are there
    runs,       \* history: how often the handler was called with each offset
    ended,      \* history: offsets whose handler returned, or died with its
                \* process, and those a fresh group started behind
    crashes, shutdowns, moves, lapses, errors

history == <<runs, ended>>
bounds == <<crashes, shutdowns, moves, lapses, errors>>
group == <<committed, owner, holds, position, marked, late>>
vars == <<log, group, proc, at, seeded, history, bounds>>

Offsets == 1..MaxMessages

\* Nothing in the repository inserts a user's first summary row: it is there only
\* when somebody put it there.
Init ==
    /\ log = <<>>
    /\ committed = Fresh
    /\ owner = NoReplica /\ holds = {}
    /\ proc = [c \in Replicas |-> "down"]
    /\ at = [c \in Replicas |-> 0]
    /\ position = [c \in Replicas |-> 0]
    /\ marked = Fresh
    /\ late = [c \in Replicas |-> Fresh]
    /\ seeded \in BOOLEAN
    /\ runs = [o \in Offsets |-> 0]
    /\ ended = {}
    /\ crashes = 0 /\ shutdowns = 0 /\ moves = 0 /\ lapses = 0 /\ errors = 0

Handling(c) == proc[c] \in {"handle", "rewrite", "upsert"}

------------------------------------------------------------------------------
(***************************************************************************)
(* The broker and the group.                                               *)
(***************************************************************************)

\* A producer of the platform appends a message.
Publish(s) ==
    /\ Len(log) < MaxMessages
    /\ log' = Append(log, s)
    /\ UNCHANGED <<group, proc, at, seeded, history, bounds>>

\* The pod starts and its reader joins the group.
Start(c) ==
    /\ proc[c] = "down"
    /\ proc' = [proc EXCEPT ![c] = "idle"]
    /\ UNCHANGED <<log, group, at, seeded, history, bounds>>

\* What the broker keeps once the owner has sent its mark.
Flushed == IF marked # Fresh THEN marked ELSE committed

\* Where a reader goes on after offset o is committed.
Resume(o) == IF o = Fresh THEN Len(log) ELSE o

\* Mutant: every assignment starts at the end of the partition.
TakesAtEnd(c) ==
    /\ owner' = c /\ marked' = Fresh
    /\ position' = [position EXCEPT ![c] = Len(log)]
    /\ ended' = IF committed' = Fresh THEN ended \union (1..Len(log)) ELSE ended
    /\ UNCHANGED <<log, proc, at, seeded, runs, crashes, shutdowns, errors>>

\* Member c gets the partition.  It reads on after the committed offset;
\* StartOffset of a fresh group is the end.
Takes(c) ==
    /\ owner' = c /\ marked' = Fresh
    /\ position' = [position EXCEPT ![c] = Resume(committed')]
    /\ ended' = IF committed' = Fresh THEN ended \union (1..Len(log)) ELSE ended
    /\ UNCHANGED <<log, proc, at, seeded, runs, crashes, shutdowns, errors>>

\* The group assigns the partition.  A live member that takes part in the
\* rebalance sends its mark before it gives the partition up, and finishes the
\* message it is handling.
Assign(c) ==
    /\ proc[c] # "down"
    /\ owner # c
    /\ IF owner = NoReplica THEN UNCHANGED moves ELSE moves < MaxMoves /\ moves' = moves + 1
    /\ committed' = Flushed
    /\ holds' = (holds \ {owner}) \union {c}
    /\ Takes(c)
    /\ UNCHANGED <<late, lapses>>

\* The owner missed its heartbeats: the broker gives the partition away, and the
\* old owner, its mark unsent, reads on until it learns of it.
Evict(c) ==
    /\ proc[c] # "down"
    /\ owner \notin {c, NoReplica}
    /\ moves < MaxMoves /\ moves' = moves + 1
    /\ lapses < MaxLapses /\ lapses' = lapses + 1
    /\ UNCHANGED committed
    /\ late' = [late EXCEPT ![owner] = IF marked # Fresh THEN marked ELSE @]
    /\ holds' = holds \union {c}
    /\ Takes(c)

\* An evicted member's heartbeat is refused: its reader drops the partition.
Learn(c) ==
    /\ c \in holds /\ owner # c
    /\ holds' = holds \ {c}
    /\ UNCHANGED <<log, committed, owner, position, marked, late, proc, at, seeded, history, bounds>>

\* Mutant: what is sent is the end of the fetched batch.
FlushBatch ==
    /\ marked # Fresh
    /\ committed' = Len(log)
    /\ marked' = Fresh
    /\ UNCHANGED <<log, owner, holds, position, late, proc, at, seeded, history, bounds>>

\* CommitInterval: the mark is sent, also by a member whose goroutine has ended.
Flush ==
    /\ marked # Fresh
    /\ committed' = marked
    /\ marked' = Fresh
    /\ UNCHANGED <<log, owner, holds, position, late, proc, at, seeded, history, bounds>>

\* The commit fails, or is fenced: the library logs it and drops the mark.
LoseMark ==
    /\ marked # Fresh
    /\ marked' = Fresh
    /\ lapses < MaxLapses /\ lapses' = lapses + 1
    /\ UNCHANGED <<log, committed, owner, holds, position, late, proc, at, seeded, history,
                   crashes, shutdowns, moves, errors>>

\* A mark left over from before an eviction is sent when the member is in the
\* group again, whoever owns the partition now: it may put the offset back.
FlushLate(c) ==
    /\ late[c] # Fresh
    /\ committed' = late[c]
    /\ late' = [late EXCEPT ![c] = Fresh]
    /\ IF late[c] < Resume(committed) THEN lapses < MaxLapses /\ lapses' = lapses + 1
                                      ELSE UNCHANGED lapses
    /\ UNCHANGED <<log, owner, holds, position, marked, proc, at, seeded, history,
                   crashes, shutdowns, moves, errors>>

\* The process is gone, and with it the message it was handling.
Gone(c) ==
    /\ proc[c] # "down"
    /\ proc' = [proc EXCEPT ![c] = "down"]
    /\ owner' = IF owner = c THEN NoReplica ELSE owner
    /\ holds' = holds \ {c}
    /\ ended' = IF Handling(c) THEN ended \union {at[c]} ELSE ended
    /\ at' = [at EXCEPT ![c] = 0]
    /\ position' = [position EXCEPT ![c] = 0]
    /\ marked' = IF owner = c THEN Fresh ELSE marked
    /\ late' = [late EXCEPT ![c] = Fresh]
    /\ UNCHANGED <<log, seeded, runs, moves, lapses, errors>>

Crash(c) ==
    /\ crashes + shutdowns < MaxCrashes
    /\ crashes' = crashes + 1
    /\ Gone(c)
    /\ UNCHANGED <<committed, shutdowns>>

\* SIGTERM: cancel() does not wait for a handler, which runs on a context of its
\* own; the reader is closed on return from run and sends its mark.
Shutdown(c) ==
    /\ crashes + shutdowns < MaxCrashes
    /\ shutdowns' = shutdowns + 1
    /\ Gone(c)
    /\ committed' = IF owner = c THEN Flushed ELSE committed
    /\ UNCHANGED crashes

------------------------------------------------------------------------------
(***************************************************************************)
(* Consume: read, mark, handle.                                            *)
(***************************************************************************)

\* Mutant: the mark lags: it is the offset read before.
ReadMessageBehind(c) ==
    /\ c \in holds
    /\ proc[c] = "idle"
    /\ position[c] < Len(log)
    /\ LET o == position[c] + 1 IN
       /\ position' = [position EXCEPT ![c] = o]
       /\ at' = [at EXCEPT ![c] = o]
       /\ marked' = IF owner = c THEN o - 1 ELSE marked
       /\ late' = IF owner = c THEN late ELSE [late EXCEPT ![c] = o]
       /\ runs' = [runs EXCEPT ![o] = @ + 1]
    /\ proc' = [proc EXCEPT ![c] = "handle"]
    /\ UNCHANGED <<log, committed, owner, holds, seeded, ended, bounds>>

\* The next message is marked and handed to the handler, also by a reader that
\* does not know yet that the partition is no longer its own.
ReadMessage(c) ==
    /\ c \in holds
    /\ proc[c] = "idle"
    /\ position[c] < Len(log)
    /\ LET o == position[c] + 1 IN
       /\ position' = [position EXCEPT ![c] = o]
       /\ at' = [at EXCEPT ![c] = o]
       /\ marked' = IF owner = c THEN o ELSE marked
       /\ late' = IF owner = c THEN late ELSE [late EXCEPT ![c] = o]
       /\ runs' = [runs EXCEPT ![o] = @ + 1]
    /\ proc' = [proc EXCEPT ![c] = "handle"]
    /\ UNCHANGED <<log, committed, owner, holds, seeded, ended, bounds>>

\* The handler of c returned, and Consume is at s.
Returns(c, s) ==
    /\ proc' = [proc EXCEPT ![c] = s]
    /\ at' = [at EXCEPT ![c] = 0]
    /\ ended' = ended \union {at[c]}

\* It returned nil: Consume reads on.
Settles(c) == Returns(c, "idle")

\* It returned an error: Consume returns it, the goroutine logs it and ends.
\* Nothing starts it again.
Stops(c) == Returns(c, "stopped")

Goes(c, s) ==
    /\ proc' = [proc EXCEPT ![c] = s]
    /\ UNCHANGED <<at, ended>>

\* The switch on the type; an outbox event has none, and is skipped with a warning.
HandleMessage(c) ==
    /\ proc[c] = "handle"
    /\ LET s == log[at[c]] IN
       \/ s = "garbled" /\ Stops(c)
       \/ s = "outbox" /\ Settles(c)
       \/ s \in {"transaction", "summary"} /\ Goes(c, "rewrite")
       \/ s = "row" /\ Goes(c, "upsert")
    /\ UNCHANGED <<log, group, seeded, runs, bounds>>

\* The monthly, the portfolio and the debt projectors read a row and write it
\* back.  A missing row is an error: the repository's ErrNoRows is not the
\* domain's ErrNoData.  The month is written before the category.
Rewrite(c) ==
    /\ proc[c] = "rewrite"
    /\ IF ~seeded THEN Stops(c)
       ELSE IF log[at[c]] = "transaction" THEN Goes(c, "upsert")
       ELSE Settles(c)
    /\ UNCHANGED <<log, group, seeded, runs, bounds>>

\* The category, the budget and the credit card projectors write a row, whatever
\* was there.
Upsert(c) ==
    /\ proc[c] = "upsert"
    /\ Settles(c)
    /\ UNCHANGED <<log, group, seeded, runs, bounds>>

\* A projector's query fails.
DatabaseFails(c) ==
    /\ proc[c] \in {"rewrite", "upsert"}
    /\ errors < MaxErrors
    /\ errors' = errors + 1
    /\ Stops(c)
    /\ UNCHANGED <<log, group, seeded, runs, crashes, shutdowns, moves, lapses>>

------------------------------------------------------------------------------

Consume(c) == ReadMessage(c) \/ HandleMessage(c) \/ Rewrite(c) \/ Upsert(c)

Next ==
    \/ \E s \in Shapes : Publish(s)
    \/ Flush \/ LoseMark
    \/ \E c \in Replicas :
          \/ Start(c) \/ Crash(c) \/ Shutdown(c)
          \/ Assign(c) \/ Evict(c) \/ Learn(c)
          \/ FlushLate(c)
          \/ Consume(c)
          \/ DatabaseFails(c)

\* Kubernetes starts a pod again, the group assigns a partition nobody has, and
\* a goroutine that can run runs.
Fairness ==
    \A c \in Replicas :
        /\ WF_vars(Start(c))
        /\ WF_vars(owner = NoReplica /\ Assign(c))
        /\ WF_vars(Consume(c))

Spec == Init /\ [][Next]_vars /\ Fairness

------------------------------------------------------------------------------
(***************************************************************************)
(* Properties.                                                             *)
(***************************************************************************)

\* A message the group will not see again was handled to the end, was refused,
\* died with the process that handled it, was jumped over before the group's
\* first commit, or is in a handler now: marking before handling, marks sent
\* late or by a member that no longer owns the partition, rebalances and restarts
\* lose nothing else.
LossAccounted ==
    \A o \in 1..committed : o \in ended \/ \E c \in Replicas : Handling(c) /\ at[c] = o

\* A message is handed to a handler again at most once for every crash and every
\* lapse of the marks: an eviction, a mark the broker did not get, a late mark
\* that put the offset back.  Orderly shutdowns and rebalances repeat nothing,
\* because the mark is sent first (the consumer has no record of event IDs that
\* would catch a repetition).
RedeliveryBounded == \A o \in Offsets : runs[o] <= 1 + crashes + lapses

\* Unless the partition stays with a replica whose goroutine has ended, every
\* message is accounted for in the end, also those published while no replica
\* was up.
EveryMessageSettles ==
    (<>[](owner # NoReplica => proc[owner] # "stopped"))
        => \A o \in Offsets : (o <= Len(log)) ~> (o \in ended)
==============================================================================
