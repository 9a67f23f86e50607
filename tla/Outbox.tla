------------------------------- MODULE Outbox -------------------------------
(***************************************************************************)
(* The transactional outbox of one region: insertOutboxEvent in a domain   *)
(* transaction, and drainOutboxForRegion, which a timer starts whether or  *)
(* not an earlier drain has ended, in every server process.                *)
(*                                                                         *)
(* A drain is a process.  Its database transaction holds the rows it       *)
(* claimed to its own end (FOR UPDATE SKIP LOCKED: another drain passes    *)
(* over them), writes dispatched_at and attempts, and is undone by an error*)
(* or a crash; what it has published by then stays published.              *)
(***************************************************************************)
EXTENDS Integers, Sequences, FiniteSets

CONSTANTS
    Events,     \* rows of events_outbox there may ever be
    Drains,     \* drains that may be in flight at once
    BatchSize,  \* env.outbox.batchSize
    MaxFaults   \* bound: failed publishes and failed drains

ASSUME BoundsAssumption == /\ BatchSize \in Nat \ {0}
                           /\ MaxFaults \in Nat

VARIABLES
    now,          \* the database's clock, told by the transactions that began
    createdAt,    \* events_outbox.created_at: 0, or when its transaction began
    committed,    \* events whose transaction has committed, i.e. the rows
    dispatched,   \* events whose dispatched_at is set
    attempts,     \* events_outbox.attempts
    stream,       \* what the order.events exchange has received
    todo,         \* the rest of a drain's batch
    sent,         \* a drain's dispatchedIds
    failed,       \* the events of a drain's batch whose publish failed
    priors,       \* history: what was committed when an event's transaction began
    faults        \* faults so far

rows == <<now, createdAt, committed, dispatched, attempts, priors>>
locals == <<todo, sent, failed>>
vars == <<rows, stream, locals, faults>>

-----------------------------------------------------------------------------

\* Rows a drain's transaction holds.
Held(d) == todo[d] \cup sent[d] \cup failed[d]
Idle(d) == Held(d) = {}

Published == {stream[i] : i \in DOMAIN stream}
Copies(e) == {i \in DOMAIN stream : stream[i] = e}

Undispatched == committed \ dispatched
Unlocked == Undispatched \ UNION {Held(d) : d \in Drains}

Older(e, f) == createdAt[e] < createdAt[f]

\* Mutants: rows of other drains are claimed too; the newest rows come first.
IsClaimLocked(batch) ==
    /\ batch \subseteq Undispatched
    /\ Cardinality(batch) <= BatchSize
    /\ batch # {}

IsClaimNewest(batch) ==
    /\ batch \subseteq Unlocked
    /\ Cardinality(batch) <= BatchSize
    /\ \A e \in batch, f \in Unlocked \ batch : Older(f, e)
    /\ Unlocked # {} => batch # {}

\* claimUndispatchedBatch: the oldest undispatched rows nobody holds, up to
\* the batch size.
IsClaim(batch) ==
    /\ batch \subseteq Unlocked
    /\ batch # {}
    /\ \/ batch = Unlocked /\ Cardinality(batch) <= BatchSize
       \/ Cardinality(batch) = BatchSize
    /\ \A e \in batch, f \in Unlocked \ batch : Older(e, f)

-----------------------------------------------------------------------------
(* Domain transactions. *)

\* insertOutboxEvent: created_at defaults to NOW(), the moment the transaction
\* began.  One that never commits stands for one that is rolled back.
InsertOutboxEvent(e) ==
    /\ createdAt[e] = 0
    /\ now' = now + 1
    /\ createdAt' = [createdAt EXCEPT ![e] = now + 1]
    /\ priors' = [priors EXCEPT ![e] = committed]
    /\ UNCHANGED <<committed, dispatched, attempts, stream, locals, faults>>

\* The domain mutation and the row become visible together.
CommitDomain(e) ==
    /\ createdAt[e] # 0
    /\ e \notin committed
    /\ committed' = committed \cup {e}
    /\ UNCHANGED <<now, createdAt, dispatched, attempts, priors, stream,
                   locals, faults>>

-----------------------------------------------------------------------------
(* drainOutboxForRegion. *)

Claim(d) ==
    /\ Idle(d)
    /\ \E batch \in SUBSET Events : /\ IsClaim(batch)
                                    /\ todo' = [todo EXCEPT ![d] = batch]
    /\ UNCHANGED <<rows, stream, sent, failed, faults>>

\* The event whose turn it is: the batch is in created_at order.
Turn(d, e) == e \in todo[d] /\ \A f \in todo[d] \ {e} : Older(e, f)

\* The broker confirms.
PublishEvent(d, e) ==
    /\ Turn(d, e)
    /\ stream' = Append(stream, e)
    /\ todo' = [todo EXCEPT ![d] = @ \ {e}]
    /\ sent' = [sent EXCEPT ![d] = @ \cup {e}]
    /\ UNCHANGED <<rows, failed, faults>>

\* Mutant: an event is dispatched although its publish was rejected.
PublishFailsSent(d, e) ==
    /\ Turn(d, e)
    /\ faults < MaxFaults
    /\ faults' = faults + 1
    /\ todo' = [todo EXCEPT ![d] = @ \ {e}]
    /\ sent' = [sent EXCEPT ![d] = @ \cup {e}]
    /\ stream' = stream
    /\ UNCHANGED <<rows, failed>>

\* publish() rejects: the exchange may have the event all the same, when only
\* the confirmation was lost.  markOutboxEventFailed, and on to the next one.
PublishFails(d, e) ==
    /\ Turn(d, e)
    /\ faults < MaxFaults
    /\ faults' = faults + 1
    /\ todo' = [todo EXCEPT ![d] = @ \ {e}]
    /\ failed' = [failed EXCEPT ![d] = @ \cup {e}]
    /\ stream' \in {stream, Append(stream, e)}
    /\ UNCHANGED <<rows, sent>>

Release(d) ==
    /\ todo' = [todo EXCEPT ![d] = {}]
    /\ sent' = [sent EXCEPT ![d] = {}]
    /\ failed' = [failed EXCEPT ![d] = {}]

\* Mutant: the whole batch is marked dispatched.
FinishWhole(d) ==
    /\ ~ Idle(d)
    /\ todo[d] = {}
    /\ dispatched' = dispatched \cup sent[d] \cup failed[d]
    /\ attempts' = [e \in Events |->
                        IF e \in failed[d] THEN attempts[e] + 1 ELSE attempts[e]]
    /\ Release(d)
    /\ UNCHANGED <<now, createdAt, committed, priors, stream, faults>>

\* markOutboxEventsDispatched and commit.
Finish(d) ==
    /\ ~ Idle(d)
    /\ todo[d] = {}
    /\ dispatched' = dispatched \cup sent[d]
    /\ attempts' = [e \in Events |->
                        IF e \in failed[d] THEN attempts[e] + 1 ELSE attempts[e]]
    /\ Release(d)
    /\ UNCHANGED <<now, createdAt, committed, priors, stream, faults>>

\* The database fails a statement, or the server dies: the rows are released
\* as they were, attempts included.
Abort(d) ==
    /\ ~ Idle(d)
    /\ faults < MaxFaults
    /\ faults' = faults + 1
    /\ Release(d)
    /\ UNCHANGED <<rows, stream>>

-----------------------------------------------------------------------------
(* The specification. *)

Init ==
    /\ now = 0
    /\ createdAt = [e \in Events |-> 0]
    /\ committed = {}
    /\ dispatched = {}
    /\ attempts = [e \in Events |-> 0]
    /\ priors = [e \in Events |-> {}]
    /\ stream = <<>>
    /\ todo = [d \in Drains |-> {}]
    /\ sent = [d \in Drains |-> {}]
    /\ failed = [d \in Drains |-> {}]
    /\ faults = 0

\* A drain the timer has started goes on, unless it dies.
Run(d) ==
    \/ \E e \in Events : PublishEvent(d, e) \/ PublishFails(d, e)
    \/ Finish(d)

Next ==
    \/ \E e \in Events : InsertOutboxEvent(e) \/ CommitDomain(e)
    \/ \E d \in Drains : Claim(d) \/ Run(d) \/ Abort(d)

Spec == Init /\ [][Next]_vars

\* setInterval keeps starting drains, and one that does not die goes on: as long
\* as any has something to do, some step of one is taken.  That an opened
\* transaction commits is not assumed.
FairSpec == Spec /\ WF_vars(\E d \in Drains : Claim(d) \/ Run(d))

-----------------------------------------------------------------------------
(* Properties. *)

\* Every variable has its type.
TypeOK ==
    /\ now \in Nat
    /\ createdAt \in [Events -> 0..now]
    /\ committed \subseteq Events
    /\ dispatched \subseteq Events
    /\ attempts \in [Events -> Nat]
    /\ priors \in [Events -> SUBSET Events]
    /\ stream \in Seq(Events)
    /\ todo \in [Drains -> SUBSET Events]
    /\ sent \in [Drains -> SUBSET Events]
    /\ failed \in [Drains -> SUBSET Events]
    /\ faults \in 0..MaxFaults

\* However drains overlap, fail and die, an event is never marked dispatched
\* that the exchange has not received, and nothing of a transaction that has
\* not committed is received.
NothingLost == dispatched \subseteq Published
NoPhantoms == Published \subseteq committed

\* No row is in the hands of two drains, and what a drain holds is still to be
\* dispatched.
ClaimsExclusive ==
    \A d \in Drains :
        /\ Held(d) \subseteq Undispatched
        /\ \A c \in Drains \ {d} : Held(c) \cap Held(d) = {}

\* A drain's row is in one of its three lists, and sent is what it says.
ListsApart ==
    \A d \in Drains :
        /\ todo[d] \cap sent[d] = {}
        /\ failed[d] \cap (todo[d] \cup sent[d]) = {}
        /\ sent[d] \subseteq Published

\* Whether the copy that settles an event has been published.
Settled(e) == e \in dispatched \/ \E d \in Drains : e \in sent[d]

\* A subscriber sees an event again only after a fault: each further copy is
\* paid for by a rejected publish or a drain that died.
DuplicatesPaidFor ==
    \A e \in Events :
        Cardinality(Copies(e)) <= faults + (IF Settled(e) THEN 1 ELSE 0)

\* A committed transaction has begun.
CommittedBegan == \A e \in committed : createdAt[e] # 0

\* What an event's transaction could see is committed and older than it.
PriorsOlder ==
    \A f \in Events : \A e \in priors[f] : e \in committed /\ Older(e, f)

\* Without a fault so far, whatever comes before a claimed event is published,
\* in the same batch, or in the hands of another drain.
PriorsClaimed ==
    faults = 0 =>
        \A d \in Drains :
            /\ failed[d] = {}
            /\ \A f \in todo[d] : \A e \in priors[f] \ Published :
                  e \in todo[d] \/ \E c \in Drains \ {d} : e \in Held(c)

\* The inductive invariant.
IInv ==
    /\ TypeOK
    /\ NothingLost
    /\ NoPhantoms
    /\ ClaimsExclusive
    /\ ListsApart
    /\ DuplicatesPaidFor
    /\ CommittedBegan
    /\ PriorsOlder
    /\ PriorsClaimed

\* As long as nothing fails, an event overtakes none that was committed before
\* its own transaction began (an order's next status never passes the last),
\* except while another drain has the earlier one in its batch.
NoOvertaking ==
    [][\A d \in Drains, f \in Events :
          faults' = 0 /\ f \in todo[d] \ todo'[d] =>
              \A e \in priors[f] \ Published :
                  \E c \in Drains \ {d} : e \in Held(c)]_vars

\* The events as the subscribers of order.events see them.
Stream == INSTANCE EventStream WITH accepted <- committed,
                                    delivered <- Published,
                                    retired <- dispatched

\* The outbox delivers every committed event at least once.
DeliversAtLeastOnce == Stream!Spec
=============================================================================
