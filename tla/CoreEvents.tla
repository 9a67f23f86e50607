------------------------------ MODULE CoreEvents ------------------------------
(***************************************************************************)
(* What this service keeps in Redis of core-service's data and of its own  *)
(* lists, and the consumer of core's events that invalidates it.  Readers  *)
(* fill the cache when they miss; the consumer handles the messages of its *)
(* queue concurrently, in any order, more than once, and may die in a      *)
(* handler.                                                                *)
(*                                                                         *)
(* Time is abstracted: an entry with a TTL may expire at any moment, and   *)
(* does in the end.  A version of a view is the change that made it.       *)
(***************************************************************************)
EXTENDS Integers, Sequences, FiniteSetsExt

CONSTANTS
    None,
    Readers,     \* requests that read through the cache, one after another
    Views,       \* what is cached: some of "product", "branch", "perms", "list"
    MaxChanges,  \* bound: changes of what is cached
    MaxFaults    \* bound: duplicates, lost calls of Redis, crashes

ASSUME BoundsAssumption == MaxChanges \in Nat /\ MaxFaults \in Nat

VARIABLES
    log,         \* the changes so far: <<[view, kind], ...>>
    cache,       \* [Views -> version or None]
    stale,       \* the hour-long copy of the permissions
    reader,      \* [at, view, got]
    copies,      \* per change: what became of the two messages of its event
    seen,        \* dedupe keys
    flag,        \* branch:reject-orders
    handled,     \* history: changes whose handler has deleted its key
    interrupted, \* history: changes whose handler died
    raced,       \* history: views filled with an old version after their event
    faults

consumer == <<copies, seen, flag, interrupted>>
vars == <<log, cache, stale, reader, consumer, handled, raced, faults>>

Changes == 1..MaxChanges
Copies == 1..2
Versions == 0..MaxChanges

\* The changes of a view that core announces; the others have no event.
Kinds(v) ==
    CASE v = "product" -> {"changed"}
      [] v = "branch" -> {"updated", "activated", "deactivated", "suspended"}
      [] OTHER -> {"silent"}

AllKinds == {"changed", "updated", "activated", "deactivated", "suspended", "silent"}

\* The version of a view at its owner.
Latest(v) == Max({0} \cup {i \in DOMAIN log : log[i].view = v})

Fault == faults < MaxFaults /\ faults' = faults + 1
Mark(i, c, status) == copies' = [copies EXCEPT ![i][c] = status]

-----------------------------------------------------------------------------
(* The owner of the data, and the broker. *)

\* Core (or an order's writer) changes what a view shows, and queues the event.
Change(v, kind) ==
    /\ Len(log) < MaxChanges
    /\ log' = Append(log, [view |-> v, kind |-> kind])
    /\ copies' = [copies EXCEPT ![Len(log) + 1][1] =
                     IF kind = "silent" THEN "none" ELSE "queued"]
    /\ UNCHANGED <<cache, stale, reader, seen, flag, handled, interrupted, raced,
                   faults>>

\* The event is published twice: delivery is at least once.
Duplicate(i) ==
    /\ copies[i][1] # "none" /\ copies[i][2] = "none"
    /\ Fault
    /\ Mark(i, 2, "queued")
    /\ UNCHANGED <<log, cache, stale, reader, seen, flag, handled, interrupted,
                   raced>>

-----------------------------------------------------------------------------
(* The consumer. *)

\* Mutant: events of a view are taken for the same one.
IsFreshByView(i) == \A j \in seen : log[j].view # log[i].view

\* The dedupe key of the event is not there yet.
IsFresh(i) == i \notin seen

\* trySet: the first delivery goes to its handler ...
TrySet(i, c) ==
    /\ copies[i][c] = "queued"
    /\ IsFresh(i)
    /\ seen' = seen \cup {i}
    /\ Mark(i, c, "handling")
    /\ UNCHANGED <<log, cache, stale, reader, flag, handled, interrupted, raced,
                   faults>>

\* ... and the others are acknowledged unhandled.
Skip(i, c) ==
    /\ copies[i][c] = "queued"
    /\ ~ IsFresh(i)
    /\ Mark(i, c, "acked")
    /\ UNCHANGED <<log, cache, stale, reader, seen, flag, handled, interrupted,
                   raced, faults>>

\* The handler deletes the view's key (restaurant.suspended deletes one that
\* nobody writes); the branch handlers may have the flag to see to, too.
Handle(i, c) ==
    LET v == log[i].view
    IN  /\ copies[i][c] = "handling"
        /\ IF log[i].kind = "suspended"
           THEN UNCHANGED <<cache, raced>>
           ELSE cache' = [cache EXCEPT ![v] = None] /\ raced' = raced \ {v}
        /\ handled' = handled \cup {i}
        /\ Mark(i, c, IF log[i].kind \in {"activated", "deactivated"}
                      THEN "flagging" ELSE "acked")
        /\ UNCHANGED <<log, stale, reader, seen, flag, interrupted, faults>>

\* The flag is set for a day, or deleted.  Nobody reads it.
SetFlag(i, c) ==
    /\ copies[i][c] = "flagging"
    /\ flag' = (log[i].kind = "deactivated")
    /\ Mark(i, c, "acked")
    /\ UNCHANGED <<log, cache, stale, reader, seen, handled, interrupted, raced,
                   faults>>

\* Redis fails in trySet (which may have set the key) or in the handler: nack
\* without requeue, to the dead-letter queue.
HandlerFails(i, c) ==
    /\ copies[i][c] \in {"queued", "handling", "flagging"}
    /\ Fault
    /\ \/ copies[i][c] = "queued" /\ IsFresh(i) /\ seen' = seen \cup {i}
       \/ seen' = seen
    /\ Mark(i, c, "dead")
    /\ UNCHANGED <<log, cache, stale, reader, flag, handled, interrupted, raced>>

\* The server dies in the handler: the broker delivers the message again.
Redeliver(i, c) ==
    /\ copies[i][c] \in {"handling", "flagging"}
    /\ Fault
    /\ Mark(i, c, "queued")
    /\ interrupted' = interrupted \cup {i}
    /\ UNCHANGED <<log, cache, stale, reader, seen, flag, handled, raced>>

-----------------------------------------------------------------------------
(* Readers: getBranch, getBranchProducts, getPermissions, withCache.  A hit *)
(* changes nothing.                                                         *)

Idle == [at |-> "idle", view |-> None, got |-> None]
Done(r) == reader' = [reader EXCEPT ![r] = Idle]

\* A miss: the view's owner is asked.
Get(r, v) ==
    /\ reader[r].at = "idle"
    /\ cache[v] = None
    /\ reader' = [reader EXCEPT ![r] = [at |-> "fetch", view |-> v, got |-> None]]
    /\ UNCHANGED <<log, cache, stale, consumer, handled, raced, faults>>

\* Redis fails: getPermissions takes it for a miss, the others fail.
GetFails(r) ==
    /\ reader[r].at = "idle"
    /\ "perms" \in Views
    /\ Fault
    /\ reader' = [reader EXCEPT ![r] = [at |-> "fetch", view |-> "perms",
                                        got |-> None]]
    /\ UNCHANGED <<log, cache, stale, consumer, handled, raced>>

\* What the reader is answered with, and is about to store.
CoreAnswers(r) ==
    /\ reader[r].at = "fetch"
    /\ reader' = [reader EXCEPT ![r] = [at |-> "set", view |-> @.view,
                                        got |-> Latest(@.view)]]
    /\ UNCHANGED <<log, cache, stale, consumer, handled, raced, faults>>

\* The reader fails with core ...
CoreFails(r) ==
    /\ reader[r].at = "fetch"
    /\ reader[r].view = "perms" => stale = None
    /\ Done(r)
    /\ UNCHANGED <<log, cache, stale, consumer, handled, raced, faults>>

\* Mutant: and it is made the fresh copy again.
ServeStaleRefreshed(r) ==
    /\ reader[r].at = "fetch" /\ reader[r].view = "perms"
    /\ stale # None
    /\ reader' = [reader EXCEPT ![r].at = "set", ![r].got = stale]
    /\ UNCHANGED <<log, cache, stale, consumer, handled, raced, faults>>

\* ... but the stale copy of the permissions is served, if there is one.
ServeStale(r) ==
    /\ reader[r].at = "fetch" /\ reader[r].view = "perms"
    /\ stale # None
    /\ Done(r)
    /\ UNCHANGED <<log, cache, stale, consumer, handled, raced, faults>>

\* The permissions are stored twice.
AfterSet(r) ==
    IF reader[r].at = "set" /\ reader[r].view = "perms"
    THEN reader' = [reader EXCEPT ![r].at = "setStale"]
    ELSE Done(r)

\* The entry is written, whatever has happened since core was asked.
Set(r) ==
    LET v == reader[r].view
    IN  /\ reader[r].at = "set"
        /\ cache' = [cache EXCEPT ![v] = reader[r].got]
        /\ raced' = IF reader[r].got # Latest(v) /\ Latest(v) \in handled
                    THEN raced \cup {v} ELSE raced \ {v}
        /\ AfterSet(r)
        /\ UNCHANGED <<log, stale, consumer, handled, faults>>

SetStale(r) ==
    /\ reader[r].at = "setStale"
    /\ stale' = reader[r].got
    /\ Done(r)
    /\ UNCHANGED <<log, cache, consumer, handled, raced, faults>>

\* .catch(() => {}).
SetLost(r) ==
    /\ reader[r].at \in {"set", "setStale"}
    /\ Fault
    /\ AfterSet(r)
    /\ UNCHANGED <<log, cache, stale, consumer, handled, raced>>

\* EX ttl.
Expire(v) ==
    /\ cache[v] # None
    /\ cache' = [cache EXCEPT ![v] = None]
    /\ raced' = raced \ {v}
    /\ UNCHANGED <<log, stale, reader, consumer, handled, faults>>

ExpireStale ==
    /\ stale # None
    /\ stale' = None
    /\ UNCHANGED <<log, cache, reader, consumer, handled, raced, faults>>

-----------------------------------------------------------------------------
(* The specification. *)

Init ==
    /\ log = <<>>
    /\ cache = [v \in Views |-> None] /\ stale = None
    /\ reader = [r \in Readers |-> Idle]
    /\ copies = [i \in Changes |-> [c \in Copies |-> "none"]]
    /\ seen = {} /\ flag = FALSE
    /\ handled = {} /\ interrupted = {} /\ raced = {}
    /\ faults = 0

\* A read that has begun goes on.
Read(r) ==
    \/ CoreAnswers(r) \/ CoreFails(r) \/ ServeStale(r)
    \/ Set(r) \/ SetStale(r) \/ SetLost(r)

Next ==
    \/ \E v \in Views : \E kind \in Kinds(v) : Change(v, kind)
    \/ \E i \in Changes :
          \/ Duplicate(i)
          \/ \E c \in Copies :
                \/ TrySet(i, c) \/ Skip(i, c) \/ Handle(i, c) \/ SetFlag(i, c)
                \/ HandlerFails(i, c) \/ Redeliver(i, c)
    \/ \E r \in Readers :
          \/ \E v \in Views : Get(r, v)
          \/ GetFails(r)
          \/ Read(r)
    \/ \E v \in Views : Expire(v)
    \/ ExpireStale

\* Redis expires what has a TTL, and a reader does not stop half-way.  The
\* consumer need not run at all.
Fairness ==
    /\ \A v \in Views : WF_vars(Expire(v))
    /\ WF_vars(ExpireStale)
    /\ \A r \in Readers : WF_vars(Read(r))

Spec == Init /\ [][Next]_vars /\ Fairness

-----------------------------------------------------------------------------
(* Properties. *)

LogEntries == {[view |-> v, kind |-> k] : v \in Views, k \in AllKinds}
Readings == [at : {"idle", "fetch", "set", "setStale"}, view : Views \cup {None},
             got : Versions \cup {None}]

\* Every variable has its type.
TypeOK ==
    /\ log \in Seq(LogEntries) /\ Len(log) <= MaxChanges
    /\ reader \in [Readers -> Readings]
    /\ cache \in [Views -> Versions \cup {None}]
    /\ stale \in Versions \cup {None}
    /\ copies \in [Changes -> [Copies -> {"none", "queued", "handling", "flagging",
                                          "acked", "dead"}]]
    /\ seen \cup handled \cup interrupted \subseteq Changes
    /\ flag \in BOOLEAN /\ raced \subseteq Views /\ faults \in 0..MaxFaults

\* Once the event of a view's last change is handled, nothing older is cached,
\* but for a fill that had read core before the change and came after the event
\* (and restaurant.suspended, which invalidates nothing).
OldEntriesGo ==
    \A v \in Views :
        cache[v] \notin {None, Latest(v)} =>
            \/ Latest(v) \notin handled
            \/ log[Latest(v)].kind = "suspended"
            \/ v \in raced

\* An event all of whose messages are acknowledged was handled, unless its
\* handler died: the dedupe key was set before, and the message delivered again
\* is skipped.
NoEventSkipped ==
    \A i \in DOMAIN log :
        /\ log[i].kind # "silent"
        /\ \A c \in Copies : copies[i][c] \in {"none", "acked"}
        => i \in handled \cup interrupted

\* Invalidation does what it can, whatever the order of messages and fills.
InvalidationsWork == TypeOK /\ OldEntriesGo /\ NoEventSkipped

\* Whatever became of the events: after the last change the cache, the stale
\* permissions and the reads under way come to show it and nothing older, as
\* every entry has a TTL and is only written with core's answer.
EventuallyFresh ==
    <>[](/\ \A v \in Views : cache[v] \in {None, Latest(v)}
         /\ "perms" \in Views => stale \in {None, Latest("perms")}
         /\ \A r \in Readers :
               reader[r].at \in {"set", "setStale"} =>
                   reader[r].got = Latest(reader[r].view))
=============================================================================
