-------------------------- MODULE CoreEventsProofs --------------------------
(***************************************************************************)
(* Theorems about CoreEvents for any readers and views, and any bounds on  *)
(* changes and faults: what the invalidation of cached data achieves,      *)
(* however events are delivered and readers fill the cache.                *)
(***************************************************************************)
EXTENDS CoreEvents, SequenceTheorems, WellFoundedInduction, TLAPS

-----------------------------------------------------------------------------
(* What the invalidation rests on. *)

\* Only changes that have happened have messages, and are handled.
OnlyChanges ==
    /\ handled \cup interrupted \subseteq DOMAIN log
    /\ \A i \in Changes, c \in Copies : copies[i][c] # "none" => i \in DOMAIN log

\* What a reader is about to write is an answer of the view's owner.
AnswersHeld ==
    \A r \in Readers :
        /\ reader[r].at # "idle" => reader[r].view \in Views
        /\ reader[r].at \in {"set", "setStale"} => reader[r].got \in Versions

\* An announced change has a message.  A message goes to its handler, or past
\* it, only with the dedupe key set, and to the flag only when the view's key is
\* deleted.
Announced(i) == log[i].kind # "silent" => copies[i][1] # "none"
MessageOK(i, c) ==
    /\ copies[i][c] \in {"handling", "flagging", "acked"} => i \in seen
    /\ copies[i][c] = "flagging" => i \in handled

\* The dedupe key of an event is set by a delivery that was handled, whose
\* handler died, or that is still in its handler or in the dead-letter queue.
SeenOK(i) ==
    i \in seen =>
        \/ i \in handled \cup interrupted
        \/ \E c \in Copies : copies[i][c] \in {"handling", "dead"}

MessagesOK ==
    /\ \A i \in DOMAIN log : Announced(i)
    /\ \A i \in Changes : SeenOK(i) /\ \A c \in Copies : MessageOK(i, c)

\* The inductive invariant.
IInv == TypeOK /\ OnlyChanges /\ AnswersHeld /\ MessagesOK /\ OldEntriesGo

-----------------------------------------------------------------------------
(* Versions. *)

\* Some number of a set is the least.
LEMMA LeastOf ==
    ASSUME NEW S \in SUBSET Nat, S # {}
    PROVE  \E m \in S : \A s \in S : m <= s
<1>1. \E m \in S : \A s \in S : <<s, m>> \notin OpToRel(<, Nat)
  BY NatLessThanWellFounded, WFMin
<1>2. \A s, m \in S : <<s, m>> \notin OpToRel(<, Nat) => m <= s
  BY DEF OpToRel
<1>. QED
  BY <1>1, <1>2

\* The greatest of some numbers below a bound.
LEMMA GreatestOf ==
    ASSUME NEW n \in Nat, NEW S \in SUBSET (0..n), S # {}
    PROVE  Max(S) \in S /\ \A s \in S : s <= Max(S)
<1>. DEFINE Depths == {n - s : s \in S}
<1>1. Depths \in SUBSET Nat /\ Depths # {}
  <2>1. PICK s \in S : TRUE
    OBVIOUS
  <2>2. n - s \in Depths
    OBVIOUS
  <2>3. \A t \in S : n - t \in Nat
    OBVIOUS
  <2>. QED
    BY <2>2, <2>3
<1>2. PICK d \in Depths : \A e \in Depths : d <= e
  BY <1>1, LeastOf
<1>3. PICK m \in S : d = n - m
  BY <1>2
<1>4. \A s \in S : m >= s
  <2>. TAKE s \in S
  <2>1. n - s \in Depths
    OBVIOUS
  <2>2. n - m <= n - s
    BY <1>2, <1>3, <2>1
  <2>. QED
    BY <2>2
<1>5. Max(S) \in S /\ \A s \in S : Max(S) >= s
  BY <1>4 DEF Max
<1>. QED
  BY <1>5

\* The changes of a view.
ChangesOf(v) == {i \in DOMAIN log : log[i].view = v}

\* The log is numbered; a view's version is 0 or the last of its changes.
LEMMA LogFacts ==
    ASSUME TypeOK
    PROVE  /\ Len(log) \in 0..MaxChanges
           /\ DOMAIN log = 1..Len(log)
           /\ DOMAIN log \subseteq Changes
           /\ \A i \in DOMAIN log : log[i].view \in Views
           /\ \A v \in Views : Latest(v) \in {0} \cup ChangesOf(v)
           /\ \A v \in Views : Latest(v) \in Versions
<1>1. /\ Len(log) \in 0..MaxChanges
      /\ DOMAIN log = 1..Len(log)
      /\ DOMAIN log \subseteq Changes
  BY LenProperties, BoundsAssumption DEF TypeOK, Changes
<1>2. \A i \in DOMAIN log : log[i].view \in Views
  <2>1. \A i \in DOMAIN log : log[i] \in LogEntries
    BY <1>1, ElementOfSeq DEF TypeOK
  <2>. QED
    BY <2>1 DEF LogEntries
<1>3. ASSUME NEW v \in Views
      PROVE  Latest(v) \in {0} \cup ChangesOf(v)
  <2>1. /\ {0} \cup ChangesOf(v) \in SUBSET (0..MaxChanges)
        /\ {0} \cup ChangesOf(v) # {}
    BY <1>1, BoundsAssumption DEF ChangesOf
  <2>. HIDE DEF ChangesOf
  <2>2. Max({0} \cup ChangesOf(v)) \in {0} \cup ChangesOf(v)
    BY <2>1, GreatestOf, BoundsAssumption
  <2>. QED
    BY <2>2 DEF Latest, ChangesOf
<1>. QED
  BY <1>1, <1>2, <1>3, BoundsAssumption DEF Versions, ChangesOf

\* A step that leaves the log alone leaves the versions.
LEMMA SameVersions ==
    ASSUME UNCHANGED log
    PROVE  \A v \in Views : Latest(v)' = Latest(v)
  BY DEF Latest

\* A change is the latest version of its view, and of no other.
LEMMA NewVersion ==
    ASSUME TypeOK, NEW v \in Views, NEW kind \in Kinds(v), Change(v, kind)
    PROVE  /\ log' \in Seq(LogEntries)
           /\ Len(log') = Len(log) + 1 /\ Len(log') <= MaxChanges
           /\ DOMAIN log' = DOMAIN log \cup {Len(log) + 1}
           /\ Len(log) + 1 \notin DOMAIN log
           /\ Len(log) + 1 \in Changes
           /\ \A i \in DOMAIN log : log'[i] = log[i]
           /\ log'[Len(log) + 1] = [view |-> v, kind |-> kind]
           /\ Latest(v)' = Len(log) + 1
           /\ \A w \in Views \ {v} : Latest(w)' = Latest(w)
<1>. DEFINE n == Len(log) + 1
            e == [view |-> v, kind |-> kind]
<1>1. /\ Len(log) \in 0..MaxChanges
      /\ DOMAIN log = 1..Len(log)
  BY LogFacts
<1>2. Len(log) < MaxChanges /\ log' = Append(log, e)
  BY DEF Change
<1>3. e \in LogEntries
  BY DEF LogEntries, Kinds, AllKinds
<1>4. /\ log' \in Seq(LogEntries)
      /\ Len(log') = n
      /\ \A i \in 1..Len(log) : log'[i] = log[i]
      /\ log'[n] = e
  BY <1>2, <1>3, AppendProperties DEF TypeOK
<1>5. DOMAIN log' = 1..n
  BY <1>4, LenProperties
<1>6. /\ n <= MaxChanges
      /\ DOMAIN log' = DOMAIN log \cup {n}
      /\ n \notin DOMAIN log
      /\ n \in Changes
  BY <1>1, <1>2, <1>5, BoundsAssumption DEF Changes
<1>7. Latest(v)' = n
  <2>. DEFINE S == {0} \cup {i \in DOMAIN log' : log'[i].view = v}
  <2>1. S \in SUBSET (0..n) /\ S # {} /\ n \in S
    BY <1>1, <1>4, <1>5
  <2>2. n \in Nat
    BY <1>1, BoundsAssumption
  <2>. HIDE DEF S, n
  <2>3. Max(S) \in S /\ \A s \in S : s <= Max(S)
    BY <2>1, <2>2, GreatestOf
  <2>4. Max(S) = n
    <3>1. Max(S) \in 0..n /\ n <= Max(S)
      BY <2>1, <2>3
    <3>. QED
      BY <2>2, <3>1
  <2>. QED
    BY <2>4 DEF S, Latest
<1>8. ASSUME NEW w \in Views \ {v}
      PROVE  Latest(w)' = Latest(w)
  <2>1. {i \in DOMAIN log' : log'[i].view = w} = {i \in DOMAIN log : log[i].view = w}
    BY <1>1, <1>4, <1>6
  <2>. QED
    BY <2>1 DEF Latest
<1>. QED
  BY <1>1, <1>2, <1>4, <1>6, <1>7, <1>8

-----------------------------------------------------------------------------
(* Steps. *)

\* A change has a message that nobody has seen, and its view a version nobody holds.
LEMMA ChangeKeeps ==
    ASSUME IInv, NEW v \in Views, NEW kind \in Kinds(v), Change(v, kind)
    PROVE  IInv'
<1>. DEFINE n == Len(log) + 1
<1>. USE DEF IInv
<1>1. /\ log' \in Seq(LogEntries)
      /\ Len(log') <= MaxChanges
      /\ DOMAIN log' = DOMAIN log \cup {n}
      /\ n \notin DOMAIN log
      /\ n \in Changes
      /\ \A i \in DOMAIN log : log'[i] = log[i]
      /\ log'[n] = [view |-> v, kind |-> kind]
      /\ Latest(v)' = n
      /\ \A w \in Views \ {v} : Latest(w)' = Latest(w)
  BY NewVersion
<1>2. DOMAIN log \subseteq Changes
  BY LogFacts
<1>3. /\ copies' = [copies EXCEPT ![n][1] = IF kind = "silent" THEN "none" ELSE "queued"]
      /\ UNCHANGED <<cache, stale, reader, seen, flag, handled, interrupted, raced,
                     faults>>
  BY DEF Change
<1>4. copies' \in [Changes -> [Copies -> {"none", "queued", "handling", "flagging",
                                         "acked", "dead"}]]
  BY <1>1, <1>3 DEF TypeOK, Copies
<1>5. \A i \in Changes, c \in Copies :
         copies'[i][c] = IF i = n /\ c = 1
                         THEN IF kind = "silent" THEN "none" ELSE "queued"
                         ELSE copies[i][c]
  BY <1>1, <1>3 DEF TypeOK, Copies
<1>6. n \notin seen
  <2>1. \A c \in Copies : copies[n][c] = "none"
    BY <1>1 DEF OnlyChanges
  <2>2. n \notin handled \cup interrupted
    BY <1>1 DEF OnlyChanges
  <2>. QED
    BY <1>1, <2>1, <2>2 DEF MessagesOK, SeenOK
<1>7. TypeOK'
  BY <1>1, <1>3, <1>4 DEF TypeOK
<1>8. OnlyChanges'
  BY <1>1, <1>3, <1>5 DEF OnlyChanges
<1>9. AnswersHeld'
  BY <1>3 DEF AnswersHeld
<1>10. MessagesOK'
  <2>1. \A i \in DOMAIN log' : Announced(i)'
    <3>1. kind # "silent" => copies'[n][1] # "none"
      BY <1>1, <1>5 DEF Copies
    <3>2. ASSUME NEW i \in DOMAIN log', i = n
          PROVE  Announced(i)'
      BY <1>1, <3>1, <3>2 DEF Announced
    <3>3. ASSUME NEW i \in DOMAIN log
          PROVE  Announced(i)'
      BY <1>1, <1>2, <1>5 DEF Announced, MessagesOK, Copies
    <3>. QED
      BY <1>1, <3>2, <3>3
  <2>2. ASSUME NEW i \in Changes
        PROVE  SeenOK(i)' /\ \A c \in Copies : MessageOK(i, c)'
    BY <1>3, <1>5, <1>6 DEF MessagesOK, SeenOK, MessageOK
  <2>. QED
    BY <2>1, <2>2 DEF MessagesOK
<1>11. OldEntriesGo'
  <2>. SUFFICES ASSUME NEW w \in Views, cache[w] \notin {None, Latest(w)'},
                       Latest(w)' \in handled
                PROVE  log'[Latest(w)'].kind = "suspended" \/ w \in raced
    BY <1>3 DEF OldEntriesGo
  <2>1. w # v /\ Latest(w)' = Latest(w)
    BY <1>1 DEF OnlyChanges
  <2>2. log'[Latest(w)] = log[Latest(w)]
    BY <1>1, <2>1 DEF OnlyChanges
  <2>. QED
    BY <2>1, <2>2 DEF OldEntriesGo
<1>. QED
  BY <1>7, <1>8, <1>9, <1>10, <1>11

\* What was said of the cache is so while nothing it says of changes.
LEMMA SameEntries ==
    ASSUME OldEntriesGo, UNCHANGED <<log, cache, handled, raced>>
    PROVE  OldEntriesGo'
  BY SameVersions DEF OldEntriesGo

\* A message changes its status alone.
LEMMA Marked ==
    ASSUME TypeOK, NEW i \in Changes, NEW c \in Copies,
           NEW status \in {"none", "queued", "handling", "flagging", "acked", "dead"},
           Mark(i, c, status)
    PROVE  /\ copies' \in [Changes -> [Copies -> {"none", "queued", "handling",
                                                  "flagging", "acked", "dead"}]]
           /\ \A j \in Changes, d \in Copies :
                 copies'[j][d] = IF j = i /\ d = c THEN status ELSE copies[j][d]
  BY DEF TypeOK, Mark

\* The messages the consumer sees, and the broker's, without the deletion of a
\* key.
Message(i, c) ==
    \/ TrySet(i, c) \/ Skip(i, c) \/ SetFlag(i, c)
    \/ HandlerFails(i, c) \/ Redeliver(i, c)
    \/ Duplicate(i) /\ c = 2

\* A message moves on with the dedupe key set; a handler that ends without its
\* deletion leaves a dead letter or a crash behind.
LEMMA MessageKeeps ==
    ASSUME IInv, NEW i \in Changes, NEW c \in Copies, Message(i, c)
    PROVE  IInv'
<1>. USE DEF IInv
<1>1. /\ i \in DOMAIN log
      /\ UNCHANGED <<log, cache, stale, reader, handled, raced>>
      /\ seen \subseteq seen' /\ seen' \subseteq seen \cup {i}
      /\ interrupted \subseteq interrupted' /\ interrupted' \subseteq interrupted \cup {i}
      /\ flag' \in BOOLEAN
      /\ faults' \in 0..MaxFaults
  <2>1. i \in DOMAIN log
    BY DEF Message, TrySet, Skip, SetFlag, HandlerFails, Redeliver, Duplicate,
           OnlyChanges, Copies
  <2>2. UNCHANGED <<log, cache, stale, reader, handled, raced>>
    BY DEF Message, TrySet, Skip, SetFlag, HandlerFails, Redeliver, Duplicate
  <2>3. /\ seen \subseteq seen' /\ seen' \subseteq seen \cup {i}
        /\ interrupted \subseteq interrupted'
        /\ interrupted' \subseteq interrupted \cup {i}
    BY DEF Message, TrySet, Skip, SetFlag, HandlerFails, Redeliver, Duplicate, TypeOK
  <2>4. faults' \in 0..MaxFaults
    <3>1. faults' = faults \/ Fault
      BY DEF Message, TrySet, Skip, SetFlag, HandlerFails, Redeliver, Duplicate
    <3>. QED
      BY <3>1, BoundsAssumption DEF TypeOK, Fault
  <2>5. flag' \in BOOLEAN
    <3>1. CASE SetFlag(i, c)
      <4>1. flag' = (log[i].kind = "deactivated")
        BY <3>1 DEF SetFlag
      <4>. QED
        BY <4>1, Zenon
    <3>2. CASE ~ SetFlag(i, c)
      BY <3>2 DEF Message, TrySet, Skip, HandlerFails, Redeliver, Duplicate, TypeOK
    <3>. QED
      BY <3>1, <3>2
  <2>. QED
    BY <2>1, <2>2, <2>3, <2>4, <2>5
<1>2. \E status \in {"queued", "handling", "acked", "dead"} :
         /\ Mark(i, c, status)
         /\ status \in {"handling", "acked"} => i \in seen'
         /\ i \in seen' \ seen => status \in {"handling", "dead"}
         /\ copies[i][c] = "handling" => status = "dead" \/ i \in interrupted'
         /\ copies[i][c] = "dead" => FALSE
  BY DEF Message, TrySet, Skip, SetFlag, HandlerFails, Redeliver, Duplicate,
         IsFresh, MessagesOK, MessageOK
<1>3. PICK status \in {"queued", "handling", "acked", "dead"} :
         /\ copies' \in [Changes -> [Copies -> {"none", "queued", "handling",
                                                "flagging", "acked", "dead"}]]
         /\ \A j \in Changes, d \in Copies :
               copies'[j][d] = IF j = i /\ d = c THEN status ELSE copies[j][d]
         /\ status \in {"handling", "acked"} => i \in seen'
         /\ i \in seen' \ seen => status \in {"handling", "dead"}
         /\ copies[i][c] = "handling" => status = "dead" \/ i \in interrupted'
         /\ copies[i][c] # "dead"
  BY <1>2, Marked
<1>4. TypeOK'
  BY <1>1, <1>3 DEF TypeOK
<1>5. OnlyChanges' /\ AnswersHeld'
  BY <1>1, <1>3 DEF OnlyChanges, AnswersHeld
<1>6. MessagesOK'
  <2>1. \A j \in DOMAIN log : Announced(j)'
    BY <1>1, <1>3, LogFacts DEF MessagesOK, Announced, Copies
  <2>2. ASSUME NEW j \in Changes
        PROVE  SeenOK(j)'
    BY <1>1, <1>3 DEF MessagesOK, SeenOK
  <2>3. ASSUME NEW j \in Changes, NEW d \in Copies
        PROVE  MessageOK(j, d)'
    BY <1>1, <1>3 DEF MessagesOK, MessageOK
  <2>. QED
    BY <1>1, <2>1, <2>2, <2>3 DEF MessagesOK
<1>7. OldEntriesGo'
  BY <1>1, SameEntries
<1>. QED
  BY <1>4, <1>5, <1>6, <1>7

\* A handler deletes the entry of its own change's view.
LEMMA HandleKeeps ==
    ASSUME IInv, NEW i \in Changes, NEW c \in Copies, Handle(i, c)
    PROVE  IInv'
<1>. DEFINE v == log[i].view
            status == IF log[i].kind \in {"activated", "deactivated"}
                      THEN "flagging" ELSE "acked"
<1>. USE DEF IInv
<1>1. /\ i \in DOMAIN log /\ i \in seen
      /\ v \in Views
  BY LogFacts DEF Handle, OnlyChanges, MessagesOK, MessageOK
<1>2. /\ copies[i][c] = "handling"
      /\ handled' = handled \cup {i}
      /\ UNCHANGED <<log, stale, reader, seen, flag, interrupted, faults>>
  BY DEF Handle
<1>3. /\ copies' \in [Changes -> [Copies -> {"none", "queued", "handling",
                                             "flagging", "acked", "dead"}]]
      /\ \A j \in Changes, d \in Copies :
            copies'[j][d] = IF j = i /\ d = c THEN status ELSE copies[j][d]
  <2>1. Mark(i, c, status)
    BY DEF Handle
  <2>. QED
    BY <2>1, Marked
<1>4. \/ UNCHANGED <<cache, raced>> /\ log[i].kind = "suspended"
      \/ cache' = [cache EXCEPT ![v] = None] /\ raced' = raced \ {v}
  BY DEF Handle
<1>5. TypeOK'
  BY <1>1, <1>2, <1>3, <1>4 DEF TypeOK
<1>6. OnlyChanges' /\ AnswersHeld'
  BY <1>1, <1>2, <1>3 DEF OnlyChanges, AnswersHeld
<1>7. MessagesOK'
  <2>1. \A j \in DOMAIN log : Announced(j)'
    BY <1>1, <1>2, <1>3, LogFacts DEF MessagesOK, Announced, Copies
  <2>2. ASSUME NEW j \in Changes
        PROVE  SeenOK(j)' /\ \A d \in Copies : MessageOK(j, d)'
    BY <1>1, <1>2, <1>3 DEF MessagesOK, SeenOK, MessageOK
  <2>. QED
    BY <1>2, <2>1, <2>2 DEF MessagesOK
<1>8. OldEntriesGo'
  <2>. SUFFICES ASSUME NEW w \in Views, cache'[w] \notin {None, Latest(w)},
                       Latest(w) \in handled \cup {i}
                PROVE  log[Latest(w)].kind = "suspended" \/ w \in raced'
    BY <1>2, SameVersions DEF OldEntriesGo
  <2>1. CASE Latest(w) = i
    <3>1. w = v
      BY <1>1, <2>1, LogFacts DEF ChangesOf, Changes
    <3>. QED
      BY <1>4, <2>1, <3>1 DEF TypeOK
  <2>2. CASE Latest(w) # i
    BY <1>4, <2>2 DEF OldEntriesGo, TypeOK
  <2>. QED
    BY <2>1, <2>2
<1>. QED
  BY <1>5, <1>6, <1>7, <1>8

\* A reader's steps.
Reading(r) ==
    \/ \E v \in Views : Get(r, v)
    \/ GetFails(r) \/ Read(r)

\* A reader stores the answer it was given; a store after the last event's handling
\* is a race.
LEMMA ReadingKeeps ==
    ASSUME IInv, NEW r \in Readers, Reading(r)
    PROVE  IInv'
<1>. USE DEF IInv
<1>1. UNCHANGED <<log, copies, seen, flag, interrupted, handled>>
  BY DEF Reading, Get, GetFails, Read, CoreAnswers, CoreFails, ServeStale, Set,
         SetStale, SetLost, consumer
<1>2. faults' \in 0..MaxFaults
  BY BoundsAssumption DEF Reading, Get, GetFails, Read, CoreAnswers, CoreFails,
         ServeStale, Set, SetStale, SetLost, Fault, TypeOK
<1>3. PICK x \in Readings :
         /\ reader' = [reader EXCEPT ![r] = x]
         /\ x.at # "idle" => x.view \in Views
         /\ x.at \in {"set", "setStale"} => x.got \in Versions
  <2>. DEFINE Stored(x) ==
                /\ x \in Readings
                /\ reader' = [reader EXCEPT ![r] = x]
                /\ x.at # "idle" => x.view \in Views
                /\ x.at \in {"set", "setStale"} => x.got \in Versions
  <2>1. CASE Done(r)
    <3>1. Stored(Idle)
      BY <2>1 DEF Done, Idle, Readings
    <3>. QED
      BY <3>1
  <2>2. ASSUME NEW v \in Views,
               reader' = [reader EXCEPT ![r] = [at |-> "fetch", view |-> v,
                                                got |-> None]]
        PROVE  \E x : Stored(x)
    <3>1. Stored([at |-> "fetch", view |-> v, got |-> None])
      BY <2>2 DEF Readings
    <3>. QED
      BY <3>1
  <2>3. /\ reader[r] = [at |-> reader[r].at, view |-> reader[r].view,
                        got |-> reader[r].got]
        /\ reader[r].at # "idle" => reader[r].view \in Views
        /\ reader[r].at \in {"set", "setStale"} => reader[r].got \in Versions
    BY DEF TypeOK, Readings, AnswersHeld
  <2>4. CASE CoreAnswers(r)
    <3>. DEFINE x == [at |-> "set", view |-> reader[r].view,
                      got |-> Latest(reader[r].view)]
    <3>1. reader[r].at = "fetch"
      BY <2>4 DEF CoreAnswers
    <3>2. reader' = [reader EXCEPT ![r] = x]
      BY <2>4 DEF CoreAnswers, TypeOK
    <3>3. reader[r].view \in Views /\ Latest(reader[r].view) \in Versions
      BY <2>3, <3>1, LogFacts
    <3>4. Stored(x)
      BY <3>2, <3>3 DEF Readings
    <3>. QED
      BY <3>4
  <2>5. CASE /\ reader[r].at = "set"
             /\ reader' = [reader EXCEPT ![r].at = "setStale"]
    <3>. DEFINE x == [at |-> "setStale", view |-> reader[r].view,
                      got |-> reader[r].got]
    <3>1. reader' = [reader EXCEPT ![r] = x]
      <4>1. reader' = [reader EXCEPT ![r] = [reader[r] EXCEPT !.at = "setStale"]]
        BY <2>5 DEF TypeOK
      <4>2. [reader[r] EXCEPT !.at = "setStale"] = x
        BY <2>3
      <4>. QED
        BY <4>1, <4>2
    <3>2. Stored(x)
      BY <2>3, <2>5, <3>1 DEF Readings
    <3>. QED
      BY <3>2
  <2>6. CASE GetFails(r) \/ \E v \in Views : Get(r, v)
    BY <2>2, <2>6 DEF GetFails, Get
  <2>7. CASE Set(r) \/ SetLost(r)
    BY <2>1, <2>5, <2>7 DEF Set, SetLost, AfterSet
  <2>8. CASE CoreFails(r) \/ ServeStale(r) \/ SetStale(r)
    BY <2>1, <2>8 DEF CoreFails, ServeStale, SetStale
  <2>. QED
    BY <2>4, <2>6, <2>7, <2>8 DEF Reading, Read
<1>4. cache' \in [Views -> Versions \cup {None}]
  <2>1. CASE Set(r)
    <3>1. reader[r].view \in Views /\ reader[r].got \in Versions
      BY <2>1 DEF Set, AnswersHeld
    <3>. QED
      BY <2>1, <3>1 DEF Set, TypeOK
  <2>2. CASE ~ Set(r)
    BY <2>2 DEF Reading, Get, GetFails, Read, CoreAnswers, CoreFails, ServeStale,
       SetStale, SetLost, TypeOK
  <2>. QED
    BY <2>1, <2>2
<1>5. stale' \in Versions \cup {None}
  BY DEF Reading, Get, GetFails, Read, CoreAnswers, CoreFails, ServeStale, Set,
     SetStale, SetLost, TypeOK, AnswersHeld
<1>6. raced' \subseteq Views
  BY DEF Reading, Get, GetFails, Read, CoreAnswers, CoreFails, ServeStale, Set,
     SetStale, SetLost, TypeOK, AnswersHeld
<1>7. reader' \in [Readers -> Readings]
  BY <1>3 DEF TypeOK
<1>8. TypeOK'
  BY <1>1, <1>2, <1>4, <1>5, <1>6, <1>7 DEF TypeOK
<1>9. OnlyChanges' /\ MessagesOK'
  BY <1>1 DEF OnlyChanges, MessagesOK, Announced, SeenOK, MessageOK
<1>10. AnswersHeld'
  BY <1>3 DEF AnswersHeld, TypeOK
<1>11. OldEntriesGo'
  <2>1. CASE Set(r)
    <3>. DEFINE v == reader[r].view
    <3>1. /\ v \in Views
          /\ cache' = [cache EXCEPT ![v] = reader[r].got]
          /\ raced' = IF reader[r].got # Latest(v) /\ Latest(v) \in handled
                      THEN raced \cup {v} ELSE raced \ {v}
      BY <2>1 DEF Set, AnswersHeld
    <3>. SUFFICES ASSUME NEW w \in Views, cache'[w] \notin {None, Latest(w)},
                         Latest(w) \in handled
                  PROVE  log[Latest(w)].kind = "suspended" \/ w \in raced'
      BY <1>1, SameVersions DEF OldEntriesGo
    <3>2. CASE w = v
      BY <3>1, <3>2 DEF TypeOK
    <3>3. CASE w # v
      BY <3>1, <3>3 DEF TypeOK, OldEntriesGo
    <3>. QED
      BY <3>2, <3>3
  <2>2. CASE ~ Set(r)
    <3>1. UNCHANGED <<cache, raced>>
      BY <2>2 DEF Reading, Get, GetFails, Read, CoreAnswers, CoreFails, ServeStale,
         SetStale, SetLost
    <3>. QED
      BY <1>1, <3>1, SameEntries
  <2>. QED
    BY <2>1, <2>2
<1>. QED
  BY <1>8, <1>9, <1>10, <1>11

\* What expires is not an old entry.
LEMMA ExpiryKeeps ==
    ASSUME IInv, ExpireStale \/ \E v \in Views : Expire(v)
    PROVE  IInv'
<1>. USE DEF IInv
<1>1. UNCHANGED <<log, reader, copies, seen, flag, interrupted, handled, faults>>
  BY DEF ExpireStale, Expire, consumer
<1>2. TypeOK'
  BY <1>1 DEF ExpireStale, Expire, TypeOK
<1>3. OnlyChanges' /\ MessagesOK' /\ AnswersHeld'
  BY <1>1 DEF OnlyChanges, MessagesOK, Announced, SeenOK, MessageOK, AnswersHeld
<1>4. CASE ExpireStale
  BY <1>2, <1>3, <1>4, SameEntries DEF ExpireStale
<1>5. ASSUME NEW v \in Views, Expire(v)
      PROVE  OldEntriesGo'
  <2>1. \A w \in Views : cache'[w] # None =>
            cache'[w] = cache[w] /\ (w \in raced => w \in raced')
    BY <1>5 DEF Expire, TypeOK
  <2>. QED
    BY <1>1, <2>1, SameVersions DEF OldEntriesGo
<1>. QED
  BY <1>2, <1>3, <1>4, <1>5

-----------------------------------------------------------------------------
(* The theorems. *)

\* The inductive invariant holds in every state: the messages of a change, its
\* dedupe key and its handling go together, and an old entry whose event was
\* handled came from a fill that was under way.
THEOREM Invariance == Spec => []IInv
<1>1. Init => IInv
  <2>. SUFFICES ASSUME Init PROVE IInv
    OBVIOUS
  <2>1. log = <<>> /\ DOMAIN log = {} /\ Len(log) = 0 /\ log \in Seq(LogEntries)
    BY EmptySeq DEF Init
  <2>2. TypeOK
    <3>1. Idle \in Readings
      BY DEF Idle, Readings
    <3>2. /\ 0 \in 0..MaxFaults
          /\ Len(log) <= MaxChanges
      BY <2>1, BoundsAssumption
    <3>3. copies \in [Changes -> [Copies -> {"none", "queued", "handling", "flagging",
                                            "acked", "dead"}]]
      BY DEF Init
    <3>. QED
      BY <2>1, <3>1, <3>2, <3>3 DEF Init, TypeOK
  <2>3. OnlyChanges /\ AnswersHeld /\ MessagesOK
    BY <2>1 DEF Init, OnlyChanges, AnswersHeld, MessagesOK, Announced, SeenOK,
       MessageOK, Idle, Copies
  <2>4. OldEntriesGo
    BY DEF Init, OldEntriesGo
  <2>. QED
    BY <2>2, <2>3, <2>4 DEF IInv
<1>2. IInv /\ [Next]_vars => IInv'
  <2>. SUFFICES ASSUME IInv, [Next]_vars PROVE IInv'
    OBVIOUS
  <2>1. CASE UNCHANGED vars
    <3>1. UNCHANGED <<log, cache, handled, raced>>
      BY <2>1 DEF vars
    <3>2. OldEntriesGo'
      BY <3>1, SameEntries DEF IInv
    <3>. QED
      BY <2>1, <3>2 DEF IInv, vars, consumer, TypeOK, OnlyChanges, AnswersHeld,
         MessagesOK, Announced, SeenOK, MessageOK
  <2>2. ASSUME NEW v \in Views, NEW kind \in Kinds(v), Change(v, kind)
        PROVE  IInv'
    BY <2>2, ChangeKeeps
  <2>3. ASSUME NEW i \in Changes, Duplicate(i)
        PROVE  IInv'
    BY <2>3, MessageKeeps DEF Message, Copies
  <2>4. ASSUME NEW i \in Changes, NEW c \in Copies,
               \/ TrySet(i, c) \/ Skip(i, c) \/ SetFlag(i, c)
               \/ HandlerFails(i, c) \/ Redeliver(i, c)
        PROVE  IInv'
    BY <2>4, MessageKeeps DEF Message
  <2>5. ASSUME NEW i \in Changes, NEW c \in Copies, Handle(i, c)
        PROVE  IInv'
    BY <2>5, HandleKeeps
  <2>6. ASSUME NEW r \in Readers, Reading(r)
        PROVE  IInv'
    BY <2>6, ReadingKeeps
  <2>7. CASE ExpireStale \/ \E v \in Views : Expire(v)
    BY <2>7, ExpiryKeeps
  <2>. QED
    BY <2>1, <2>2, <2>3, <2>4, <2>5, <2>6, <2>7 DEF Next, Reading
<1>. QED
  BY <1>1, <1>2, PTL DEF Spec

\* Whatever the order of messages, duplicates, deaths and fills: an entry is
\* older than the last handled change of its view only if it was filled by a
\* read that had begun before, or for restaurant.suspended; and no event whose
\* messages are all acknowledged was skipped, unless its handler died.
THEOREM InvalidationWorks == Spec => []InvalidationsWork
<1>1. IInv => InvalidationsWork
  <2>. SUFFICES ASSUME IInv PROVE InvalidationsWork
    OBVIOUS
  <2>1. ASSUME NEW i \in DOMAIN log, log[i].kind # "silent",
               \A c \in Copies : copies[i][c] \in {"none", "acked"}
        PROVE  i \in handled \cup interrupted
    <3>1. i \in Changes
      BY LogFacts DEF IInv
    <3>2. copies[i][1] = "acked"
      BY <2>1 DEF IInv, MessagesOK, Announced, Copies
    <3>3. i \in seen
      BY <3>1, <3>2 DEF IInv, MessagesOK, MessageOK, Copies
    <3>. QED
      BY <2>1, <3>1, <3>3 DEF IInv, MessagesOK, SeenOK
  <2>2. NoEventSkipped
    BY <2>1 DEF NoEventSkipped
  <2>. QED
    BY <2>2 DEF IInv, InvalidationsWork
<1>. QED
  BY <1>1, Invariance, PTL
=============================================================================
