---------------------------- MODULE OutboxProofs ----------------------------
(***************************************************************************)
(* Theorems about Outbox for any number of events and of overlapping       *)
(* drains, any batch size and any number of faults.                        *)
(***************************************************************************)
EXTENDS Outbox, FiniteSetTheorems, TLAPS

-----------------------------------------------------------------------------
(* The stream. *)

\* Publishing adds one event to what subscribers have seen.
LEMMA AppendPublishes ==
    ASSUME stream \in Seq(Events), NEW e \in Events, stream' = Append(stream, e)
    PROVE  /\ stream' \in Seq(Events)
           /\ Published' = Published \cup {e}
           /\ Copies(e)' = Copies(e) \cup {Len(stream) + 1}
           /\ \A f \in Events \ {e} : Copies(f)' = Copies(f)
<1>1. /\ stream' \in Seq(Events)
      /\ DOMAIN stream' = DOMAIN stream \cup {Len(stream) + 1}
      /\ \A i \in DOMAIN stream : stream'[i] = stream[i]
      /\ stream'[Len(stream) + 1] = e
  OBVIOUS
<1>. QED
  BY <1>1 DEF Published, Copies

\* The copies of an event are finitely many; one more adds one to their number.
LEMMA CopiesFinite ==
    ASSUME stream \in Seq(Events), NEW e
    PROVE  /\ IsFiniteSet(Copies(e))
           /\ Cardinality(Copies(e)) \in Nat
           /\ Cardinality(Copies(e) \cup {Len(stream) + 1})
                = Cardinality(Copies(e)) + 1
<1>1. Len(stream) \in Nat /\ DOMAIN stream = 1..Len(stream)
  OBVIOUS
<1>2. IsFiniteSet(1..Len(stream))
  BY <1>1, FS_Interval
<1>3. Copies(e) \subseteq 1..Len(stream)
  BY <1>1 DEF Copies
<1>4. IsFiniteSet(Copies(e))
  BY <1>2, <1>3, FS_Subset
<1>5. Len(stream) + 1 \notin Copies(e)
  BY <1>1, <1>3
<1>. QED
  BY <1>4, <1>5, FS_AddElement, FS_CardinalityType

-----------------------------------------------------------------------------
(* Every step preserves the inductive invariant. *)

\* The invariant holds of empty tables.
LEMMA InitInv == Init => IInv
<1>. SUFFICES ASSUME Init PROVE IInv
  OBVIOUS
<1>1. TypeOK
  BY BoundsAssumption DEF Init, TypeOK
<1>2. \A e \in Events : Cardinality(Copies(e)) = 0
  BY FS_EmptySet DEF Init, Copies
<1>3. DuplicatesPaidFor
  BY <1>2 DEF Init, DuplicatesPaidFor, Settled
<1>. QED
  BY <1>1, <1>3
     DEF Init, IInv, NothingLost, NoPhantoms, ClaimsExclusive, ListsApart,
         CommittedBegan, PriorsOlder, PriorsClaimed, Held, Undispatched, Published

\* An opened transaction is younger than every committed one.
LEMMA InsertInv ==
    ASSUME IInv, NEW x \in Events, InsertOutboxEvent(x)
    PROVE  IInv'
<1>1. /\ UNCHANGED <<committed, dispatched, attempts, stream, locals, faults>>
      /\ createdAt[x] = 0
      /\ now' = now + 1
      /\ createdAt' = [createdAt EXCEPT ![x] = now + 1]
      /\ priors' = [priors EXCEPT ![x] = committed]
  BY DEF InsertOutboxEvent
<1>2. TypeOK'
  BY <1>1 DEF IInv, TypeOK, locals
<1>3. PriorsOlder'
  <2>1. \A e \in Events : createdAt[e] \in Nat /\ createdAt[e] <= now /\ now \in Nat
    BY DEF IInv, TypeOK
  <2>2. x \notin committed /\ \A f \in Events : x \notin priors[f]
    BY <1>1 DEF IInv, TypeOK, PriorsOlder, CommittedBegan, Older
  <2>. QED
    BY <1>1, <2>1, <2>2 DEF IInv, TypeOK, PriorsOlder, Older
<1>4. PriorsClaimed'
  <2>1. \A d \in Drains : x \notin todo[d]
    BY <1>1 DEF IInv, ClaimsExclusive, CommittedBegan, Undispatched, Held
  <2>2. \A f \in Events \ {x} : priors'[f] = priors[f]
    BY <1>1 DEF IInv, TypeOK
  <2>3. /\ Published' = Published /\ todo' = todo /\ failed' = failed
        /\ \A c \in Drains : Held(c)' = Held(c)
        /\ faults' = faults
    BY <1>1 DEF locals, Held, Published
  <2>4. SUFFICES ASSUME faults = 0, NEW d \in Drains
                 PROVE  /\ failed[d] = {}
                        /\ \A f \in todo[d] : \A e \in priors'[f] \ Published :
                              e \in todo[d] \/ \E c \in Drains \ {d} : e \in Held(c)
    BY <2>3 DEF PriorsClaimed
  <2>5. failed[d] = {} /\ \A f \in todo[d] : \A e \in priors[f] \ Published :
            e \in todo[d] \/ \E c \in Drains \ {d} : e \in Held(c)
    BY <2>4 DEF IInv, PriorsClaimed
  <2>6. todo[d] \subseteq Events
    BY DEF IInv, TypeOK
  <2>. QED
    BY <2>1, <2>2, <2>5, <2>6
<1>. QED
  BY <1>1, <1>2, <1>3, <1>4
     DEF IInv, NothingLost, NoPhantoms, ClaimsExclusive, ListsApart, Held,
         Undispatched, Published, Copies, DuplicatesPaidFor, Settled, locals,
         CommittedBegan, TypeOK

\* A row that becomes visible is in nobody's hands.
LEMMA CommitInv ==
    ASSUME IInv, NEW x \in Events, CommitDomain(x)
    PROVE  IInv'
<1>1. /\ UNCHANGED <<now, createdAt, dispatched, attempts, priors, stream, locals, faults>>
      /\ createdAt[x] # 0
      /\ committed' = committed \cup {x}
  BY DEF CommitDomain
<1>2. /\ UNCHANGED <<todo, sent, failed>>
      /\ Published' = Published
      /\ \A d \in Drains : Held(d)' = Held(d)
      /\ \A e : Copies(e)' = Copies(e)
  BY <1>1 DEF locals, Published, Held, Copies
<1>3. TypeOK' /\ NothingLost' /\ NoPhantoms' /\ ListsApart' /\ CommittedBegan'
  BY <1>1, <1>2 DEF IInv, TypeOK, NothingLost, NoPhantoms, ListsApart, CommittedBegan
<1>4. ClaimsExclusive'
  BY <1>1, <1>2 DEF IInv, ClaimsExclusive, Undispatched
<1>5. DuplicatesPaidFor'
  BY <1>1, <1>2 DEF IInv, DuplicatesPaidFor, Settled
<1>6. PriorsOlder'
  BY <1>1 DEF IInv, PriorsOlder, Older
<1>7. PriorsClaimed'
  BY <1>1, <1>2 DEF IInv, PriorsClaimed
<1>. QED
  BY <1>3, <1>4, <1>5, <1>6, <1>7 DEF IInv

\* A claim holds, of the rows that came before one of its own and nobody holds,
\* all: they are older.
LEMMA ClaimInv ==
    ASSUME IInv, NEW d \in Drains, Claim(d)
    PROVE  IInv'
<1>1. PICK batch \in SUBSET Events : /\ IsClaim(batch)
                                     /\ todo' = [todo EXCEPT ![d] = batch]
  BY DEF Claim
<1>2. /\ UNCHANGED <<rows, stream, sent, failed, faults>>
      /\ todo[d] = {} /\ sent[d] = {} /\ failed[d] = {}
  BY DEF Claim, Idle, Held
<1>3. /\ todo'[d] = batch
      /\ \A c \in Drains \ {d} : todo'[c] = todo[c]
  BY <1>1 DEF IInv, TypeOK
<1>4. /\ Held(d)' = batch
      /\ \A c \in Drains \ {d} : Held(c)' = Held(c)
      /\ Published' = Published
      /\ \A e : Copies(e)' = Copies(e)
  BY <1>2, <1>3 DEF Held, Published, Copies
<1>5. /\ batch \subseteq Undispatched
      /\ \A c \in Drains : Held(c) \cap batch = {}
  BY <1>1 DEF IsClaim, Unlocked
<1>6. TypeOK'
  BY <1>1, <1>2 DEF IInv, TypeOK, rows
<1>7. NothingLost' /\ NoPhantoms' /\ CommittedBegan' /\ PriorsOlder'
  BY <1>2, <1>4
     DEF IInv, NothingLost, NoPhantoms, CommittedBegan, PriorsOlder, Older, rows
<1>8. ClaimsExclusive'
  BY <1>2, <1>4, <1>5 DEF IInv, ClaimsExclusive, Undispatched, rows
<1>9. ListsApart'
  BY <1>2, <1>3, <1>4 DEF IInv, ListsApart
<1>10. DuplicatesPaidFor'
  BY <1>2, <1>4 DEF IInv, DuplicatesPaidFor, Settled, rows
<1>11. PriorsClaimed'
  <2>. SUFFICES ASSUME faults = 0, NEW c \in Drains
                PROVE  /\ failed[c] = {}
                       /\ \A f \in todo'[c] : \A e \in priors[f] \ Published :
                             e \in todo'[c] \/ \E b \in Drains \ {c} : e \in Held(b)'
    BY <1>2, <1>4 DEF PriorsClaimed, rows
  <2>1. CASE c # d
    BY <2>1, <1>2, <1>3, <1>4 DEF IInv, PriorsClaimed, Held
  <2>2. CASE c = d
    <3>. SUFFICES ASSUME NEW f \in batch, NEW e \in priors[f] \ Published,
                         e \notin batch
                  PROVE  \E b \in Drains \ {d} : e \in Held(b)
      BY <2>2, <1>2, <1>3, <1>4
    <3>1. e \in committed /\ Older(e, f)
      BY <1>1 DEF IInv, PriorsOlder
    <3>2. e \in Undispatched
      BY <3>1 DEF IInv, NothingLost, Undispatched
    <3>3. ~ Older(f, e)
      BY <3>1 DEF IInv, TypeOK, Older
    <3>4. e \notin Unlocked
      BY <3>3, <1>1 DEF IsClaim
    <3>5. PICK b \in Drains : e \in Held(b)
      BY <3>2, <3>4 DEF Unlocked
    <3>. QED
      BY <3>5, <1>2 DEF Held
  <2>. QED
    BY <2>1, <2>2
<1>. QED
  BY <1>6, <1>7, <1>8, <1>9, <1>10, <1>11 DEF IInv

\* The event whose turn it is is nobody's but its drain's, and not yet settled.
LEMMA TurnUnsettled ==
    ASSUME IInv, NEW d \in Drains, NEW x \in Events, Turn(d, x)
    PROVE  /\ x \in todo[d] /\ x \in Held(d)
           /\ x \in committed /\ x \notin dispatched
           /\ x \notin sent[d] /\ x \notin failed[d]
           /\ \A c \in Drains \ {d} : x \notin Held(c)
           /\ ~ Settled(x)
<1>1. x \in todo[d] /\ x \in Held(d)
  BY DEF Turn, Held
<1>2. x \in committed /\ x \notin dispatched
  BY <1>1 DEF IInv, ClaimsExclusive, Undispatched
<1>3. x \notin sent[d] /\ x \notin failed[d]
  BY <1>1 DEF IInv, ListsApart
<1>4. \A c \in Drains \ {d} : x \notin Held(c)
  BY <1>1 DEF IInv, ClaimsExclusive
<1>. QED
  BY <1>1, <1>2, <1>3, <1>4 DEF Settled, Held

\* The copy that settles an event is the one that is not paid for by a fault.
LEMMA PublishInv ==
    ASSUME IInv, NEW d \in Drains, NEW x \in Events, PublishEvent(d, x)
    PROVE  IInv'
<1>1. /\ UNCHANGED <<rows, failed, faults>>
      /\ Turn(d, x)
      /\ stream' = Append(stream, x)
      /\ todo' = [todo EXCEPT ![d] = @ \ {x}]
      /\ sent' = [sent EXCEPT ![d] = @ \cup {x}]
  BY DEF PublishEvent
<1>2. /\ x \in todo[d]
      /\ x \in committed
      /\ x \notin failed[d]
      /\ ~ Settled(x)
  BY <1>1, TurnUnsettled
<1>3. /\ todo'[d] = todo[d] \ {x} /\ sent'[d] = sent[d] \cup {x}
      /\ \A c \in Drains \ {d} : todo'[c] = todo[c] /\ sent'[c] = sent[c]
      /\ \A c \in Drains : Held(c)' = Held(c)
  <2>1. /\ todo'[d] = todo[d] \ {x} /\ sent'[d] = sent[d] \cup {x}
        /\ \A c \in Drains \ {d} : todo'[c] = todo[c] /\ sent'[c] = sent[c]
    BY <1>1 DEF IInv, TypeOK
  <2>. QED
    BY <2>1, <1>1, <1>2 DEF Held
<1>4. /\ stream' \in Seq(Events)
      /\ Published' = Published \cup {x}
      /\ Copies(x)' = Copies(x) \cup {Len(stream) + 1}
      /\ \A e \in Events \ {x} : Copies(e)' = Copies(e)
  BY <1>1, AppendPublishes DEF IInv, TypeOK
<1>5. TypeOK'
  BY <1>1, <1>4 DEF IInv, TypeOK, rows
<1>6. NothingLost' /\ NoPhantoms' /\ CommittedBegan' /\ PriorsOlder'
  BY <1>1, <1>2, <1>4
     DEF IInv, NothingLost, NoPhantoms, CommittedBegan, PriorsOlder, Older, rows
<1>7. ClaimsExclusive'
  BY <1>1, <1>3 DEF IInv, ClaimsExclusive, Undispatched, rows
<1>8. ListsApart'
  BY <1>1, <1>2, <1>3, <1>4 DEF IInv, ListsApart
<1>9. DuplicatesPaidFor'
  <2>1. Cardinality(Copies(x)') = Cardinality(Copies(x)) + 1
    BY <1>4, CopiesFinite DEF IInv, TypeOK
  <2>2. Cardinality(Copies(x)) \in Nat
    BY CopiesFinite DEF IInv, TypeOK
  <2>3. Settled(x)'
    BY <1>3 DEF Settled
  <2>4. \A e \in Events \ {x} : Settled(e)' <=> Settled(e)
    BY <1>1, <1>3 DEF Settled, rows
  <2>5. faults \in Nat
    BY BoundsAssumption DEF IInv, TypeOK
  <2>8. Cardinality(Copies(x)) <= faults
    <3>1. Cardinality(Copies(x)) <= faults + (IF Settled(x) THEN 1 ELSE 0)
      BY DEF IInv, DuplicatesPaidFor
    <3>. QED
      BY <3>1, <1>2, <2>2, <2>5
  <2>6. Cardinality(Copies(x)') <= faults' + (IF Settled(x)' THEN 1 ELSE 0)
    BY <1>1, <2>1, <2>2, <2>3, <2>5, <2>8
  <2>7. ASSUME NEW e \in Events \ {x}
        PROVE  Cardinality(Copies(e)') <= faults' + (IF Settled(e)' THEN 1 ELSE 0)
    BY <1>1, <1>4, <2>4 DEF IInv, DuplicatesPaidFor
  <2>. QED
    BY <2>6, <2>7 DEF DuplicatesPaidFor
<1>10. PriorsClaimed'
  BY <1>1, <1>3, <1>4 DEF IInv, PriorsClaimed, rows
<1>. QED
  BY <1>5, <1>6, <1>7, <1>8, <1>9, <1>10 DEF IInv

\* A failed publish may add a copy: the fault pays for it.
LEMMA PublishFailsInv ==
    ASSUME IInv, NEW d \in Drains, NEW x \in Events, PublishFails(d, x)
    PROVE  IInv'
<1>1. /\ UNCHANGED <<rows, sent>>
      /\ Turn(d, x)
      /\ faults < MaxFaults
      /\ faults' = faults + 1
      /\ todo' = [todo EXCEPT ![d] = @ \ {x}]
      /\ failed' = [failed EXCEPT ![d] = @ \cup {x}]
      /\ stream' = stream \/ stream' = Append(stream, x)
  BY DEF PublishFails
<1>2. /\ x \in todo[d]
      /\ x \in committed
      /\ x \notin sent[d]
  BY <1>1, TurnUnsettled
<1>3. /\ todo'[d] = todo[d] \ {x} /\ failed'[d] = failed[d] \cup {x}
      /\ \A c \in Drains \ {d} : todo'[c] = todo[c] /\ failed'[c] = failed[c]
  BY <1>1 DEF IInv, TypeOK
<1>4. \A c \in Drains : Held(c)' = Held(c)
  BY <1>1, <1>2, <1>3 DEF Held
<1>5. \A e : Settled(e)' <=> Settled(e)
  BY <1>1 DEF Settled, rows
<1>6. /\ stream' \in Seq(Events)
      /\ Published \subseteq Published'
      /\ Published' \subseteq Published \cup {x}
      /\ \A e \in Events \ {x} : Copies(e)' = Copies(e)
      /\ Copies(x)' = Copies(x) \/ Copies(x)' = Copies(x) \cup {Len(stream) + 1}
  <2>1. CASE stream' = stream
    BY <2>1 DEF IInv, TypeOK, Published, Copies
  <2>2. CASE stream' = Append(stream, x)
    BY <2>2, AppendPublishes DEF IInv, TypeOK
  <2>. QED
    BY <1>1, <2>1, <2>2
<1>7. faults \in Nat /\ faults' \in Nat /\ faults' # 0 /\ faults' \in 0..MaxFaults
  BY <1>1, BoundsAssumption DEF IInv, TypeOK
<1>8. TypeOK'
  BY <1>1, <1>6, <1>7 DEF IInv, TypeOK, rows
<1>9. NothingLost' /\ NoPhantoms' /\ CommittedBegan' /\ PriorsOlder'
  BY <1>1, <1>2, <1>6
     DEF IInv, NothingLost, NoPhantoms, CommittedBegan, PriorsOlder, Older, rows
<1>10. ClaimsExclusive'
  BY <1>1, <1>4 DEF IInv, ClaimsExclusive, Undispatched, rows
<1>11. ListsApart'
  BY <1>1, <1>2, <1>3, <1>6 DEF IInv, ListsApart
<1>12. DuplicatesPaidFor'
  <2>1. \A e \in Events :
          /\ Cardinality(Copies(e)) \in Nat
          /\ Cardinality(Copies(e)) <= faults + (IF Settled(e) THEN 1 ELSE 0)
    BY CopiesFinite DEF IInv, TypeOK, DuplicatesPaidFor
  <2>2. ASSUME NEW e \in Events \ {x}
        PROVE  Cardinality(Copies(e)') <= faults' + (IF Settled(e)' THEN 1 ELSE 0)
    BY <1>1, <1>5, <1>6, <1>7, <2>1
  <2>3. Cardinality(Copies(x)') <= faults' + (IF Settled(x)' THEN 1 ELSE 0)
    <3>1. Cardinality(Copies(x) \cup {Len(stream) + 1}) = Cardinality(Copies(x)) + 1
      BY CopiesFinite DEF IInv, TypeOK
    <3>2. \/ Cardinality(Copies(x)') = Cardinality(Copies(x))
          \/ Cardinality(Copies(x)') = Cardinality(Copies(x)) + 1
      BY <1>6, <3>1
    <3>. QED
      BY <1>1, <1>5, <1>7, <2>1, <3>2
  <2>. QED
    BY <2>2, <2>3 DEF DuplicatesPaidFor
<1>13. PriorsClaimed'
  BY <1>7 DEF PriorsClaimed
<1>. QED
  BY <1>8, <1>9, <1>10, <1>11, <1>12, <1>13 DEF IInv

\* A drain that commits or dies holds nothing any more.
LEMMA Released ==
    ASSUME TypeOK, NEW d \in Drains, Release(d)
    PROVE  /\ todo' \in [Drains -> SUBSET Events]
           /\ sent' \in [Drains -> SUBSET Events]
           /\ failed' \in [Drains -> SUBSET Events]
           /\ todo'[d] = {} /\ sent'[d] = {} /\ failed'[d] = {}
           /\ Held(d)' = {}
           /\ \A c \in Drains \ {d} : /\ todo'[c] = todo[c]
                                      /\ sent'[c] = sent[c]
                                      /\ failed'[c] = failed[c]
                                      /\ Held(c)' = Held(c)
<1>1. /\ todo' = [todo EXCEPT ![d] = {}]
      /\ sent' = [sent EXCEPT ![d] = {}]
      /\ failed' = [failed EXCEPT ![d] = {}]
  BY DEF Release
<1>2. /\ todo'[d] = {} /\ sent'[d] = {} /\ failed'[d] = {}
      /\ \A c \in Drains \ {d} : /\ todo'[c] = todo[c]
                                 /\ sent'[c] = sent[c]
                                 /\ failed'[c] = failed[c]
  BY <1>1 DEF TypeOK
<1>3. /\ todo' \in [Drains -> SUBSET Events]
      /\ sent' \in [Drains -> SUBSET Events]
      /\ failed' \in [Drains -> SUBSET Events]
  BY <1>1 DEF TypeOK
<1>. QED
  BY <1>2, <1>3 DEF Held

\* What a drain retires it has published, and no other drain holds it.
LEMMA FinishInv ==
    ASSUME IInv, NEW d \in Drains, Finish(d)
    PROVE  IInv'
<1>1. /\ UNCHANGED <<now, createdAt, committed, priors, stream, faults>>
      /\ todo[d] = {}
      /\ dispatched' = dispatched \cup sent[d]
      /\ attempts' = [e \in Events |->
                         IF e \in failed[d] THEN attempts[e] + 1 ELSE attempts[e]]
      /\ Release(d)
  BY DEF Finish
<1>2. /\ todo' \in [Drains -> SUBSET Events]
      /\ sent' \in [Drains -> SUBSET Events]
      /\ failed' \in [Drains -> SUBSET Events]
      /\ todo'[d] = {} /\ sent'[d] = {} /\ failed'[d] = {}
      /\ Held(d)' = {}
      /\ \A c \in Drains \ {d} : /\ todo'[c] = todo[c]
                                 /\ sent'[c] = sent[c]
                                 /\ failed'[c] = failed[c]
                                 /\ Held(c)' = Held(c)
  BY <1>1, Released DEF IInv
<1>3. /\ Published' = Published
      /\ \A e : Copies(e)' = Copies(e)
  BY <1>1 DEF Published, Copies
<1>4. sent[d] \subseteq Published /\ sent[d] \subseteq Held(d) /\ sent[d] \subseteq Events
  BY DEF IInv, TypeOK, ListsApart, Held
<1>5. TypeOK'
  <2>1. attempts' \in [Events -> Nat]
    BY <1>1 DEF IInv, TypeOK
  <2>. QED
    BY <1>1, <1>2, <1>4, <2>1 DEF IInv, TypeOK
<1>6. NothingLost' /\ NoPhantoms' /\ CommittedBegan' /\ PriorsOlder'
  BY <1>1, <1>3, <1>4
     DEF IInv, NothingLost, NoPhantoms, CommittedBegan, PriorsOlder, Older
<1>7. ClaimsExclusive'
  <2>1. \A c \in Drains \ {d} : Held(c) \subseteq Undispatched'
    BY <1>1, <1>4 DEF IInv, ClaimsExclusive, Undispatched
  <2>. QED
    BY <1>2, <2>1 DEF IInv, ClaimsExclusive
<1>8. ListsApart'
  BY <1>2, <1>3 DEF IInv, ListsApart
<1>9. DuplicatesPaidFor'
  <2>1. \A e \in Events : Settled(e)' <=> Settled(e)
    BY <1>1, <1>2 DEF Settled
  <2>. QED
    BY <1>1, <1>3, <2>1 DEF IInv, DuplicatesPaidFor
<1>10. PriorsClaimed'
  <2>. SUFFICES ASSUME faults = 0, NEW c \in Drains \ {d}
                PROVE  /\ failed[c] = {}
                       /\ \A f \in todo[c] : \A e \in priors[f] \ Published :
                             e \in todo[c] \/ \E b \in Drains \ {c} : e \in Held(b)'
    BY <1>1, <1>2, <1>3 DEF PriorsClaimed
  <2>1. Held(d) \subseteq Published
    BY <1>1, <1>4 DEF IInv, PriorsClaimed, Held
  <2>2. failed[c] = {} /\ \A f \in todo[c] : \A e \in priors[f] \ Published :
            e \in todo[c] \/ \E b \in Drains \ {c} : e \in Held(b)
    BY DEF IInv, PriorsClaimed
  <2>. QED
    BY <1>2, <2>1, <2>2
<1>. QED
  BY <1>5, <1>6, <1>7, <1>8, <1>9, <1>10 DEF IInv

\* A drain that dies may take the settling copy back: the fault pays for it.
LEMMA AbortInv ==
    ASSUME IInv, NEW d \in Drains, Abort(d)
    PROVE  IInv'
<1>1. /\ UNCHANGED <<rows, stream>>
      /\ faults < MaxFaults
      /\ faults' = faults + 1
      /\ Release(d)
  BY DEF Abort
<1>2. /\ todo' \in [Drains -> SUBSET Events]
      /\ sent' \in [Drains -> SUBSET Events]
      /\ failed' \in [Drains -> SUBSET Events]
      /\ todo'[d] = {} /\ sent'[d] = {} /\ failed'[d] = {}
      /\ Held(d)' = {}
      /\ \A c \in Drains \ {d} : /\ todo'[c] = todo[c]
                                 /\ sent'[c] = sent[c]
                                 /\ failed'[c] = failed[c]
                                 /\ Held(c)' = Held(c)
  BY <1>1, Released DEF IInv
<1>3. /\ Published' = Published
      /\ \A e : Copies(e)' = Copies(e)
  BY <1>1 DEF Published, Copies
<1>4. faults \in Nat /\ faults' # 0 /\ faults' \in 0..MaxFaults
  BY <1>1, BoundsAssumption DEF IInv, TypeOK
<1>5. TypeOK'
  BY <1>1, <1>2, <1>4 DEF IInv, TypeOK, rows
<1>6. NothingLost' /\ NoPhantoms' /\ CommittedBegan' /\ PriorsOlder'
  BY <1>1, <1>3
     DEF IInv, NothingLost, NoPhantoms, CommittedBegan, PriorsOlder, Older, rows
<1>7. ClaimsExclusive'
  BY <1>1, <1>2 DEF IInv, ClaimsExclusive, Undispatched, rows
<1>8. ListsApart'
  BY <1>2, <1>3 DEF IInv, ListsApart
<1>9. DuplicatesPaidFor'
  <2>. SUFFICES ASSUME NEW e \in Events
                PROVE  Cardinality(Copies(e)) <= faults + 1
                                                 + (IF Settled(e)' THEN 1 ELSE 0)
    BY <1>1, <1>3 DEF DuplicatesPaidFor
  <2>1. Cardinality(Copies(e)) <= faults + (IF Settled(e) THEN 1 ELSE 0)
    BY DEF IInv, DuplicatesPaidFor
  <2>2. Cardinality(Copies(e)) \in Nat
    BY CopiesFinite DEF IInv, TypeOK
  <2>. QED
    BY <1>4, <2>1, <2>2
<1>10. PriorsClaimed'
  BY <1>4 DEF PriorsClaimed
<1>. QED
  BY <1>5, <1>6, <1>7, <1>8, <1>9, <1>10 DEF IInv

\* Steps of the environment leave the invariant alone.
LEMMA StutterInv ==
    ASSUME IInv, UNCHANGED vars
    PROVE  IInv'
<1>1. /\ UNCHANGED <<now, createdAt, committed, dispatched, attempts, priors>>
      /\ UNCHANGED <<stream, todo, sent, failed, faults>>
  BY DEF vars, rows, locals
<1>2. /\ \A d \in Drains : Held(d)' = Held(d)
      /\ Published' = Published
      /\ \A e : Copies(e)' = Copies(e)
      /\ \A e : Settled(e)' <=> Settled(e)
  BY <1>1 DEF Held, Published, Copies, Settled
<1>3. TypeOK' /\ NothingLost' /\ NoPhantoms' /\ CommittedBegan'
  BY <1>1, <1>2 DEF IInv, TypeOK, NothingLost, NoPhantoms, CommittedBegan
<1>4. ClaimsExclusive'
  BY <1>1, <1>2 DEF IInv, ClaimsExclusive, Undispatched
<1>5. ListsApart' /\ DuplicatesPaidFor'
  BY <1>1, <1>2 DEF IInv, ListsApart, DuplicatesPaidFor
<1>6. PriorsOlder' /\ PriorsClaimed'
  BY <1>1, <1>2 DEF IInv, PriorsOlder, PriorsClaimed, Older
<1>. QED
  BY <1>3, <1>4, <1>5, <1>6 DEF IInv

\* Claims of overlapping drains are exclusive, marks only follow publishes, and
\* copies are paid for, whatever fails.
THEOREM Invariance == Spec => []IInv
<1>1. IInv /\ [Next]_vars => IInv'
  <2>. SUFFICES ASSUME IInv, [Next]_vars PROVE IInv'
    OBVIOUS
  <2>1. ASSUME NEW e \in Events, InsertOutboxEvent(e) PROVE IInv'
    BY <2>1, InsertInv
  <2>2. ASSUME NEW e \in Events, CommitDomain(e) PROVE IInv'
    BY <2>2, CommitInv
  <2>3. ASSUME NEW d \in Drains, Claim(d) PROVE IInv'
    BY <2>3, ClaimInv
  <2>4. ASSUME NEW d \in Drains, NEW e \in Events, PublishEvent(d, e) PROVE IInv'
    BY <2>4, PublishInv
  <2>5. ASSUME NEW d \in Drains, NEW e \in Events, PublishFails(d, e) PROVE IInv'
    BY <2>5, PublishFailsInv
  <2>6. ASSUME NEW d \in Drains, Finish(d) PROVE IInv'
    BY <2>6, FinishInv
  <2>7. ASSUME NEW d \in Drains, Abort(d) PROVE IInv'
    BY <2>7, AbortInv
  <2>. QED
    BY <2>1, <2>2, <2>3, <2>4, <2>5, <2>6, <2>7, StutterInv DEF Next, Run
<1>. QED
  BY InitInv, <1>1, PTL DEF Spec

-----------------------------------------------------------------------------
(* What the invariant says of the outbox. *)

\* A subscriber sees no more further copies of an event than there were faults.
THEOREM DuplicatesPaid == Spec => []DuplicatesPaidFor
<1>1. IInv => DuplicatesPaidFor
  BY DEF IInv
<1>. QED
  BY Invariance, <1>1, PTL

\* Without a fault, an event that is published follows every event that was
\* committed before its transaction began, unless another drain holds that one.
THEOREM Ordered == Spec => NoOvertaking
<1>. DEFINE Step ==
       \A d \in Drains, f \in Events :
          faults' = 0 /\ f \in todo[d] \ todo'[d] =>
              \A e \in priors[f] \ Published :
                  \E c \in Drains \ {d} : e \in Held(c)
<1>1. IInv /\ [Next]_vars => [Step]_vars
  <2>. SUFFICES ASSUME IInv, Next, NEW d \in Drains, NEW f \in Events,
                       faults' = 0, f \in todo[d], f \notin todo'[d],
                       NEW e \in priors[f], e \notin Published
                PROVE  \E c \in Drains \ {d} : e \in Held(c)
    OBVIOUS
  <2>. faults \in Nat /\ todo \in [Drains -> SUBSET Events]
    BY BoundsAssumption DEF IInv, TypeOK
  <2>1. ASSUME NEW g \in Events, InsertOutboxEvent(g) \/ CommitDomain(g) PROVE FALSE
    BY <2>1 DEF InsertOutboxEvent, CommitDomain, locals
  <2>2. ASSUME NEW c \in Drains, Claim(c) PROVE FALSE
    <3>1. todo[c] = {}
      BY <2>2 DEF Claim, Idle, Held
    <3>. QED
      BY <2>2, <3>1 DEF Claim
  <2>3. ASSUME NEW c \in Drains, NEW g \in Events, PublishFails(c, g) PROVE FALSE
    BY <2>3 DEF PublishFails
  <2>4. ASSUME NEW c \in Drains, Abort(c) PROVE FALSE
    BY <2>4 DEF Abort
  <2>5. ASSUME NEW c \in Drains, Finish(c) PROVE FALSE
    BY <2>5 DEF Finish, Release
  <2>6. ASSUME NEW c \in Drains, NEW g \in Events, PublishEvent(c, g)
        PROVE  \E b \in Drains \ {d} : e \in Held(b)
    <3>1. c = d /\ g = f
      BY <2>6 DEF PublishEvent
    <3>2. Turn(d, f) /\ faults = 0
      BY <2>6, <3>1 DEF PublishEvent
    <3>3. Older(e, f) /\ ~ Older(f, e) /\ e # f
      BY DEF IInv, TypeOK, PriorsOlder, Older
    <3>4. e \notin todo[d]
      BY <3>2, <3>3 DEF Turn
    <3>. QED
      BY <3>2, <3>4 DEF IInv, PriorsClaimed
  <2>. QED
    BY <2>1, <2>2, <2>3, <2>4, <2>5, <2>6 DEF Next, Run
<1>. QED
  BY Invariance, <1>1, PTL DEF Spec, NoOvertaking

-----------------------------------------------------------------------------
(* The refinement. *)

\* Every step of the outbox is a step of the event stream, or none: only events
\* of committed transactions are delivered, only delivered ones are retired.
THEOREM ImplementsStream == Spec => Stream!Safety
<1>1. Init => Stream!Init
  BY DEF Init, Stream!Init, Published
<1>2. IInv /\ [Next]_vars => [Stream!Next]_(Stream!streamVars)
  <2>. SUFFICES ASSUME IInv, [Next]_vars
                PROVE  Stream!Next \/ UNCHANGED <<committed, Published, dispatched>>
    BY DEF Stream!streamVars
  <2>1. ASSUME NEW e \in Events, InsertOutboxEvent(e)
        PROVE  UNCHANGED <<committed, Published, dispatched>>
    BY <2>1 DEF InsertOutboxEvent, Published
  <2>2. ASSUME NEW e \in Events, CommitDomain(e) PROVE Stream!Accept(e)
    BY <2>2 DEF CommitDomain, Stream!Accept, Published
  <2>3. ASSUME NEW d \in Drains, Claim(d)
        PROVE  UNCHANGED <<committed, Published, dispatched>>
    BY <2>3 DEF Claim, rows, Published
  <2>4. ASSUME NEW d \in Drains, NEW e \in Events, PublishEvent(d, e)
        PROVE  Stream!Deliver(e)
    <3>1. stream \in Seq(Events) /\ stream' = Append(stream, e) /\ UNCHANGED rows
      BY <2>4 DEF PublishEvent, IInv, TypeOK
    <3>2. e \in committed
      BY <2>4, TurnUnsettled DEF PublishEvent
    <3>3. Published' = Published \cup {e}
      BY <3>1, AppendPublishes
    <3>. QED
      BY <3>1, <3>2, <3>3 DEF Stream!Deliver, rows
  <2>5. ASSUME NEW d \in Drains, NEW e \in Events, PublishFails(d, e)
        PROVE  Stream!Deliver(e) \/ UNCHANGED <<committed, Published, dispatched>>
    <3>1. /\ stream \in Seq(Events)
          /\ stream' = stream \/ stream' = Append(stream, e)
          /\ UNCHANGED rows
      BY <2>5 DEF PublishFails, IInv, TypeOK
    <3>2. e \in committed
      BY <2>5, TurnUnsettled DEF PublishFails
    <3>3. Published' = Published \/ Published' = Published \cup {e}
      <4>1. CASE stream' = stream
        BY <4>1 DEF Published
      <4>2. CASE stream' = Append(stream, e)
        BY <3>1, <4>2, AppendPublishes
      <4>. QED
        BY <3>1, <4>1, <4>2
    <3>. QED
      BY <3>1, <3>2, <3>3 DEF Stream!Deliver, rows
  <2>6. ASSUME NEW d \in Drains, Finish(d) PROVE Stream!Retire(sent[d])
    BY <2>6 DEF Finish, IInv, ListsApart, Published, Stream!Retire
  <2>7. ASSUME NEW d \in Drains, Abort(d)
        PROVE  UNCHANGED <<committed, Published, dispatched>>
    BY <2>7 DEF Abort, rows, Published
  <2>8. CASE UNCHANGED vars
    BY <2>8 DEF vars, rows, Published
  <2>9. \A d \in Drains : sent[d] \in SUBSET Events
    BY DEF IInv, TypeOK
  <2>. QED
    BY <2>1, <2>2, <2>3, <2>4, <2>5, <2>6, <2>7, <2>8, <2>9
       DEF Next, Run, Stream!Next
<1>. QED
  BY Invariance, <1>1, <1>2, PTL DEF Spec, Stream!Safety
=============================================================================
