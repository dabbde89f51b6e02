---------------------------- MODULE LedgerProofs ----------------------------
(***************************************************************************)
(* The write path implements the ledger of outcomes, hands no entry to two *)
(* workers as long as the consumer group survives, loses nothing it has    *)
(* accepted without a reason that can be named, and comes to an end of its *)
(* work.                                                                   *)
(***************************************************************************)
EXTENDS IngestionProofs, FiniteSetTheorems

(***************************************************************************)
(* Refinement                                                              *)
(***************************************************************************)

\* Nothing is known of an event that was not published.
Unheard ==
  \A e \in Events : pub[e] = "unsent" =>
    /\ logs[e] = Absent
    /\ e \notin dead
    /\ \A i \in Entries : stream[i] # e

\* What any step may do to the traces an event leaves.
Traces ==
  \A e \in Events :
    /\ logs[e] # Absent => logs'[e] # Absent
    /\ e \in dead => e \in dead'
    /\ (logs[e] = Absent /\ logs'[e] # Absent) => HasCopy(e)
    /\ (e \in dead' /\ e \notin dead) => HasCopy(e)
    /\ pub[e] # "unsent" => pub'[e] # "unsent"
    /\ (pub[e] # "unsent" /\ HasCopy(e)') => HasCopy(e)
    /\ (pub[e] = "unsent" /\ pub'[e] # "unsent") => logs' = logs /\ dead' = dead
    /\ pub'[e] = "unsent" => \A i \in Entries' : stream'[i] = e => i \in Entries /\ stream[i] = e

\* A payload in a worker's hands is a copy.
LEMMA HandIsCopy ==
  ASSUME TypeOK, NEW w \in Workers, batch[w] # {}
  PROVE  HasCopy(Event(w))
<1>1. Current(w) \in batch[w]
  BY CurrentType
<1> QED
  BY <1>1 DEF HasCopy, InHand, Event

\* Steps that neither publish, nor settle: copies only get fewer.
LEMMA CopiesOnly ==
  ASSUME TypeOK, UNCHANGED <<stream, dead, logs, pub>>, trimmed' >= trimmed, trimmed' \in Int,
         \A w \in Workers : batch'[w] \subseteq batch[w] \cup Retained
  PROVE  Traces
<1>1. \A e \in Events : HasCopy(e)' => HasCopy(e)
  <2>1. trimmed \in Int
    BY LenProperties DEF TypeOK
  <2> QED
    BY <2>1 DEF HasCopy, InHand, Retained, Entries, TypeOK
<1> QED
  BY <1>1 DEF Traces, Entries

\* Steps of a worker that may settle the event in its hands.
LEMMA SettlingOnly ==
  ASSUME TypeOK, NEW w \in Workers, batch[w] # {},
         UNCHANGED <<stream, trimmed, pub>>,
         \A v \in Workers : batch'[v] \subseteq batch[v],
         dead' = dead \/ DeadLetter(Event(w)),
         logs' = logs \/ CommitEvent(Event(w))
  PROVE  Traces
<1>1. HasCopy(Event(w)) /\ Event(w) \in Events
  BY HandIsCopy, CurrentType
<1>2. PICK e \in Events : e = Event(w)
  BY <1>1
<1>3. \A f \in Events : logs'[f] = logs[f] \/ (f = e /\ logs[f] = Absent /\ logs'[f] # Absent)
  BY <1>2, ConvAssumption DEF CommitEvent, TypeOK
<1>4. \A f \in Events : f \in dead' <=> (f \in dead \/ (f = e /\ f \in dead'))
  BY <1>2 DEF DeadLetter
<1>5. dead \subseteq dead'
  BY DEF DeadLetter
<1>6. \A f \in Events : HasCopy(f)' => HasCopy(f)
  BY DEF HasCopy, InHand, Retained, Entries
<1> QED
  BY <1>1, <1>2, <1>3, <1>4, <1>5, <1>6 DEF Traces, Entries

\* Publishing adds copies of its own event only.
LEMMA PublishTraces ==
  ASSUME TypeOK, NEW f \in Events, PublishAccepted(f) \/ PublishFaulty(f)
  PROVE  Traces
<1>1. PICK copies \in {<<>>, <<f>>, <<f, f>>} : Add(copies)
  <2>1. CASE PublishAccepted(f)
    BY <2>1, Zenon DEF PublishAccepted
  <2>2. CASE PublishFaulty(f)
    BY <2>2, Zenon DEF PublishFaulty
  <2> QED
    BY <2>1, <2>2
<1>2. /\ copies \in Seq(Events)
      /\ \A i \in 1 .. Len(copies) : copies[i] = f
  <2>1. CASE copies = <<>>
    BY <2>1
  <2>2. CASE copies = <<f>>
    BY <2>2
  <2>3. CASE copies = <<f, f>>
    BY <2>3
  <2> QED
    BY <1>1, <2>1, <2>2, <2>3
<1>3. /\ \A i \in Entries : stream'[i] = stream[i]
      /\ trimmed' >= trimmed /\ trimmed' \in Int /\ trimmed \in Int
  BY <1>1, <1>2, AddType, LenProperties DEF TypeOK
<1>4. \A i \in Entries' : i \in Entries \/ stream'[i] = f
  <2>1. SUFFICES ASSUME NEW i \in Entries', i \notin Entries
                 PROVE  stream'[i] = f
    OBVIOUS
  <2>2. /\ stream' = stream \o copies /\ stream \in Seq(Events)
        /\ Len(stream) \in Nat /\ Len(copies) \in Nat
    BY <1>1, <1>2, LenProperties DEF Add, TypeOK
  <2>3. /\ Len(stream') = Len(stream) + Len(copies)
        /\ \A k \in 1 .. Len(stream) + Len(copies) :
             stream'[k] = IF k <= Len(stream) THEN stream[k] ELSE copies[k - Len(stream)]
    BY <1>2, <2>2, ConcatProperties
  <2>4. i \in 1 .. Len(stream) + Len(copies) /\ ~(i <= Len(stream))
    BY <2>1, <2>2, <2>3 DEF Entries
  <2>5. i - Len(stream) \in 1 .. Len(copies) /\ stream'[i] = copies[i - Len(stream)]
    BY <2>2, <2>3, <2>4
  <2> QED
    BY <1>2, <2>5
<1>5. UNCHANGED <<dead, logs, batch>>
  BY DEF PublishAccepted, PublishFaulty, db
<1>6. pub[f] = "unsent" /\ pub'[f] # "unsent" /\ \A e \in Events \ {f} : pub'[e] = pub[e]
  <2>1. CASE PublishAccepted(f)
    BY <2>1 DEF PublishAccepted, TypeOK
  <2>2. CASE PublishFaulty(f)
    BY <2>2 DEF PublishFaulty, TypeOK
  <2> QED
    BY <2>1, <2>2
<1>7. \A e \in Events \ {f} : HasCopy(e)' => HasCopy(e)
  <2>1. SUFFICES ASSUME NEW e \in Events \ {f}, HasCopy(e)'
                 PROVE  HasCopy(e)
    OBVIOUS
  <2>2. CASE \E i \in Retained' : stream'[i] = e
    <3>1. PICK i \in Retained' : stream'[i] = e
      BY <2>2
    <3>2. i \in Entries' /\ i > trimmed'
      BY <3>1 DEF Retained
    <3>3. i \in Entries /\ stream[i] = e
      BY <1>3, <1>4, <2>1, <3>1, <3>2
    <3>4. i \in Retained
      <4>1. i \in Int
        BY <3>3, LenProperties DEF Entries, TypeOK
      <4> QED
        BY <1>3, <3>2, <3>3, <4>1 DEF Retained
    <3> QED
      BY <3>3, <3>4 DEF HasCopy, InHand
  <2>3. CASE \E w \in Workers : \E i \in batch'[w] : stream'[i] = e
    <3>1. PICK w \in Workers : \E i \in batch[w] : stream'[i] = e
      BY <1>5, <2>3
    <3>2. \E i \in batch[w] : stream[i] = e
      BY <1>3, <3>1 DEF TypeOK
    <3> QED
      BY <3>2 DEF HasCopy, InHand
  <2> QED
    BY <2>1, <2>2, <2>3 DEF HasCopy, InHand
<1>8. \A e \in Events \ {f} : \A i \in Entries' : stream'[i] = e => i \in Entries /\ stream[i] = e
  BY <1>3, <1>4
<1> QED
  BY <1>5, <1>6, <1>7, <1>8 DEF Traces

\* Every step of the write path leaves the traces in order.
LEMMA StepTraces ==
  ASSUME TypeInv, [Next]_vars
  PROVE  Traces
<1>1. ASSUME NEW e \in Events, PublishAccepted(e) \/ PublishFaulty(e)
      PROVE  Traces
  BY <1>1, PublishTraces DEF TypeInv
<1>2. ASSUME NEW c \in Convs, DeleteConversation(c)
      PROVE  Traces
  <2>1. /\ UNCHANGED <<stream, trimmed, dead, pub, batch>>
        /\ logs' = [e \in Events |-> IF logs[e] = c THEN NoConv ELSE logs[e]]
    BY <1>2 DEF DeleteConversation, redis
  <2>2. \A e \in Events : logs'[e] = Absent <=> logs[e] = Absent
    BY <2>1, ConvAssumption
  <2>3. \A e \in Events : HasCopy(e)' => HasCopy(e)
    BY <2>1 DEF HasCopy, InHand, Retained, Entries
  <2> QED
    BY <2>1, <2>2, <2>3 DEF Traces, Entries
<1>3. ASSUME NEW w \in Workers, WorkerStep(w)
      PROVE  Traces
  <2>1. CASE \/ Start(w) \/ EnsureGroup(w) \/ Exit(w) \/ PollNoGroup(w) \/ Choke(w)
             \/ Record(w) \/ Upsert(w) \/ UpsertOrphan(w) \/ MarkProcessed(w)
             \/ MarkFailed(w) \/ Ack(w) \/ Resume(w)
    <3>1. /\ UNCHANGED <<stream, trimmed, dead, logs, pub>>
          /\ \A v \in Workers : batch'[v] \subseteq batch[v]
      BY <2>1 DEF TypeInv, TypeOK, redis, db, Start, EnsureGroup, Exit, PollNoGroup, Choke,
         Record, Upsert, UpsertOrphan, MarkProcessed, MarkFailed, Ack, Resume, Abort
    <3>2. trimmed \in Int
      BY LenProperties DEF TypeInv, TypeOK
    <3> QED
      BY <3>1, <3>2, CopiesOnly DEF TypeInv
  <2>2. CASE Poll(w)
    <3>1. /\ UNCHANGED <<stream, trimmed, dead, logs, pub>>
          /\ \A v \in Workers : batch'[v] \subseteq batch[v] \cup Unread
      BY <2>2 DEF Poll, db, TypeInv, TypeOK
    <3>2. trimmed \in Nat /\ Len(stream) \in Nat
      BY LenProperties DEF TypeInv, TypeOK
    <3>3. Unread \subseteq Retained
      <4>1. /\ Floor \in Nat /\ Floor >= trimmed
            /\ Ceiling \in Nat /\ Unread \subseteq Entries
        BY <3>2, UnreadType DEF TypeInv
      <4> QED
        BY <3>2, <4>1 DEF Unread, Retained
    <3> QED
      BY <3>1, <3>2, <3>3, CopiesOnly DEF TypeInv
  <2>3. CASE Divert(w) \/ DivertRejected(w) \/ Commit(w)
    <3>1. /\ UNCHANGED <<stream, trimmed, pub, batch>>
          /\ dead' = dead \/ DeadLetter(Event(w))
          /\ logs' = logs \/ CommitEvent(Event(w))
      BY <2>3 DEF Divert, DivertRejected, Commit, redis, db
    <3>2. batch[w] # {}
      BY <2>3 DEF Divert, DivertRejected, Commit, TypeInv, BusyHasBatch, Handling
    <3> QED
      BY <3>1, <3>2, SettlingOnly DEF TypeInv
  <2> QED
    BY <1>3, <2>1, <2>2, <2>3 DEF WorkerStep
<1>4. ASSUME NEW w \in Workers,
             RequestStop(w) \/ Crash(w) \/ DbFails(w) \/ RedisFails(w) \/ RedisReplyLost(w)
      PROVE  Traces
  <2>1. /\ UNCHANGED <<stream, trimmed, pub>>
        /\ \A v \in Workers : batch'[v] \subseteq batch[v]
    BY <1>4 DEF TypeInv, TypeOK, redis, db, RequestStop, Crash, DbFails, RedisFails,
       RedisReplyLost, Abort
  <2>2. trimmed \in Int
    BY LenProperties DEF TypeInv, TypeOK
  <2>3. CASE UNCHANGED <<dead, logs>>
    BY <2>1, <2>2, <2>3, CopiesOnly DEF TypeInv
  <2>4. CASE ~UNCHANGED <<dead, logs>>
    <3>1. /\ dead' = dead \/ DeadLetter(Event(w))
          /\ logs' = logs \/ CommitEvent(Event(w))
          /\ pc[w] \in Handling
      BY <1>4, <2>4 DEF RequestStop, Crash, DbFails, RedisFails, RedisReplyLost, redis, db, Handling
    <3>2. batch[w] # {}
      BY <3>1 DEF TypeInv, BusyHasBatch
    <3> QED
      BY <2>1, <3>1, <3>2, SettlingOnly DEF TypeInv
  <2> QED
    BY <2>3, <2>4
<1>5. CASE LoseGroup \/ LoseStream
  <2>1. UNCHANGED <<stream, dead, logs, pub, batch>>
    BY <1>5 DEF LoseGroup, LoseStream, db
  <2>2. trimmed' >= trimmed /\ trimmed' \in Int
    BY <1>5, LenProperties DEF LoseGroup, LoseStream, TypeInv, TypeOK
  <2> QED
    BY <2>1, <2>2, CopiesOnly DEF TypeInv
<1>6. CASE UNCHANGED vars
  <2>1. UNCHANGED <<stream, trimmed, dead, logs, pub, batch>>
    BY <1>6 DEF vars, redis, db
  <2>2. trimmed \in Int
    BY LenProperties DEF TypeInv, TypeOK
  <2> QED
    BY <2>1, <2>2, CopiesOnly DEF TypeInv
<1> QED
  BY <1>1, <1>2, <1>3, <1>4, <1>5, <1>6 DEF Next

\* What is unheard of stays so until it is published.
LEMMA UnheardStep ==
  ASSUME TypeOK, Unheard, Traces
  PROVE  Unheard'
<1> SUFFICES ASSUME NEW e \in Events, pub'[e] = "unsent"
             PROVE  /\ logs'[e] = Absent
                    /\ e \notin dead'
                    /\ \A i \in Entries' : stream'[i] # e
  BY DEF Unheard
<1>1. pub[e] = "unsent"
  BY DEF Traces
<1>2. /\ logs[e] = Absent /\ e \notin dead
      /\ \A i \in Entries : stream[i] # e
  BY <1>1 DEF Unheard
<1>3. ~HasCopy(e)
  BY <1>2 DEF HasCopy, InHand, Retained, TypeOK
<1> QED
  BY <1>2, <1>3 DEF Traces

\* Every step moves each event along at most one edge of the ledger.
LEMMA EdgeStep ==
  ASSUME SafeInv, SafeInv', Unheard, Traces, NEW e \in Events
  PROVE  \/ Status(e)' = Status(e)
         \/ <<Status(e), Status(e)'>> \in L!Edges
<1>1. /\ logs[e] # Absent => e \notin dead
      /\ e \in dead => logs[e] = Absent
  BY DEF SafeInv, OutcomesAgree
<1>2. CASE pub[e] = "unsent"
  <2>1. logs[e] = Absent /\ e \notin dead /\ Status(e) = "new"
    BY <1>2 DEF Unheard, Status
  <2>2. CASE pub'[e] = "unsent"
    BY <2>1, <2>2 DEF Status
  <2>3. CASE pub'[e] # "unsent"
    <3>1. logs'[e] = Absent /\ e \notin dead'
      BY <1>2, <2>1, <2>3 DEF Traces
    <3> QED
      BY <2>1, <2>3, <3>1 DEF Status, L!Edges
  <2> QED
    BY <2>2, <2>3
<1>3. CASE pub[e] # "unsent"
  <2>1. pub'[e] # "unsent"
    BY <1>3 DEF Traces
  <2>2. CASE logs[e] # Absent
    <3>1. Status(e) = "recorded" /\ logs'[e] # Absent
      BY <1>3, <2>2 DEF Status, Traces
    <3> QED
      BY <2>1, <3>1 DEF Status
  <2>3. CASE logs[e] = Absent /\ e \in dead
    <3>1. Status(e) = "rejected" /\ e \in dead'
      BY <1>3, <2>3 DEF Status, Traces
    <3>2. logs'[e] = Absent
      BY <3>1 DEF SafeInv, OutcomesAgree
    <3> QED
      BY <2>1, <3>1, <3>2 DEF Status
  <2>4. CASE logs[e] = Absent /\ e \notin dead /\ HasCopy(e)
    <3>1. Status(e) = "queued"
      BY <1>3, <2>4 DEF Status
    <3>2. Status(e)' \in {"recorded", "rejected", "queued", "lost"}
      BY <2>1 DEF Status
    <3> QED
      BY <3>1, <3>2 DEF L!Edges
  <2>5. CASE logs[e] = Absent /\ e \notin dead /\ ~HasCopy(e)
    <3>1. logs'[e] = Absent /\ e \notin dead' /\ ~HasCopy(e)'
      BY <1>3, <2>5 DEF Traces
    <3> QED
      BY <1>3, <2>1, <2>5, <3>1 DEF Status
  <2> QED
    BY <2>2, <2>3, <2>4, <2>5
<1> QED
  BY <1>2, <1>3

\* Reading a payload off the stream, writing it to Postgres and diverting it
\* are, seen from one event, the edges of the ledger: an event has at most one
\* outcome and keeps it.
THEOREM OneOutcomeHolds == Spec => OneOutcome
<1> DEFINE Inv == SafeInv /\ Unheard
<1>1. Init => Inv
  <2>1. Init => Unheard
    BY DEF Init, Unheard, Entries
  <2> QED
    BY <2>1, SafeInit
<1>2. Inv /\ [Next]_vars => Inv'
  BY SafeStep, StepTraces, UnheardStep DEF SafeInv, TypeInv
<1>3. Init => L!Init
  BY DEF Init, L!Init, Status
<1>4. Inv /\ Inv' /\ [Next]_vars => [L!Next]_([e \in Events |-> Status(e)])
  <2> SUFFICES ASSUME Inv, [Next]_vars
               PROVE  L!Next
    OBVIOUS
  <2>1. Traces
    BY StepTraces DEF SafeInv
  <2>2. \A e \in Events : Status(e)' = Status(e) \/ <<Status(e), Status(e)'>> \in L!Edges
    BY <2>1, SafeStep, EdgeStep
  <2>3. \A e \in Events : Status(e)' \in L!Status
    BY DEF Status, L!Status
  <2> QED
    BY <2>2, <2>3 DEF L!Next
<1> QED
  BY <1>1, <1>2, <1>3, <1>4, PTL DEF Spec, OneOutcome, L!Spec

(***************************************************************************)
(* Exclusive delivery                                                      *)
(***************************************************************************)

\* As long as the group lives, what workers hold was delivered to them and to
\* nobody else.
Delivered ==
  /\ ~group => cursor = 0
  /\ \A w \in Workers : \A i \in batch[w] : i <= cursor

ExclusiveInv == TypeInv /\ Delivered /\ ExclusiveDelivery

\* Steps that hand out nothing and do not turn back the cursor.
LEMMA NothingHandedOut ==
  ASSUME ExclusiveInv, \A w \in Workers : batch'[w] \subseteq batch[w],
         UNCHANGED <<group, cursor>>
  PROVE  Delivered' /\ ExclusiveDelivery'
<1>1. Delivered'
  BY DEF ExclusiveInv, Delivered
<1>2. ExclusiveDelivery'
  BY DEF ExclusiveInv, ExclusiveDelivery
<1> QED
  BY <1>1, <1>2

\* Each entry goes to exactly one consumer: two workers never hold the same
\* entry, unless the group or the stream was lost and read again.
THEOREM DeliveryIsExclusive ==
  ASSUME "group" \notin Faults, "stream" \notin Faults
  PROVE  Spec => []ExclusiveDelivery
<1>1. Init => ExclusiveInv
  <2> SUFFICES ASSUME Init PROVE ExclusiveInv
    OBVIOUS
  <2>1. TypeInv
    BY TypeInit
  <2>2. Delivered /\ ExclusiveDelivery
    BY DEF Init, Delivered, ExclusiveDelivery
  <2> QED
    BY <2>1, <2>2 DEF ExclusiveInv
<1>2. ExclusiveInv /\ [Next]_vars => ExclusiveInv'
  <2> SUFFICES ASSUME ExclusiveInv, [Next]_vars
               PROVE  Delivered' /\ ExclusiveDelivery'
    BY TypeStep DEF ExclusiveInv
  <2>0. TypeOK
    BY DEF ExclusiveInv, TypeInv
  <2>1. ASSUME NEW e \in Events, PublishAccepted(e) \/ PublishFaulty(e)
        PROVE  Delivered' /\ ExclusiveDelivery'
    <3>1. UNCHANGED <<group, cursor, batch>>
      BY <2>1 DEF PublishAccepted, PublishFaulty
    <3> QED
      BY <3>1, NothingHandedOut
  <2>2. ASSUME NEW c \in Convs, DeleteConversation(c)
        PROVE  Delivered' /\ ExclusiveDelivery'
    <3>1. UNCHANGED <<group, cursor, batch>>
      BY <2>2 DEF DeleteConversation, redis
    <3> QED
      BY <3>1, NothingHandedOut
  <2>3. ASSUME NEW w \in Workers, ReadNew, group' = group, group,
               \A v \in Workers \ {w} : batch'[v] = batch[v],
               batch'[w] \subseteq Unread
        PROVE  Delivered' /\ ExclusiveDelivery'
    <3>1. /\ Len(stream) \in Nat /\ cursor \in Nat
          /\ Floor \in Nat /\ Ceiling \in Nat /\ Floor >= cursor
          /\ Ceiling >= Floor /\ Unread \subseteq Nat
      BY <2>0, UnreadType, LenProperties DEF TypeOK, Entries
    <3>2. \A i \in Unread : i > cursor /\ i <= Ceiling
      BY <3>1 DEF Unread
    <3>3. cursor' \in Nat /\ cursor' >= cursor /\ \A i \in Unread : i <= cursor'
      BY <2>3, <3>1, <3>2 DEF ReadNew
    <3>4. \A v \in Workers : batch[v] \subseteq Nat /\ \A i \in batch[v] : i <= cursor
      BY <2>0 DEF ExclusiveInv, Delivered, TypeOK, Entries
    <3>5. Delivered'
      <4>1. SUFFICES ASSUME NEW v \in Workers, NEW i \in batch'[v]
                     PROVE  i <= cursor'
        BY <2>3 DEF Delivered
      <4>2. CASE v = w
        BY <2>3, <3>3, <4>2
      <4>3. CASE v # w
        <5>1. i \in Nat /\ i <= cursor
          BY <2>3, <3>4, <4>3
        <5> QED
          BY <3>1, <3>3, <5>1
      <4> QED
        BY <4>2, <4>3
    <3>6. ExclusiveDelivery'
      <4>1. SUFFICES ASSUME NEW u \in Workers, NEW v \in Workers, u # v,
                            NEW i \in batch'[u], i \in batch'[v]
                     PROVE  FALSE
        BY DEF ExclusiveDelivery
      <4>2. CASE u = w \/ v = w
        <5>1. i \in Unread /\ \E x \in Workers : i \in batch[x]
          BY <2>3, <4>1, <4>2
        <5> QED
          BY <3>1, <3>2, <3>4, <5>1
      <4>3. CASE u # w /\ v # w
        BY <2>3, <4>1, <4>3 DEF ExclusiveInv, ExclusiveDelivery
      <4> QED
        BY <4>2, <4>3
    <3> QED
      BY <3>5, <3>6
  <2>4. ASSUME NEW w \in Workers, WorkerStep(w)
        PROVE  Delivered' /\ ExclusiveDelivery'
    <3>1. CASE EnsureGroup(w)
      <4>1. batch' = batch /\ CreateGroup
        BY <3>1 DEF EnsureGroup
      <4>2. cursor' = cursor
        BY <4>1 DEF CreateGroup, ExclusiveInv, Delivered
      <4>3. group' /\ ExclusiveDelivery'
        BY <4>1 DEF CreateGroup, ExclusiveInv, ExclusiveDelivery
      <4> QED
        BY <4>1, <4>2, <4>3 DEF ExclusiveInv, Delivered
    <3>2. CASE Poll(w)
      <4>1. /\ ReadNew /\ group' = group /\ group
            /\ \A v \in Workers \ {w} : batch'[v] = batch[v]
            /\ batch'[w] \subseteq Unread
        BY <2>0, <3>2 DEF Poll, TypeOK
      <4> QED
        BY <2>3, <4>1
    <3>3. CASE ~EnsureGroup(w) /\ ~Poll(w)
      <4>1. UNCHANGED <<group, cursor>> /\ \A v \in Workers : batch'[v] \subseteq batch[v]
        BY <2>0, <2>4, <3>3 DEF WorkerStep, TypeOK, redis, Start, Exit, PollNoGroup, Divert,
           Choke, Record, Upsert, UpsertOrphan, MarkProcessed, MarkFailed, DivertRejected,
           Commit, Ack, Resume, Abort
      <4> QED
        BY <4>1, NothingHandedOut
    <3> QED
      BY <3>1, <3>2, <3>3
  <2>5. ASSUME NEW w \in Workers,
               RequestStop(w) \/ Crash(w) \/ DbFails(w) \/ RedisFails(w) \/ RedisReplyLost(w)
        PROVE  Delivered' /\ ExclusiveDelivery'
    <3>1. CASE UNCHANGED <<group, cursor>>
      <4>1. \A v \in Workers : batch'[v] \subseteq batch[v]
        BY <2>0, <2>5 DEF TypeOK, RequestStop, Crash, DbFails, RedisFails, RedisReplyLost, Abort
      <4> QED
        BY <3>1, <4>1, NothingHandedOut
    <3>2. CASE ~UNCHANGED <<group, cursor>>
      <4>1. RedisReplyLost(w) /\ group /\ ReadNew /\ group' = group
        BY <2>5, <3>2 DEF RequestStop, Crash, DbFails, RedisFails, RedisReplyLost, redis
      <4>2. /\ \A v \in Workers \ {w} : batch'[v] = batch[v]
            /\ batch'[w] \subseteq Unread
        BY <2>0, <4>1 DEF RedisReplyLost, Abort, TypeOK
      <4> QED
        BY <2>3, <4>1, <4>2
    <3> QED
      BY <3>1, <3>2
  <2>6. ~LoseGroup /\ ~LoseStream
    BY DEF LoseGroup, LoseStream, Fault
  <2>7. CASE UNCHANGED vars
    BY <2>7, NothingHandedOut DEF vars, redis
  <2> QED
    BY <2>1, <2>2, <2>4, <2>5, <2>6, <2>7 DEF Next
<1>3. ExclusiveInv => ExclusiveDelivery
  BY DEF ExclusiveInv
<1> QED
  BY <1>1, <1>2, <1>3, PTL DEF Spec

(***************************************************************************)
(* What was accepted                                                       *)
(***************************************************************************)

\* An accepted event was added, and trimming keeps the newest entries.
Kept ==
  /\ \A e \in Events : pub[e] = "accepted" => \E i \in Entries : stream[i] = e
  /\ "stream" \in Faults \/ trimmed = 0 \/ trimmed + MaxLen <= Len(stream)

\* Publishing adds what it reports as accepted, and trims what is overrun.
LEMMA PublishKept ==
  ASSUME TypeOK, Kept, NEW f \in Events, PublishAccepted(f) \/ PublishFaulty(f)
  PROVE  Kept'
<1>1. PICK copies \in {<<>>, <<f>>, <<f, f>>} :
        /\ Add(copies)
        /\ pub'[f] = "accepted" => copies # <<>>
        /\ \A e \in Events \ {f} : pub'[e] = pub[e]
  <2>1. CASE PublishAccepted(f)
    BY <2>1 DEF PublishAccepted, TypeOK
  <2>2. CASE PublishFaulty(f)
    <3>1. CASE Add(<<f, f>>) /\ pub' = [pub EXCEPT ![f] = "accepted"]
      BY <3>1 DEF TypeOK
    <3>2. CASE /\ \E copies \in {<<>>, <<f>>, <<f, f>>} : Add(copies)
               /\ pub' = [pub EXCEPT ![f] = "dropped"]
      <4>1. pub'[f] # "accepted" /\ \A e \in Events \ {f} : pub'[e] = pub[e]
        BY <3>2 DEF TypeOK
      <4> QED
        BY <3>2, <4>1
    <3> QED
      BY <2>2, <3>1, <3>2 DEF PublishFaulty
  <2> QED
    BY <2>1, <2>2
<1>2. /\ copies \in Seq(Events) /\ Len(copies) \in Nat
      /\ copies # <<>> => Len(copies) >= 1 /\ copies[1] = f
  <2>1. CASE copies = <<>>
    BY <2>1
  <2>2. CASE copies = <<f>>
    BY <2>2
  <2>3. CASE copies = <<f, f>>
    BY <2>3
  <2> QED
    BY <1>1, <2>1, <2>2, <2>3
<1>3. /\ stream \in Seq(Events) /\ Len(stream) \in Nat /\ trimmed \in Nat
      /\ MaxLen \in Nat
  BY SizeAssumption, LenProperties DEF TypeOK
<1>4. /\ Len(stream') = Len(stream) + Len(copies)
      /\ \A i \in 1 .. Len(stream) + Len(copies) :
           stream'[i] = IF i <= Len(stream) THEN stream[i] ELSE copies[i - Len(stream)]
      /\ trimmed' \in trimmed .. Larger(trimmed, Len(stream') - MaxLen)
  BY <1>1, <1>2, <1>3, ConcatProperties DEF Add
<1>5. ASSUME NEW e \in Events, pub'[e] = "accepted" PROVE \E i \in Entries' : stream'[i] = e
  <2>1. CASE e = f
    <3>1. Len(copies) >= 1 /\ copies[1] = f
      BY <1>1, <1>2, <1>5, <2>1
    <3>2. Len(stream) + 1 \in 1 .. Len(stream) + Len(copies)
      BY <1>2, <1>3, <3>1
    <3>3. stream'[Len(stream) + 1] = f
      <4>1. (Len(stream) + 1) - Len(stream) = 1 /\ ~(Len(stream) + 1 <= Len(stream))
        BY <1>3
      <4> QED
        BY <1>4, <3>1, <3>2, <4>1
    <3> QED
      BY <1>4, <2>1, <3>2, <3>3 DEF Entries
  <2>2. CASE e # f
    <3>1. PICK i \in Entries : stream[i] = e
      BY <1>1, <1>5, <2>2 DEF Kept
    <3>2. i \in 1 .. Len(stream) + Len(copies) /\ i <= Len(stream)
      BY <1>2, <1>3, <3>1 DEF Entries
    <3> QED
      BY <1>4, <3>1, <3>2 DEF Entries
  <2> QED
    BY <2>1, <2>2
<1>6. "stream" \in Faults \/ trimmed' = 0 \/ trimmed' + MaxLen <= Len(stream')
  <2>1. trimmed' = trimmed \/ trimmed' + MaxLen <= Len(stream')
    BY <1>2, <1>3, <1>4 DEF Larger
  <2> QED
    BY <1>2, <1>3, <1>4, <2>1 DEF Kept
<1> QED
  BY <1>5, <1>6 DEF Kept

\* Nothing else adds, reports or trims, but the loss of the stream.
LEMMA KeptStep ==
  ASSUME TypeInv, Kept, [Next]_vars
  PROVE  Kept'
<1>0. TypeOK
  BY DEF TypeInv
<1>1. CASE \E f \in Events : PublishAccepted(f) \/ PublishFaulty(f)
  BY <1>0, <1>1, PublishKept
<1>2. CASE UNCHANGED <<stream, trimmed, pub>>
  BY <1>2 DEF Kept, Entries
<1>3. CASE LoseStream
  BY <1>3 DEF LoseStream, Fault, Kept, Entries
<1>4. ASSUME NEW w \in Workers,
             \/ WorkerStep(w)
             \/ RequestStop(w) \/ Crash(w)
             \/ DbFails(w) \/ RedisFails(w) \/ RedisReplyLost(w)
      PROVE  UNCHANGED <<stream, trimmed, pub>>
  BY <1>4 DEF WorkerStep, Start, EnsureGroup, Exit, Poll, PollNoGroup, Divert, Choke, Record,
     Upsert, UpsertOrphan, MarkProcessed, MarkFailed, DivertRejected, Commit, Ack, Resume,
     RequestStop, Crash, DbFails, RedisFails, RedisReplyLost, redis
<1>5. CASE \/ \E c \in Convs : DeleteConversation(c)
           \/ LoseGroup
           \/ UNCHANGED vars
  BY <1>2, <1>5 DEF DeleteConversation, LoseGroup, vars, redis
<1> QED
  BY <1>1, <1>2, <1>3, <1>4, <1>5 DEF Next

\* Nothing accepted is lost without a trace: an event publish() reported as
\* accepted has its outcome on record, or its entry waits on the stream,
\* unread or pending, or was overrun by newer ones or lost with the stream.
THEOREM NothingAcceptedIsLost == Spec => []AcceptedIsKept
<1>1. Init => Kept
  BY DEF Init, Kept
<1>2. SafeInv /\ Kept /\ [Next]_vars => Kept'
  BY KeptStep DEF SafeInv
<1>3. SafeInv /\ Kept => AcceptedIsKept
  <2> SUFFICES ASSUME SafeInv, Kept, NEW e \in Events, pub[e] = "accepted"
               PROVE  Accounted(e) \/ \E i \in Entries : stream[i] = e /\ (Waiting(i) \/ Overrun(i))
    BY DEF AcceptedIsKept
  <2>1. PICK i \in Entries : stream[i] = e
    BY DEF Kept
  <2>2. /\ i \in Nat /\ i >= 1 /\ trimmed \in Nat /\ cursor \in Nat
        /\ Len(stream) \in Nat /\ MaxLen \in Nat
    BY SizeAssumption, LenProperties DEF SafeInv, TypeInv, TypeOK, Entries
  <2>3. CASE i <= trimmed
    BY <2>1, <2>2, <2>3 DEF Kept, Overrun
  <2>4. CASE i > trimmed
    <3>1. i \in Retained
      BY <2>4 DEF Retained
    <3>2. Accounted(e) \/ i > cursor \/ i \in pel
      BY <2>1, <2>2, <3>1 DEF SafeInv, AckedIsAccounted
    <3> QED
      BY <2>1, <3>1, <3>2 DEF Waiting
  <2>5. i <= trimmed \/ i > trimmed
    BY <2>2
  <2> QED
    BY <2>3, <2>4, <2>5
<1> QED
  BY <1>1, <1>2, <1>3, SafeInvariant, PTL DEF Spec

(***************************************************************************)
(* An end of the work                                                      *)
(***************************************************************************)

\* What a statement of a worker can wait for: an uncommitted insert of the
\* same raw row, or an uncommitted update of it.
Blocked(w) ==
  \/ /\ pc[w] = "handle" /\ KindOf(w) \in {"valid", "invalid"}
     /\ \E v \in Workers \ {w} : InsertsRow(v, Event(w))
  \/ /\ pc[w] = "upserted" \/ (pc[w] = "recorded" /\ KindOf(w) = "invalid")
     /\ \E v \in Workers \ {w} : UpdatedRow(v, Event(w))

NeverAllBlocked ==
  \A w \in Workers : Blocked(w) => \E v \in Workers \ {w} : InTxn(v) /\ ~Blocked(v)

\* Who has updated a row waits for nothing any more.
LEMMA UpdaterGoesOn ==
  ASSUME NEW v \in Workers, NEW e, UpdatedRow(v, e)
  PROVE  InTxn(v) /\ ~Blocked(v)
  BY DEF UpdatedRow, InTxn, Blocked

\* Workers wait for rows of each other, but never in a circle: behind every
\* worker that waits is one in the midst of its transaction that does not.
THEOREM NoWorkerDeadlock == Spec => []NeverAllBlocked
<1>1. NeverAllBlocked
  <2> SUFFICES ASSUME NEW w \in Workers, Blocked(w)
               PROVE  \E v \in Workers \ {w} : InTxn(v) /\ ~Blocked(v)
    BY DEF NeverAllBlocked
  <2>1. CASE \E v \in Workers \ {w} : UpdatedRow(v, Event(w))
    BY <2>1, UpdaterGoesOn
  <2>2. CASE \E v \in Workers \ {w} : InsertsRow(v, Event(w))
    <3>1. PICK v \in Workers \ {w} : InsertsRow(v, Event(w))
      BY <2>2
    <3>2. InTxn(v)
      BY <3>1 DEF InsertsRow
    <3>3. CASE Blocked(v)
      <4>1. PICK u \in Workers \ {v} : UpdatedRow(u, Event(v))
        BY <3>2, <3>3 DEF Blocked, InTxn
      <4>2. InTxn(u) /\ ~Blocked(u)
        BY <4>1, UpdaterGoesOn
      <4> QED
        BY <4>1, <4>2
    <3> QED
      BY <3>1, <3>2, <3>3
  <2> QED
    BY <2>1, <2>2 DEF Blocked
<1> QED
  BY <1>1, PTL

\* How much is left to do: entries nobody has read, what each worker holds of
\* those that were read, and how far it is with the first of them.
Backlog == Len(stream) - Floor

Rank(w) ==
  CASE pc[w] \in {"down", "handle"}                 -> 6
    [] pc[w] \in {"starting", "backoff", "recorded"} -> 5
    [] pc[w] \in {"upserted", "failed"}              -> 4
    [] pc[w] \in {"nogroup", "commit"}               -> 3
    [] pc[w] = "ack"                                 -> 2
    [] pc[w] = "poll"                                -> IF group THEN 2 ELSE 4

Load(w) == 8 * Cardinality(batch[w]) + Rank(w) + (IF stop[w] THEN 10 ELSE 0)

\* A step of one worker that changes anything.
WearsOut(w) ==
  /\ 13 * Backlog' + Load(w)' < 13 * Backlog + Load(w)
  /\ \A v \in Workers \ {w} : Load(v)' <= Load(v)

\* What a worker holds can be counted.
LEMMA HoldsFinitelyMany ==
  ASSUME TypeOK, NEW w \in Workers
  PROVE  IsFiniteSet(batch[w]) /\ Cardinality(batch[w]) \in Nat
<1>1. batch[w] \subseteq 1 .. Len(stream) /\ Len(stream) \in Nat
  BY LenProperties DEF TypeOK, Entries
<1>2. IsFiniteSet(1 .. Len(stream))
  BY <1>1, FS_Interval
<1> QED
  BY <1>1, <1>2, FS_Subset, FS_CardinalityType

\* The same of the state that a step leads to.
LEMMA StillHoldsFinitelyMany ==
  ASSUME TypeOK', NEW w \in Workers
  PROVE  IsFiniteSet(batch'[w]) /\ Cardinality(batch'[w]) \in Nat
<1>1. batch'[w] \subseteq 1 .. Len(stream') /\ Len(stream') \in Nat
  BY LenProperties DEF TypeOK, Entries
<1>2. IsFiniteSet(1 .. Len(stream'))
  BY <1>1, FS_Interval
<1> QED
  BY <1>1, <1>2, FS_Subset, FS_CardinalityType

\* A step that reads nothing leaves the backlog, and one that is not a step of
\* worker v, v's load.
LEMMA BystanderLoad ==
  ASSUME TypeOK, NEW v \in Workers, pc'[v] = pc[v], batch'[v] = batch[v], stop'[v] = stop[v],
         group => group'
  PROVE  Load(v)' <= Load(v)
<1>1. Rank(v)' \in Nat /\ Rank(v) \in Nat /\ Rank(v)' <= Rank(v)
  BY DEF Rank, TypeOK, Points
<1>2. Cardinality(batch[v]) \in Nat
  BY HoldsFinitelyMany
<1> QED
  BY <1>1, <1>2 DEF Load

\* Reading takes from the backlog what it hands out.
LEMMA ReadingTakes ==
  ASSUME TypeOK, ReadNew, UNCHANGED <<stream, trimmed>>
  PROVE  /\ Backlog \in Nat /\ Backlog' \in Nat
         /\ Cardinality(Unread) \in Nat
         /\ Backlog = Backlog' + Cardinality(Unread)
         /\ Unread # {} => Cardinality(Unread) >= 1
<1>1. /\ Len(stream) \in Nat /\ cursor \in Nat /\ trimmed \in Nat
      /\ Floor \in Nat /\ Ceiling \in Nat /\ Floor >= cursor /\ Floor >= trimmed
      /\ Ceiling >= Floor /\ Ceiling <= Len(stream) /\ Floor <= Len(stream)
  BY UnreadType, LenProperties DEF TypeOK
<1>2. Unread = Floor + 1 .. Ceiling
  BY DEF Unread
<1>3. Cardinality(Unread) = Ceiling - Floor
  <2>1. Floor + 1 \in Int /\ Ceiling \in Int
    BY <1>1
  <2>2. Cardinality(Floor + 1 .. Ceiling) =
          IF Floor + 1 > Ceiling THEN 0 ELSE Ceiling - (Floor + 1) + 1
    BY <2>1, FS_Interval
  <2> QED
    BY <1>1, <1>2, <2>2
<1>4. Unread = {} <=> Ceiling = Floor
  BY <1>1, <1>2
<1>5. Floor' = Ceiling
  <2>1. CASE Unread = {}
    BY <1>4, <2>1 DEF ReadNew, Floor, Larger
  <2>2. CASE Unread # {}
    BY <1>1, <1>4, <2>2 DEF ReadNew, Floor, Larger
  <2> QED
    BY <2>1, <2>2
<1> QED
  BY <1>1, <1>3, <1>4, <1>5 DEF Backlog

\* Finishing an entry takes it from what a worker holds.
LEMMA FinishingTakes ==
  ASSUME TypeOK, NEW w \in Workers, batch[w] # {}
  PROVE  /\ Cardinality(batch[w]) >= 1
         /\ Cardinality(batch[w] \ {Current(w)}) = Cardinality(batch[w]) - 1
<1>1. Current(w) \in batch[w]
  BY CurrentType
<1>2. IsFiniteSet(batch[w]) /\ Cardinality(batch[w]) \in Nat
  BY HoldsFinitelyMany
<1>3. Cardinality(batch[w] \ {Current(w)}) = Cardinality(batch[w]) - 1
  BY <1>1, <1>2, FS_RemoveElement
<1>4. Cardinality(batch[w] \ {Current(w)}) \in Nat
  BY <1>2, FS_RemoveElement, FS_CardinalityType
<1> QED
  BY <1>2, <1>3, <1>4

\* Without a group there is no cursor, so that making it again adds no work.
Restarts == ~group => cursor = 0

\* A step to a lower rank, with the batch as it was.
LEMMA RankFalls ==
  ASSUME TypeOK, TypeOK', NEW w \in Workers, batch'[w] = batch[w], stop'[w] = stop[w],
         Rank(w)' < Rank(w)
  PROVE  Load(w)' < Load(w)
<1>1. Cardinality(batch[w]) \in Nat
  BY HoldsFinitelyMany
<1>2. Rank(w) \in Nat /\ Rank(w)' \in Nat
  BY DEF Rank, TypeOK, Points
<1> QED
  BY <1>1, <1>2 DEF Load

\* What every step of a worker leaves alone.
LEMMA OwnPart ==
  ASSUME TypeOK, Restarts, NEW w \in Workers, WorkerStep(w)
  PROVE  /\ UNCHANGED <<stream, trimmed>>
         /\ group => group'
         /\ \A v \in Workers \ {w} :
              pc'[v] = pc[v] /\ batch'[v] = batch[v] /\ stop'[v] = stop[v]
         /\ ~Poll(w) => cursor' = cursor
<1> USE DEF TypeOK, Goto, redis, db
<1>1. CASE Start(w) \/ Exit(w) \/ PollNoGroup(w) \/ Record(w) \/ Upsert(w) \/ MarkProcessed(w)
           \/ MarkFailed(w) \/ Resume(w)
  BY <1>1 DEF Start, Exit, PollNoGroup, Record, Upsert, MarkProcessed, MarkFailed, Resume
<1>2. CASE Choke(w) \/ UpsertOrphan(w)
  BY <1>2 DEF Choke, UpsertOrphan, Abort
<1>3. CASE Divert(w) \/ DivertRejected(w) \/ Commit(w) \/ Ack(w)
  BY <1>3 DEF Divert, DivertRejected, Commit, Ack
<1>4. CASE EnsureGroup(w)
  BY <1>4 DEF EnsureGroup, CreateGroup, Restarts
<1>5. CASE Poll(w)
  BY <1>5 DEF Poll
<1> QED
  BY <1>1, <1>2, <1>3, <1>4, <1>5 DEF WorkerStep

\* A step that does not read lowers the worker's own load.
LEMMA LoadFalls ==
  ASSUME TypeInv, TypeInv', NEW w \in Workers, WorkerStep(w), ~Poll(w)
  PROVE  Load(w)' < Load(w)
<1>0. /\ TypeOK /\ TypeOK'
      /\ Cardinality(batch[w]) \in Nat
      /\ pc[w] \in Handling => batch[w] # {}
  BY HoldsFinitelyMany DEF TypeInv, BusyHasBatch
<1>1. CASE Start(w) \/ PollNoGroup(w) \/ Record(w) \/ Upsert(w) \/ MarkProcessed(w)
           \/ MarkFailed(w) \/ Resume(w) \/ Divert(w) \/ DivertRejected(w) \/ Commit(w)
           \/ EnsureGroup(w)
  <2>1. batch' = batch /\ stop' = stop
    BY <1>1 DEF Start, PollNoGroup, Record, Upsert, MarkProcessed, MarkFailed, Resume, Divert,
       DivertRejected, Commit, EnsureGroup
  <2>2. Rank(w)' < Rank(w)
    <3> USE DEF Goto, TypeOK, Rank, redis, db
    <3>1. CASE Start(w) \/ PollNoGroup(w) \/ Resume(w)
      BY <1>0, <3>1 DEF Start, PollNoGroup, Resume
    <3>2. CASE EnsureGroup(w)
      BY <1>0, <3>2 DEF EnsureGroup, CreateGroup
    <3>3. CASE Record(w) \/ Upsert(w) \/ MarkProcessed(w) \/ MarkFailed(w)
      BY <1>0, <3>3 DEF Record, Upsert, MarkProcessed, MarkFailed
    <3>4. CASE Divert(w) \/ DivertRejected(w) \/ Commit(w)
      BY <1>0, <3>4 DEF Divert, DivertRejected, Commit
    <3> QED
      BY <1>1, <3>1, <3>2, <3>3, <3>4
  <2> QED
    BY <1>0, <2>1, <2>2, RankFalls
<1>2. CASE Exit(w)
  <2>1. /\ batch' = batch /\ stop[w] /\ ~stop'[w] /\ pc[w] = "poll" /\ pc'[w] = "down"
    BY <1>0, <1>2 DEF Exit, Goto, TypeOK
  <2>2. Rank(w)' = 6 /\ Rank(w) \in {2, 4}
    BY <2>1 DEF Rank
  <2> QED
    BY <1>0, <2>1, <2>2 DEF Load
<1>3. CASE Choke(w) \/ UpsertOrphan(w)
  <2>1. /\ batch'[w] = {} /\ stop' = stop /\ pc'[w] = "backoff"
        /\ pc[w] \in {"handle", "recorded"}
    BY <1>0, <1>3 DEF Choke, UpsertOrphan, Abort, Goto, TypeOK
  <2>2. Rank(w)' = 5 /\ Rank(w) \in {5, 6}
    BY <2>1 DEF Rank
  <2>3. Cardinality(batch[w]) >= 1 /\ Cardinality(batch'[w]) = 0
    BY <1>0, <2>1, FinishingTakes, FS_EmptySet DEF Handling
  <2> QED
    BY <1>0, <2>1, <2>2, <2>3 DEF Load
<1>4. CASE Ack(w)
  <2>1. /\ batch'[w] = batch[w] \ {Current(w)} /\ stop' = stop
        /\ pc'[w] \in {"poll", "handle"} /\ pc[w] = "ack"
    BY <1>0, <1>4 DEF Ack, Goto, TypeOK
  <2>2. Rank(w) = 2 /\ Rank(w)' \in {2, 4, 6}
    BY <2>1 DEF Rank
  <2>3. Cardinality(batch'[w]) = Cardinality(batch[w]) - 1
    BY <1>0, <2>1, FinishingTakes DEF Handling
  <2> QED
    BY <1>0, <2>1, <2>2, <2>3 DEF Load
<1> QED
  BY <1>1, <1>2, <1>3, <1>4 DEF WorkerStep

\* A poll that returns something takes more from the backlog than it loads
\* onto the worker; one that returns nothing changes nothing.
LEMMA PollPays ==
  ASSUME TypeInv, TypeInv', NEW w \in Workers, Poll(w), vars' # vars
  PROVE  13 * Backlog' + Load(w)' < 13 * Backlog + Load(w)
<1>0. /\ TypeOK /\ ReadNew /\ UNCHANGED <<stream, trimmed, stop>>
      /\ batch' = [batch EXCEPT ![w] = Unread] /\ batch'[w] = Unread
      /\ pc[w] = "poll" /\ group
      /\ pc'[w] = IF Unread = {} THEN "poll" ELSE "handle"
      /\ group'
      /\ Cardinality(batch[w]) \in Nat
  BY HoldsFinitelyMany DEF Poll, Goto, TypeOK, TypeInv
<1>1. /\ Backlog \in Nat /\ Backlog' \in Nat
      /\ Cardinality(Unread) \in Nat
      /\ Backlog = Backlog' + Cardinality(Unread)
      /\ Unread # {} => Cardinality(Unread) >= 1
  BY <1>0, ReadingTakes
<1>2. CASE Unread # {}
  <2>1. Rank(w) = 2 /\ Rank(w)' = 6
    BY <1>0, <1>2 DEF Rank
  <2>2. Load(w)' = 8 * Cardinality(Unread) + 6 + (IF stop[w] THEN 10 ELSE 0)
    BY <1>0, <2>1 DEF Load
  <2>3. Load(w) = 8 * Cardinality(batch[w]) + 2 + (IF stop[w] THEN 10 ELSE 0)
    BY <2>1 DEF Load
  <2> QED
    BY <1>0, <1>1, <1>2, <2>2, <2>3
<1>3. CASE Unread = {}
  <2>1. batch[w] # {}
    <3> SUFFICES ASSUME batch[w] = {} PROVE FALSE
      OBVIOUS
    <3>1. batch' = batch /\ pc' = pc
      BY <1>0, <1>3 DEF Poll, Goto, TypeOK
    <3>2. cursor' = cursor /\ pel' = pel
      BY <1>0, <1>3 DEF ReadNew
    <3> QED
      BY <3>1, <3>2 DEF Poll, vars, redis, db
  <2>2. Rank(w) = 2 /\ Rank(w)' = 2
    BY <1>0, <1>3 DEF Rank
  <2>3. Cardinality(batch[w]) >= 1 /\ Cardinality(batch'[w]) = 0
    BY <1>0, <1>3, <2>1, FinishingTakes, FS_EmptySet
  <2>4. Cardinality(Unread) = 0
    BY <1>3, FS_EmptySet
  <2> QED
    BY <1>0, <1>1, <2>2, <2>3, <2>4 DEF Load
<1> QED
  BY <1>2, <1>3

\* Every step of a worker leaves less to do, for it and for all, and nothing
\* but publishing and faults gives them more: with NoWorkerDeadlock, why what
\* is on the stream is ingested once the workers run (Ingested).
THEOREM WorkersWearOut == Spec => [][\A w \in Workers : WorkerStep(w) => WearsOut(w)]_vars
<1>1. Init => TypeInv /\ Restarts
  BY TypeInit DEF Init, Restarts
<1>2. TypeInv /\ Restarts /\ [Next]_vars => (TypeInv /\ Restarts)'
  <2> SUFFICES ASSUME TypeInv, Restarts, [Next]_vars PROVE Restarts'
    BY TypeStep
  <2>1. CASE UNCHANGED <<group, cursor>>
    BY <2>1 DEF Restarts
  <2>2. CASE group' = TRUE \/ cursor' = 0
    BY <2>2 DEF Restarts
  <2>3. ASSUME NEW w \in Workers,
               \/ WorkerStep(w)
               \/ RequestStop(w) \/ Crash(w)
               \/ DbFails(w) \/ RedisFails(w) \/ RedisReplyLost(w)
        PROVE  UNCHANGED <<group, cursor>> \/ group' = TRUE
    BY <2>3 DEF TypeInv, TypeOK, WorkerStep, Start, EnsureGroup, CreateGroup, Exit, Poll, PollNoGroup,
       Divert, Choke, Record, Upsert, UpsertOrphan, MarkProcessed, MarkFailed, DivertRejected,
       Commit, Ack, Resume, RequestStop, Crash, DbFails, RedisFails, RedisReplyLost, redis
  <2>4. CASE \/ \E e \in Events : PublishAccepted(e) \/ PublishFaulty(e)
             \/ \E c \in Convs : DeleteConversation(c)
             \/ LoseGroup \/ LoseStream
             \/ UNCHANGED vars
    BY <2>1, <2>2, <2>4 DEF PublishAccepted, PublishFaulty, DeleteConversation, LoseGroup,
       LoseStream, vars, redis
  <2> QED
    BY <2>1, <2>2, <2>3, <2>4 DEF Next
<1>3. ASSUME TypeInv, Restarts, TypeInv', NEW w \in Workers, WorkerStep(w), vars' # vars
      PROVE  WearsOut(w)
  <2>1. /\ TypeOK
        /\ UNCHANGED <<stream, trimmed>>
        /\ group => group'
        /\ \A v \in Workers \ {w} :
             pc'[v] = pc[v] /\ batch'[v] = batch[v] /\ stop'[v] = stop[v]
        /\ ~Poll(w) => cursor' = cursor
    BY <1>3, OwnPart DEF TypeInv
  <2>2. \A v \in Workers \ {w} : Load(v)' <= Load(v)
    BY <2>1, BystanderLoad
  <2>3. CASE Poll(w)
    BY <1>3, <2>2, <2>3, PollPays DEF WearsOut
  <2>4. CASE ~Poll(w)
    <3>1. Load(w)' < Load(w)
      BY <1>3, <2>4, LoadFalls
    <3>2. Backlog' = Backlog
      BY <2>1, <2>4 DEF Backlog, Floor, Larger
    <3>3. Backlog \in Int
      BY <2>1, UnreadType, LenProperties DEF Backlog, TypeOK
    <3>4. Load(w) \in Int /\ Load(w)' \in Int
      <4>1. Rank(w) \in Nat /\ Rank(w)' \in Nat
        BY <1>3 DEF TypeInv, TypeOK, Points, Rank
      <4>2. Cardinality(batch[w]) \in Nat /\ Cardinality(batch'[w]) \in Nat
        BY <1>3, HoldsFinitelyMany, StillHoldsFinitelyMany DEF TypeInv
      <4> QED
        BY <4>1, <4>2 DEF Load
    <3>5. 13 * Backlog' + Load(w)' < 13 * Backlog + Load(w)
      BY <3>1, <3>2, <3>3, <3>4
    <3> QED
      BY <2>2, <3>5 DEF WearsOut
  <2> QED
    BY <2>3, <2>4
<1>4. /\ TypeInv /\ Restarts /\ (TypeInv /\ Restarts)' /\ [Next]_vars
      => [\A w \in Workers : WorkerStep(w) => WearsOut(w)]_vars
  BY <1>3
<1> QED
  BY <1>1, <1>2, <1>4, PTL DEF Spec
=============================================================================
