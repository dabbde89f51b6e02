-------------------------- MODULE IngestionProofs ---------------------------
(***************************************************************************)
(* Safety of the write path for any set of events, any number of workers,  *)
(* any batch size, any stream bound and any number of faults.              *)
(***************************************************************************)
EXTENDS Ingestion, TLAPS, WellFoundedInduction, SequenceTheorems

(***************************************************************************)
(* The entry a worker handles exists: a set of natural numbers has a least *)
(* element.                                                                *)
(***************************************************************************)
LessThan == {p \in Nat \X Nat : p[1] < p[2]}

\* The order on the natural numbers is well founded.
LEMMA LessThanWellFounded == IsWellFoundedOn(LessThan, Nat)
<1>1. LessThan = OpToRel(<, Nat)
  BY DEF OpToRel, LessThan
<1> QED
  BY <1>1, NatLessThanWellFounded

\* Least picks a member.
LEMMA LeastIsMember ==
  ASSUME NEW S, S \subseteq Nat, S # {}
  PROVE  Least(S) \in S
<1>1. PICK x \in S : \A y \in S : ~(<<y, x>> \in LessThan)
  BY WFMin, LessThanWellFounded, Zenon
<1>2. ASSUME NEW y \in S PROVE x <= y
  <2>1. /\ y \in Nat /\ x \in Nat
        /\ <<y, x>> \in Nat \X Nat
    OBVIOUS
  <2>2. ~(y < x)
    BY <1>1, <2>1 DEF LessThan
  <2> QED
    BY <2>1, <2>2
<1> QED
  BY <1>2 DEF Least

----------------------------------------------------------------------------
(* Types *)

\* A worker that handles an entry has one.
Handling == {"handle", "recorded", "upserted", "failed", "commit", "ack"}
BusyHasBatch == \A w \in Workers : pc[w] \in Handling => batch[w] # {}

TypeInv == TypeOK /\ BusyHasBatch

\* The entry in a worker's hands is an entry of its batch.
LEMMA CurrentType ==
  ASSUME TypeOK, NEW w \in Workers, batch[w] # {}
  PROVE  /\ Current(w) \in batch[w]
         /\ Current(w) \in Entries
         /\ Event(w) \in Events
         /\ KindOf(w) \in Kinds
<1>1. batch[w] \subseteq Entries /\ Entries \subseteq Nat
  BY DEF TypeOK, Entries
<1>2. Current(w) \in batch[w]
  <2>1. CASE GarbledIn(w) # {}
    <3>1. GarbledIn(w) \subseteq batch[w]
      BY DEF GarbledIn
    <3>2. GarbledIn(w) \subseteq Nat
      BY <3>1, <1>1
    <3>3. Least(GarbledIn(w)) \in GarbledIn(w)
      BY <2>1, <3>2, LeastIsMember
    <3> QED
      BY <2>1, <3>1, <3>3 DEF Current
  <2>2. CASE GarbledIn(w) = {}
    <3>1. batch[w] \subseteq Nat
      BY <1>1
    <3>2. Least(batch[w]) \in batch[w]
      BY <3>1, LeastIsMember
    <3> QED
      BY <2>2, <3>2 DEF Current
  <2> QED
    BY <2>1, <2>2
<1>3. Current(w) \in 1 .. Len(stream) /\ stream \in Seq(Events)
  BY <1>1, <1>2 DEF TypeOK, Entries
<1>4. Event(w) \in Events
  BY <1>3, ElementOfSeq DEF Event
<1> QED
  BY <1>1, <1>2, <1>4, KindAssumption DEF KindOf, Entries

\* XADD appends: the entries there are stay what they are.
LEMMA AddType ==
  ASSUME TypeOK, NEW copies \in Seq(Events), Add(copies)
  PROVE  /\ stream' \in Seq(Events)
         /\ Len(stream') >= Len(stream)
         /\ \A i \in Entries : stream'[i] = stream[i]
         /\ trimmed' \in trimmed .. Len(stream')
<1>1. stream \in Seq(Events) /\ trimmed \in 0 .. Len(stream)
  BY DEF TypeOK
<1>2. /\ stream' = stream \o copies
      /\ trimmed' \in trimmed .. Larger(trimmed, Len(stream') - MaxLen)
  BY DEF Add
<1>3. /\ stream' \in Seq(Events)
      /\ Len(stream') = Len(stream) + Len(copies)
      /\ \A i \in 1 .. Len(stream) + Len(copies) :
           stream'[i] = IF i <= Len(stream) THEN stream[i] ELSE copies[i - Len(stream)]
  BY <1>1, <1>2, ConcatProperties
<1>4. Len(stream) \in Nat /\ Len(copies) \in Nat
  BY <1>1, LenProperties
<1>5. \A i \in Entries : stream'[i] = stream[i]
  BY <1>3, <1>4 DEF Entries
<1>6. trimmed' \in trimmed .. Len(stream')
  BY <1>1, <1>2, <1>3, <1>4, SizeAssumption DEF Larger
<1> QED
  BY <1>3, <1>4, <1>5, <1>6

\* XREADGROUP hands out entries of the stream.
LEMMA UnreadType ==
  ASSUME TypeOK
  PROVE  /\ Unread \subseteq Entries
         /\ Unread # {} => Ceiling \in Entries
         /\ Floor \in 0 .. Len(stream)
         /\ Floor >= cursor /\ Floor >= trimmed
         /\ Ceiling \in 0 .. Len(stream)
         /\ Ceiling >= Floor
<1>1. /\ cursor \in 0 .. Len(stream)
      /\ trimmed \in 0 .. Len(stream)
      /\ Len(stream) \in Nat
  BY LenProperties DEF TypeOK
<1>2. /\ Floor \in 0 .. Len(stream)
      /\ Floor >= cursor /\ Floor >= trimmed
  BY <1>1 DEF Floor, Larger
<1>3. Ceiling \in 0 .. Len(stream) /\ Ceiling >= Floor
  BY <1>1, <1>2, SizeAssumption DEF Ceiling, Smaller
<1> QED
  BY <1>1, <1>2, <1>3 DEF Unread, Entries

\* The parts of the state an action of a worker does not touch keep their
\* types; what is left is the worker's own part.
LEMMA TypeInit == Init => TypeInv
<1> SUFFICES ASSUME Init PROVE TypeInv
  OBVIOUS
<1>1. stream \in Seq(Events) /\ Len(stream) = 0
  BY EmptySeq DEF Init
<1>2. TypeOK
  <2>1. group \in BOOLEAN /\ stop \in [Workers -> BOOLEAN]
    BY DEF Init
  <2>2. /\ trimmed \in 0 .. Len(stream)
        /\ cursor \in 0 .. Len(stream)
        /\ pel \subseteq Entries
        /\ faults \in Nat
        /\ batch \in [Workers -> SUBSET Entries]
    BY <1>1 DEF Init
  <2>3. /\ dead \subseteq Events
        /\ convs \subseteq Convs
        /\ raw \in [Events -> {Absent, "processed", "failed"}]
        /\ logs \in [Events -> Convs \cup {NoConv, Absent}]
        /\ pub \in [Events -> PublishStates]
        /\ pc \in [Workers -> Points]
    BY DEF Init, PublishStates, Points
  <2> QED
    BY <1>1, <2>1, <2>2, <2>3 DEF TypeOK
<1>3. BusyHasBatch
  BY DEF Init, BusyHasBatch, Handling
<1> QED
  BY <1>2, <1>3 DEF TypeInv

\* One commit, and one deletion, of a row.
LEMMA CommitType ==
  ASSUME TypeOK, NEW e \in Events, CommitEvent(e)
  PROVE  /\ raw' \in [Events -> {Absent, "processed", "failed"}]
         /\ logs' \in [Events -> Convs \cup {NoConv, Absent}]
  BY ConvAssumption DEF TypeOK, CommitEvent

\* What XREADGROUP leaves in the group's books are ids of entries.
LEMMA ReadType ==
  ASSUME TypeOK, ReadNew, UNCHANGED stream
  PROVE  cursor' \in 0 .. Len(stream) /\ pel' \subseteq Entries
  BY UnreadType DEF TypeOK, ReadNew

\* Every step keeps the types, and a worker that handles an entry busy.
LEMMA TypeStep ==
  ASSUME TypeInv, [Next]_vars
  PROVE  TypeInv'
<1> USE DEF TypeInv
<1>1. ASSUME NEW e \in Events, PublishAccepted(e) \/ PublishFaulty(e)
      PROVE  TypeInv'
  <2>1. PICK copies \in Seq(Events) : Add(copies)
    <3>1. <<>> \in Seq(Events) /\ <<e>> \in Seq(Events) /\ <<e, e>> \in Seq(Events)
      OBVIOUS
    <3>2. CASE PublishAccepted(e)
      BY <3>1, <3>2 DEF PublishAccepted
    <3>3. CASE PublishFaulty(e)
      BY <3>1, <3>3 DEF PublishFaulty
    <3> QED
      BY <1>1, <3>2, <3>3
  <2>2. /\ stream' \in Seq(Events)
        /\ Len(stream') >= Len(stream)
        /\ trimmed' \in 0 .. Len(stream')
    BY <2>1, AddType, LenProperties DEF TypeOK
  <2>3. Entries \subseteq Entries' /\ Len(stream) \in Nat /\ Len(stream') \in Nat
    BY <2>2, LenProperties DEF TypeOK, Entries
  <2>4. pub' \in [Events -> PublishStates] /\ faults' \in Nat
    <3>1. CASE PublishAccepted(e)
      BY <3>1 DEF TypeOK, PublishAccepted, PublishStates
    <3>2. CASE PublishFaulty(e)
      <4>1. \E r \in PublishStates : pub' = [pub EXCEPT ![e] = r]
        BY <3>2, Zenon DEF PublishFaulty, PublishStates
      <4>2. faults' \in Nat
        BY <3>2 DEF TypeOK, PublishFaulty, Fault
      <4> QED
        BY <4>1, <4>2 DEF TypeOK
    <3> QED
      BY <1>1, <3>1, <3>2
  <2>5. UNCHANGED <<group, cursor, pel, dead, raw, logs, convs, pc, batch, stop>>
    BY <1>1 DEF PublishAccepted, PublishFaulty, db
  <2> QED
    BY <2>2, <2>3, <2>4, <2>5 DEF TypeOK, BusyHasBatch
<1>2. ASSUME NEW c \in Convs, DeleteConversation(c)
      PROVE  TypeInv'
  BY <1>2 DEF DeleteConversation, TypeOK, BusyHasBatch, Entries, Fault, redis
<1>3. ASSUME NEW w \in Workers, WorkerStep(w)
      PROVE  TypeInv'
  <2> USE DEF TypeOK, BusyHasBatch, Handling, Points, Goto, Entries, redis, db
  <2>1. CASE Start(w)
    BY <2>1 DEF Start
  <2>2. CASE EnsureGroup(w)
    BY <2>2, LenProperties DEF EnsureGroup, CreateGroup
  <2>3. CASE Exit(w)
    BY <2>3 DEF Exit
  <2>4. CASE Poll(w)
    BY <2>4, UnreadType, ReadType DEF Poll
  <2>5. CASE PollNoGroup(w)
    BY <2>5 DEF PollNoGroup
  <2>6. CASE Divert(w)
    BY <2>6, CurrentType DEF Divert, DeadLetter
  <2>7. CASE Choke(w)
    BY <2>7 DEF Choke, Abort
  <2>8. CASE Record(w)
    BY <2>8 DEF Record
  <2>9. CASE Upsert(w)
    BY <2>9 DEF Upsert
  <2>10. CASE UpsertOrphan(w)
    BY <2>10 DEF UpsertOrphan, Abort
  <2>11. CASE MarkProcessed(w)
    BY <2>11 DEF MarkProcessed
  <2>12. CASE MarkFailed(w)
    BY <2>12 DEF MarkFailed
  <2>13. CASE DivertRejected(w)
    BY <2>13, CurrentType DEF DivertRejected, DeadLetter
  <2>14. CASE Commit(w)
    <3>1. Event(w) \in Events
      BY <2>14, CurrentType DEF Commit
    <3> QED
      BY <2>14, <3>1, CommitType DEF Commit
  <2>15. CASE Ack(w)
    BY <2>15 DEF Ack, AckEntry
  <2>16. CASE Resume(w)
    BY <2>16 DEF Resume
  <2> QED
    BY <1>3, <2>1, <2>2, <2>3, <2>4, <2>5, <2>6, <2>7, <2>8, <2>9, <2>10,
       <2>11, <2>12, <2>13, <2>14, <2>15, <2>16 DEF WorkerStep
<1>4. ASSUME NEW w \in Workers,
             RequestStop(w) \/ Crash(w) \/ DbFails(w) \/ RedisFails(w) \/ RedisReplyLost(w)
      PROVE  TypeInv'
  <2> USE DEF TypeOK, BusyHasBatch, Handling, Points, Goto, Entries, redis, db, Fault
  <2>1. CASE RequestStop(w)
    BY <2>1 DEF RequestStop
  <2>2. CASE Crash(w)
    BY <2>2 DEF Crash
  <2>3. CASE DbFails(w)
    <3>1. \/ UNCHANGED <<raw, logs>>
          \/ Event(w) \in Events /\ CommitEvent(Event(w))
      BY <2>3, CurrentType DEF DbFails
    <3>2. /\ raw' \in [Events -> {Absent, "processed", "failed"}]
          /\ logs' \in [Events -> Convs \cup {NoConv, Absent}]
      BY <3>1, CommitType
    <3> QED
      BY <2>3, <3>2 DEF DbFails, Abort
  <2>4. CASE RedisFails(w)
    BY <2>4 DEF RedisFails, Abort
  <2>5. CASE RedisReplyLost(w)
    <3>1. /\ UNCHANGED <<stream, trimmed, group>>
          /\ cursor' \in 0 .. Len(stream)
          /\ pel' \subseteq Entries
          /\ dead' \subseteq Events
      BY <2>5, CurrentType, ReadType DEF RedisReplyLost, AckEntry, DeadLetter
    <3> QED
      BY <2>5, <3>1 DEF RedisReplyLost, Abort
  <2> QED
    BY <1>4, <2>1, <2>2, <2>3, <2>4, <2>5
<1>5. CASE LoseGroup \/ LoseStream
  <2>1. /\ group' = FALSE /\ cursor' = 0 /\ pel' = {}
        /\ trimmed' = trimmed \/ trimmed' = Len(stream)
        /\ faults' = faults + 1
    BY <1>5, Zenon DEF LoseGroup, LoseStream, Fault
  <2>2. UNCHANGED <<stream, dead, raw, logs, convs, pub, pc, batch, stop>>
    BY <1>5 DEF LoseGroup, LoseStream, db
  <2>3. group' \in BOOLEAN
    BY <2>1, Zenon
  <2>4. trimmed' \in 0 .. Len(stream) /\ 0 \in 0 .. Len(stream) /\ faults' \in Nat
    BY <2>1, LenProperties DEF TypeOK
  <2> QED
    BY <2>1, <2>2, <2>3, <2>4 DEF TypeOK, BusyHasBatch, Entries
<1>6. CASE UNCHANGED vars
  BY <1>6 DEF vars, redis, db, TypeOK, BusyHasBatch, Entries
<1> QED
  BY <1>1, <1>2, <1>3, <1>4, <1>5, <1>6 DEF Next

\* Type correctness: every delivery id the group, the cursor or a worker
\* holds is the id of an entry, and a worker that handles an entry has one.
THEOREM TypeCorrect == Spec => []TypeOK
<1>1. Init => TypeInv
  BY TypeInit
<1>2. TypeInv /\ [Next]_vars => TypeInv'
  BY TypeStep
<1>3. TypeInv => TypeOK
  BY DEF TypeInv
<1> QED
  BY <1>1, <1>2, <1>3, PTL DEF Spec

----------------------------------------------------------------------------
(* Nothing is acknowledged before its outcome is on record *)

\* What the program point of a worker says about the event in its hands.
Phase(w) ==
  /\ pc[w] = "upserted" => KindOf(w) = "valid"
  /\ pc[w] = "failed" => KindOf(w) = "invalid"
  /\ pc[w] = "commit" => \/ KindOf(w) = "valid"
                         \/ KindOf(w) = "invalid" /\ Event(w) \in dead
  /\ pc[w] = "ack" => Accounted(Event(w))

\* A transaction that inserted a log row holds the conversation it names.
HoldsConversation(w) ==
  pc[w] \in {"upserted", "commit"} /\ KindOf(w) = "valid" /\ logs[Event(w)] = Absent
    => ConvOf[Event(w)] \in convs

\* Only payloads that cannot be ingested are diverted, only the others logged.
SortedByKind ==
  /\ \A e \in dead : Kind[e] # "valid"
  /\ \A e \in Events : logs[e] # Absent => Kind[e] = "valid"

SafeInv ==
  /\ TypeInv
  /\ SortedByKind
  /\ \A w \in Workers : Phase(w) /\ HoldsConversation(w)
  /\ AckedIsAccounted
  /\ OutcomesAgree
  /\ NoDanglingConversation

\* A worker that keeps its batch keeps the event in its hands, whatever is
\* appended to the stream.
LEMMA HandsKept ==
  ASSUME TypeOK, NEW w \in Workers, batch[w] # {}, batch'[w] = batch[w],
         \A i \in Entries : stream'[i] = stream[i]
  PROVE  Event(w)' = Event(w) /\ KindOf(w)' = KindOf(w)
<1>1. batch[w] \subseteq Entries
  BY DEF TypeOK
<1>2. GarbledIn(w)' = GarbledIn(w)
  BY <1>1 DEF GarbledIn
<1>3. Current(w)' = Current(w)
  BY <1>2 DEF Current
<1>4. Current(w) \in Entries
  BY CurrentType
<1> QED
  BY <1>3, <1>4 DEF Event, KindOf

\* A commit settles its event and leaves settled events settled.
LEMMA CommitSettles ==
  ASSUME TypeOK, OutcomesAgree, SortedByKind,
         NEW e \in Events, CommitEvent(e), UNCHANGED dead,
         Kind[e] = "valid" \/ (Kind[e] = "invalid" /\ e \in dead)
  PROVE  /\ Accounted(e)'
         /\ \A f \in Events : Accounted(f) => Accounted(f)'
         /\ OutcomesAgree' /\ SortedByKind'
         /\ \A f \in Events : logs'[f] = logs[f] \/
              (f = e /\ logs[f] = Absent /\ Kind[f] = "valid" /\ logs'[f] = ConvOf[f])
<1>1. /\ raw \in [Events -> {Absent, "processed", "failed"}]
      /\ logs \in [Events -> Convs \cup {NoConv, Absent}]
      /\ ConvOf[e] \in Convs /\ ConvOf[e] # Absent
  BY ConvAssumption DEF TypeOK
<1>2. CASE Kind[e] = "valid"
  <2>1. /\ raw' = [raw EXCEPT ![e] = "processed"]
        /\ logs' = IF logs[e] = Absent THEN [logs EXCEPT ![e] = ConvOf[e]] ELSE logs
    BY <1>2 DEF CommitEvent
  <2>2. \A f \in Events \ {e} : raw'[f] = raw[f] /\ logs'[f] = logs[f]
    BY <1>1, <2>1
  <2>3. raw'[e] = "processed" /\ logs'[e] # Absent
    BY <1>1, <2>1
  <2>4. logs[e] # Absent => logs'[e] = logs[e]
    BY <2>1
  <2>5. logs[e] = Absent => logs'[e] = ConvOf[e]
    BY <1>1, <2>1
  <2>6. e \notin dead
    BY <1>2 DEF SortedByKind
  <2> QED
    BY <1>2, <2>2, <2>3, <2>4, <2>5, <2>6 DEF Accounted, OutcomesAgree, SortedByKind
<1>3. CASE Kind[e] = "invalid" /\ e \in dead
  <2>1. raw' = [raw EXCEPT ![e] = "failed"] /\ logs' = logs
    BY <1>3 DEF CommitEvent
  <2>2. \A f \in Events \ {e} : raw'[f] = raw[f]
    BY <1>1, <2>1
  <2>3. raw'[e] = "failed"
    BY <1>1, <2>1
  <2>4. logs[e] = Absent
    BY <1>3 DEF OutcomesAgree
  <2> QED
    BY <1>3, <2>1, <2>2, <2>3, <2>4 DEF Accounted, OutcomesAgree, SortedByKind
<1> QED
  BY <1>2, <1>3

\* A step that settles nothing leaves settled events settled.
LEMMA SettledStays ==
  ASSUME UNCHANGED <<raw, logs>>, dead \subseteq dead'
  PROVE  \A e \in Events : Accounted(e) => Accounted(e)'
  BY DEF Accounted

\* A worker a step does not touch keeps its phase.
LEMMA BystanderKept ==
  ASSUME SafeInv, NEW w \in Workers,
         pc'[w] = pc[w], batch'[w] = batch[w],
         \A i \in Entries : stream'[i] = stream[i],
         dead \subseteq dead', convs' = convs,
         \A e \in Events : Accounted(e) => Accounted(e)',
         \A e \in Events : logs'[e] = Absent => logs[e] = Absent
  PROVE  Phase(w)' /\ HoldsConversation(w)'
<1>1. CASE pc[w] \in Handling
  <2>1. batch[w] # {} /\ TypeOK
    BY <1>1 DEF SafeInv, TypeInv, BusyHasBatch
  <2>2. Event(w)' = Event(w) /\ KindOf(w)' = KindOf(w) /\ Event(w) \in Events
    BY <2>1, HandsKept, CurrentType
  <2>3. Phase(w)'
    <3>1. Accounted(Event(w)) => Accounted(Event(w))'
      BY <2>2 DEF Accounted
    <3> QED
      BY <2>2, <3>1 DEF SafeInv, Phase
  <2>4. HoldsConversation(w)'
    BY <2>2 DEF SafeInv, HoldsConversation
  <2> QED
    BY <2>3, <2>4
<1>2. CASE pc[w] \notin Handling
  BY <1>2 DEF Phase, HoldsConversation, Handling
<1> QED
  BY <1>1, <1>2

\* The group's books stay right when nothing is read or acknowledged.
LEMMA BooksKept ==
  ASSUME TypeOK, AckedIsAccounted,
         \A i \in Entries : stream'[i] = stream[i],
         trimmed' \in Int, trimmed' >= trimmed, Len(stream') \in Nat,
         cursor' = cursor, pel \subseteq pel',
         \A e \in Events : Accounted(e) => Accounted(e)'
  PROVE  AckedIsAccounted'
<1> SUFFICES ASSUME NEW i \in Retained', i <= cursor, i \notin pel
             PROVE  Accounted(stream[i])'
  BY DEF AckedIsAccounted
<1>1. /\ i \in Entries /\ i \in Retained
  <2>1. i \in 1 .. Len(stream') /\ i > trimmed'
    BY DEF Retained, Entries
  <2>2. trimmed \in 0 .. Len(stream) /\ cursor \in 0 .. Len(stream) /\ Len(stream) \in Nat
    BY LenProperties DEF TypeOK
  <2> QED
    BY <2>1, <2>2 DEF Retained, Entries
<1>2. stream'[i] = stream[i] /\ stream[i] \in Events
  BY <1>1, ElementOfSeq DEF TypeOK, Entries
<1>3. PICK e \in Events : e = stream[i]
  BY <1>2
<1>4. Accounted(e)
  BY <1>1, <1>3 DEF AckedIsAccounted
<1>5. Accounted(e)' /\ stream'[i] = e
  BY <1>2, <1>3, <1>4
<1> QED
  BY <1>5 DEF Accounted

\* A step of one worker that leaves the tables and the stream alone, diverts
\* at most unfit payloads, and neither reads nor acknowledges.
LEMMA QuietStep ==
  ASSUME SafeInv, TypeInv', NEW w \in Workers,
         \A v \in Workers \ {w} : pc'[v] = pc[v] /\ batch'[v] = batch[v],
         UNCHANGED <<stream, raw, logs, convs, trimmed>>,
         dead \subseteq dead', SortedByKind',
         AckedIsAccounted',
         Phase(w)' /\ HoldsConversation(w)'
  PROVE  SafeInv'
<1>1. \A e \in Events : Accounted(e) => Accounted(e)'
  BY SettledStays
<1>2. \A v \in Workers : Phase(v)' /\ HoldsConversation(v)'
  <2>1. SUFFICES ASSUME NEW v \in Workers, v # w
                 PROVE  Phase(v)' /\ HoldsConversation(v)'
    OBVIOUS
  <2>2. pc'[v] = pc[v] /\ batch'[v] = batch[v]
    BY <2>1
  <2> QED
    BY <1>1, <2>2, BystanderKept
<1>3. OutcomesAgree'
  BY DEF SafeInv, OutcomesAgree, SortedByKind
<1>4. NoDanglingConversation'
  BY DEF SafeInv, NoDanglingConversation
<1> QED
  BY <1>2, <1>3, <1>4 DEF SafeInv

\* The books after a step that changes nothing they are about.
LEMMA SameBooks ==
  ASSUME SafeInv, UNCHANGED <<stream, trimmed, cursor, pel, raw, logs>>,
         dead \subseteq dead'
  PROVE  AckedIsAccounted'
<1>1. \A e \in Events : Accounted(e) => Accounted(e)'
  BY SettledStays
<1>2. trimmed \in Int /\ Len(stream) \in Nat /\ TypeOK /\ AckedIsAccounted
  BY LenProperties DEF SafeInv, TypeInv, TypeOK
<1> QED
  BY <1>1, <1>2, BooksKept

\* The books after a step that loses the group: it has delivered nothing.
LEMMA NewBooks ==
  ASSUME cursor' = 0
  PROVE  AckedIsAccounted'
  BY DEF AckedIsAccounted, Retained, Entries

\* The books after XREADGROUP: what it hands out is pending.
LEMMA ReadBooks ==
  ASSUME SafeInv, ReadNew, UNCHANGED <<stream, trimmed, raw, logs, dead>>
  PROVE  AckedIsAccounted'
<1>1. TypeOK /\ AckedIsAccounted
  BY DEF SafeInv, TypeInv
<1>2. SUFFICES ASSUME NEW i \in Retained, i <= cursor', i \notin pel'
               PROVE  Accounted(stream[i])
  BY DEF AckedIsAccounted, Accounted, Retained, Entries
<1>3. i \notin Unread /\ i \notin pel
  BY <1>2 DEF ReadNew
<1>4. i \in Nat /\ i > trimmed /\ i <= Len(stream)
  BY <1>2, <1>1, LenProperties DEF Retained, Entries, TypeOK
<1>5. CASE Unread = {}
  BY <1>1, <1>2, <1>3, <1>5 DEF ReadNew, AckedIsAccounted
<1>6. CASE Unread # {}
  <2>1. cursor' = Ceiling /\ i <= Ceiling
    BY <1>2, <1>6 DEF ReadNew
  <2>2. /\ Floor \in Nat /\ Ceiling \in Nat
        /\ cursor \in Nat /\ trimmed \in Nat
    BY <1>1, UnreadType, LenProperties DEF TypeOK
  <2>3. i <= Floor
    BY <1>3, <1>4, <2>1, <2>2 DEF Unread
  <2>4. i <= cursor
    BY <1>4, <2>2, <2>3 DEF Floor, Larger
  <2> QED
    BY <1>1, <1>2, <1>3, <2>4 DEF AckedIsAccounted
<1> QED
  BY <1>5, <1>6

\* The books after XACK of an entry whose outcome is on record.
LEMMA AckBooks ==
  ASSUME SafeInv, NEW w \in Workers, pc[w] = "ack", AckEntry(Current(w)),
         UNCHANGED <<stream, trimmed, cursor, raw, logs, dead>>
  PROVE  AckedIsAccounted'
<1>1. Accounted(Event(w))
  BY DEF SafeInv, Phase
<1>2. SUFFICES ASSUME NEW i \in Retained, i <= cursor, i \notin pel \ {Current(w)}
               PROVE  Accounted(stream[i])
  BY DEF AckedIsAccounted, Accounted, Retained, Entries, AckEntry
<1>3. CASE i = Current(w)
  BY <1>1, <1>3 DEF Event
<1>4. CASE i \notin pel
  BY <1>2, <1>4 DEF SafeInv, AckedIsAccounted
<1> QED
  BY <1>2, <1>3, <1>4

\* The program points at which a worker holds nothing worth a word.
LEMMA FreePhase ==
  ASSUME NEW w \in Workers, pc'[w] \notin {"upserted", "failed", "commit", "ack"}
  PROVE  Phase(w)' /\ HoldsConversation(w)'
  BY DEF Phase, HoldsConversation

\* Steps of a worker that touch no store.
LEMMA LocalStep ==
  ASSUME SafeInv, TypeInv', NEW w \in Workers,
         \/ Start(w) \/ Exit(w) \/ PollNoGroup(w) \/ Choke(w) \/ Record(w)
         \/ UpsertOrphan(w) \/ Resume(w) \/ RequestStop(w) \/ Crash(w)
         \/ RedisFails(w)
  PROVE  SafeInv'
<1>1. /\ UNCHANGED <<redis, db>>
      /\ \A v \in Workers \ {w} : pc'[v] = pc[v] /\ batch'[v] = batch[v]
  BY DEF SafeInv, TypeInv, TypeOK, Goto, Abort, Start, Exit, PollNoGroup, Choke,
         Record, UpsertOrphan, Resume, RequestStop, Crash, RedisFails
<1>2. UNCHANGED <<stream, trimmed, group, cursor, pel, dead, raw, logs, convs>>
  BY <1>1 DEF redis, db
<1>3. Phase(w)' /\ HoldsConversation(w)'
  <2>1. CASE RequestStop(w)
    <3>1. pc' = pc /\ batch' = batch
      BY <2>1 DEF RequestStop
    <3> QED
      BY <1>2, <3>1, SettledStays, BystanderKept
  <2>2. CASE ~RequestStop(w)
    <3>1. pc'[w] \notin {"upserted", "failed", "commit", "ack"}
      BY <2>2 DEF SafeInv, TypeInv, TypeOK, Goto, Abort, Start, Exit, PollNoGroup,
         Choke, Record, UpsertOrphan, Resume, Crash, RedisFails
    <3> QED
      BY <3>1, FreePhase
  <2> QED
    BY <2>1, <2>2
<1>4. AckedIsAccounted'
  BY <1>2, SameBooks
<1>5. SortedByKind'
  BY <1>2 DEF SafeInv, SortedByKind
<1> QED
  BY <1>1, <1>2, <1>3, <1>4, <1>5, QuietStep

\* Steps inside a transaction that only move on.
LEMMA StatementStep ==
  ASSUME SafeInv, TypeInv', NEW w \in Workers,
         Upsert(w) \/ MarkProcessed(w) \/ MarkFailed(w)
  PROVE  SafeInv'
<1>1. /\ UNCHANGED <<redis, db>> /\ batch' = batch
      /\ \A v \in Workers \ {w} : pc'[v] = pc[v]
      /\ pc[w] \in Handling
  BY DEF SafeInv, TypeInv, TypeOK, Goto, Upsert, MarkProcessed, MarkFailed, Handling
<1>2. UNCHANGED <<stream, trimmed, group, cursor, pel, dead, raw, logs, convs>>
  BY <1>1 DEF redis, db
<1>3. KindOf(w)' = KindOf(w) /\ Event(w)' = Event(w)
  BY <1>1, <1>2, HandsKept DEF SafeInv, TypeInv, BusyHasBatch
<1>4. Phase(w)' /\ HoldsConversation(w)'
  <2>1. CASE Upsert(w)
    <3>1. pc'[w] = "upserted" /\ KindOf(w) = "valid"
          /\ (logs[Event(w)] # Absent \/ ConvOf[Event(w)] \in convs)
      BY <2>1 DEF Upsert, Goto, SafeInv, TypeInv, TypeOK
    <3> QED
      BY <1>2, <1>3, <3>1 DEF Phase, HoldsConversation
  <2>2. CASE MarkProcessed(w)
    <3>1. pc'[w] = "commit" /\ pc[w] = "upserted"
      BY <2>2 DEF MarkProcessed, Goto, SafeInv, TypeInv, TypeOK
    <3>2. Phase(w) /\ HoldsConversation(w)
      BY DEF SafeInv
    <3> QED
      BY <1>2, <1>3, <3>1, <3>2 DEF Phase, HoldsConversation
  <2>3. CASE MarkFailed(w)
    <3>1. pc'[w] = "failed" /\ KindOf(w) = "invalid"
      BY <2>3 DEF MarkFailed, Goto, SafeInv, TypeInv, TypeOK
    <3> QED
      BY <1>3, <3>1 DEF Phase, HoldsConversation
  <2> QED
    BY <2>1, <2>2, <2>3
<1>5. AckedIsAccounted'
  BY <1>2, SameBooks
<1>6. SortedByKind'
  BY <1>2 DEF SafeInv, SortedByKind
<1> QED
  BY <1>1, <1>2, <1>4, <1>5, <1>6, QuietStep

\* Steps that divert a payload to the dead-letter stream, or try to.
LEMMA DivertStep ==
  ASSUME SafeInv, TypeInv', NEW w \in Workers,
         DeadLetter(Event(w)),
         UNCHANGED <<stream, trimmed, group, cursor, pel, raw, logs, convs>>,
         \A v \in Workers \ {w} : pc'[v] = pc[v] /\ batch'[v] = batch[v],
         pc[w] \in Handling, KindOf(w) \in {"garbled", "noid", "invalid"},
         \/ pc'[w] = "backoff"
         \/ pc'[w] = "ack" /\ batch'[w] = batch[w] /\ KindOf(w) # "invalid"
         \/ pc'[w] = "commit" /\ batch'[w] = batch[w] /\ KindOf(w) = "invalid"
  PROVE  SafeInv'
<1>1. TypeOK /\ batch[w] # {}
  BY DEF SafeInv, TypeInv, BusyHasBatch
<1>2. Event(w) \in Events /\ KindOf(w) = Kind[Event(w)]
  BY <1>1, CurrentType DEF KindOf
<1>3. dead \subseteq dead' /\ Event(w) \in dead'
  BY DEF DeadLetter
<1>4. SortedByKind'
  BY <1>2 DEF DeadLetter, SortedByKind, SafeInv
<1>6. Phase(w)' /\ HoldsConversation(w)'
  <2>1. CASE pc'[w] = "backoff"
    BY <2>1, FreePhase
  <2>2. CASE pc'[w] # "backoff"
    <3>1. batch'[w] = batch[w]
      BY <2>2
    <3>2. KindOf(w)' = KindOf(w) /\ Event(w)' = Event(w)
      BY <1>1, <3>1, HandsKept
    <3> QED
      BY <1>2, <1>3, <2>2, <3>2 DEF Phase, HoldsConversation, Accounted
  <2> QED
    BY <2>1, <2>2
<1>7. AckedIsAccounted'
  BY <1>3, SameBooks
<1> QED
  BY <1>3, <1>4, <1>6, <1>7, QuietStep

\* The commit, acknowledged to the worker or not.
LEMMA CommitStep ==
  ASSUME SafeInv, TypeInv', NEW w \in Workers, pc[w] = "commit",
         CommitEvent(Event(w)), UNCHANGED <<redis, convs>>,
         \A v \in Workers \ {w} : pc'[v] = pc[v] /\ batch'[v] = batch[v],
         \/ pc'[w] = "backoff"
         \/ pc'[w] = "ack" /\ batch'[w] = batch[w]
  PROVE  SafeInv'
<1>1. TypeOK /\ batch[w] # {} /\ OutcomesAgree /\ SortedByKind
      /\ Phase(w) /\ HoldsConversation(w) /\ NoDanglingConversation
  BY DEF SafeInv, TypeInv, BusyHasBatch, Handling
<1>2. Event(w) \in Events /\ KindOf(w) = Kind[Event(w)]
  BY <1>1, CurrentType DEF KindOf
<1>3. UNCHANGED <<stream, trimmed, group, cursor, pel, dead>>
  BY DEF redis
<1>4. Kind[Event(w)] = "valid" \/ (Kind[Event(w)] = "invalid" /\ Event(w) \in dead)
  BY <1>1, <1>2 DEF Phase
<1>5. PICK e \in Events : e = Event(w)
  BY <1>2
<1>6. /\ Accounted(e)'
      /\ \A f \in Events : Accounted(f) => Accounted(f)'
      /\ OutcomesAgree' /\ SortedByKind'
      /\ \A f \in Events : logs'[f] = logs[f] \/
           (f = e /\ logs[f] = Absent /\ Kind[f] = "valid" /\ logs'[f] = ConvOf[f])
  BY <1>1, <1>3, <1>4, <1>5, CommitSettles
<1>7. \A f \in Events : logs'[f] = Absent => logs[f] = Absent
  BY <1>6
<1>8. Phase(w)' /\ HoldsConversation(w)'
  <2>1. CASE pc'[w] = "backoff"
    BY <2>1, FreePhase
  <2>2. CASE pc'[w] = "ack" /\ batch'[w] = batch[w]
    <3>1. Event(w)' = e
      BY <1>1, <1>3, <1>5, <2>2, HandsKept
    <3> QED
      BY <1>6, <2>2, <3>1 DEF Phase, HoldsConversation, Accounted
  <2> QED
    BY <2>1, <2>2
<1>9. \A v \in Workers : Phase(v)' /\ HoldsConversation(v)'
  <2>1. SUFFICES ASSUME NEW v \in Workers, v # w
                 PROVE  Phase(v)' /\ HoldsConversation(v)'
    BY <1>8
  <2>2. pc'[v] = pc[v] /\ batch'[v] = batch[v]
    BY <2>1
  <2> QED
    BY <1>3, <1>6, <1>7, <2>2, BystanderKept
<1>10. NoDanglingConversation'
  BY <1>1, <1>2, <1>5, <1>6 DEF HoldsConversation, NoDanglingConversation
<1>11. AckedIsAccounted'
  <2>1. trimmed \in Int /\ Len(stream) \in Nat /\ AckedIsAccounted
    BY <1>1, LenProperties DEF SafeInv, TypeOK
  <2> QED
    BY <1>1, <1>3, <1>6, <2>1, BooksKept
<1> QED
  BY <1>6, <1>9, <1>10, <1>11 DEF SafeInv

\* DELETE waits for the transactions that hold the conversation.
LEMMA DeleteStep ==
  ASSUME SafeInv, TypeInv', NEW c \in Convs, DeleteConversation(c)
  PROVE  SafeInv'
<1>1. TypeOK /\ OutcomesAgree /\ SortedByKind /\ NoDanglingConversation /\ AckedIsAccounted
  BY DEF SafeInv, TypeInv
<1>2. /\ UNCHANGED <<stream, trimmed, group, cursor, pel, dead, raw, pc, batch>>
      /\ convs' = convs \ {c}
      /\ logs' = [e \in Events |-> IF logs[e] = c THEN NoConv ELSE logs[e]]
      /\ \A v \in Workers : ~SharesConv(v, c)
  BY DEF DeleteConversation, redis
<1>3. \A e \in Events : /\ logs'[e] = IF logs[e] = c THEN NoConv ELSE logs[e]
                        /\ logs'[e] = Absent <=> logs[e] = Absent
  BY <1>2, ConvAssumption
<1>4. \A e \in Events : Accounted(e) => Accounted(e)'
  BY <1>2, <1>3 DEF Accounted
<1>5. \A v \in Workers : Phase(v)' /\ HoldsConversation(v)'
  <2>1. SUFFICES ASSUME NEW v \in Workers
                 PROVE  Phase(v)' /\ HoldsConversation(v)'
    OBVIOUS
  <2>2. Phase(v) /\ HoldsConversation(v) /\ ~SharesConv(v, c)
    BY <1>2 DEF SafeInv
  <2>3. CASE pc[v] \in Handling
    <3>1. Event(v)' = Event(v) /\ KindOf(v)' = KindOf(v) /\ Event(v) \in Events
      BY <1>1, <1>2, <2>3, HandsKept, CurrentType DEF SafeInv, TypeInv, BusyHasBatch
    <3>2. Accounted(Event(v)) => Accounted(Event(v))'
      BY <1>2, <1>3, <3>1 DEF Accounted
    <3>3. Phase(v)'
      BY <1>2, <2>2, <3>1, <3>2 DEF Phase
    <3>4. HoldsConversation(v)'
      BY <1>2, <1>3, <2>2, <3>1 DEF HoldsConversation, SharesConv
    <3> QED
      BY <3>3, <3>4
  <2>4. CASE pc[v] \notin Handling
    BY <1>2, <2>4 DEF Phase, HoldsConversation, Handling
  <2> QED
    BY <2>3, <2>4
<1>6. OutcomesAgree' /\ SortedByKind'
  BY <1>1, <1>2, <1>3 DEF OutcomesAgree, SortedByKind
<1>7. NoDanglingConversation'
  BY <1>1, <1>2, <1>3, ConvAssumption DEF NoDanglingConversation
<1>8. AckedIsAccounted'
  <2>1. trimmed \in Int /\ Len(stream) \in Nat
    BY <1>1, LenProperties DEF TypeOK
  <2> QED
    BY <1>1, <1>2, <1>4, <2>1, BooksKept
<1> QED
  BY <1>5, <1>6, <1>7, <1>8 DEF SafeInv

\* Publishing only appends and trims.
LEMMA PublishStep ==
  ASSUME SafeInv, TypeInv', NEW e \in Events, PublishAccepted(e) \/ PublishFaulty(e)
  PROVE  SafeInv'
<1>1. PICK copies \in Seq(Events) : Add(copies)
  <2>1. <<>> \in Seq(Events) /\ <<e>> \in Seq(Events) /\ <<e, e>> \in Seq(Events)
    OBVIOUS
  <2>2. CASE PublishAccepted(e)
    BY <2>1, <2>2 DEF PublishAccepted
  <2>3. CASE PublishFaulty(e)
    BY <2>1, <2>3 DEF PublishFaulty
  <2> QED
    BY <2>2, <2>3
<1>2. TypeOK /\ AckedIsAccounted
  BY DEF SafeInv, TypeInv
<1>3. /\ \A i \in Entries : stream'[i] = stream[i]
      /\ trimmed' \in Int /\ trimmed' >= trimmed /\ Len(stream') \in Nat
  BY <1>1, <1>2, AddType, LenProperties DEF TypeOK
<1>4. UNCHANGED <<group, cursor, pel, dead, raw, logs, convs, pc, batch>>
  BY DEF PublishAccepted, PublishFaulty, db
<1>5. \A f \in Events : Accounted(f) => Accounted(f)'
  BY <1>4, SettledStays
<1>6. \A v \in Workers : Phase(v)' /\ HoldsConversation(v)'
  BY <1>3, <1>4, <1>5, BystanderKept
<1>7. AckedIsAccounted'
  BY <1>2, <1>3, <1>4, <1>5, BooksKept
<1>8. OutcomesAgree' /\ SortedByKind' /\ NoDanglingConversation'
  BY <1>4 DEF SafeInv, OutcomesAgree, SortedByKind, NoDanglingConversation
<1> QED
  BY <1>6, <1>7, <1>8 DEF SafeInv

\* The invariant of the write path holds when nothing has been published.
LEMMA SafeInit == Init => SafeInv
<1> SUFFICES ASSUME Init PROVE SafeInv
  OBVIOUS
<1>1. TypeInv
  BY TypeInit
<1>2. \A w \in Workers : Phase(w) /\ HoldsConversation(w)
  BY DEF Init, Phase, HoldsConversation
<1>3. AckedIsAccounted
  BY DEF Init, AckedIsAccounted, Retained, Entries
<1>4. OutcomesAgree /\ SortedByKind
  BY DEF Init, OutcomesAgree, SortedByKind, Absent
<1>5. NoDanglingConversation
  BY ConvAssumption DEF Init, NoDanglingConversation
<1> QED
  BY <1>1, <1>2, <1>3, <1>4, <1>5 DEF SafeInv

\* No step of a worker, of the API or of the environment breaks it.
LEMMA SafeStep ==
  ASSUME SafeInv, [Next]_vars
  PROVE  SafeInv'
<1>1. TypeInv'
  BY TypeStep DEF SafeInv
<1>2. ASSUME NEW e \in Events, PublishAccepted(e) \/ PublishFaulty(e)
      PROVE  SafeInv'
  BY <1>1, <1>2, PublishStep
<1>3. ASSUME NEW c \in Convs, DeleteConversation(c)
      PROVE  SafeInv'
  BY <1>1, <1>3, DeleteStep
<1>4. ASSUME NEW w \in Workers, WorkerStep(w)
      PROVE  SafeInv'
  <2>1. CASE \/ Start(w) \/ Exit(w) \/ PollNoGroup(w) \/ Choke(w) \/ Record(w)
             \/ UpsertOrphan(w) \/ Resume(w)
    BY <1>1, <2>1, LocalStep
  <2>2. CASE Upsert(w) \/ MarkProcessed(w) \/ MarkFailed(w)
    BY <1>1, <2>2, StatementStep
  <2>3. CASE EnsureGroup(w)
    <3>1. /\ UNCHANGED <<stream, trimmed, dead, raw, logs, convs>>
          /\ \A v \in Workers \ {w} : pc'[v] = pc[v] /\ batch'[v] = batch[v]
          /\ pc'[w] = "poll"
      BY <2>3 DEF EnsureGroup, Goto, db, SafeInv, TypeInv, TypeOK
    <3>2. cursor' = 0 \/ UNCHANGED <<cursor, pel>>
      BY <2>3 DEF EnsureGroup, CreateGroup
    <3>3. AckedIsAccounted'
      BY <3>1, <3>2, NewBooks, SameBooks
    <3>4. Phase(w)' /\ HoldsConversation(w)'
      BY <3>1, FreePhase
    <3>5. SortedByKind'
      BY <3>1 DEF SafeInv, SortedByKind
    <3> QED
      BY <1>1, <3>1, <3>3, <3>4, <3>5, QuietStep
  <2>4. CASE Poll(w)
    <3>1. /\ UNCHANGED <<stream, trimmed, dead, raw, logs, convs>> /\ ReadNew
          /\ \A v \in Workers \ {w} : pc'[v] = pc[v] /\ batch'[v] = batch[v]
          /\ pc'[w] \notin {"upserted", "failed", "commit", "ack"}
      BY <2>4 DEF Poll, Goto, db, SafeInv, TypeInv, TypeOK
    <3>2. AckedIsAccounted'
      BY <3>1, ReadBooks
    <3>3. Phase(w)' /\ HoldsConversation(w)'
      BY <3>1, FreePhase
    <3>4. SortedByKind'
      BY <3>1 DEF SafeInv, SortedByKind
    <3> QED
      BY <1>1, <3>1, <3>2, <3>3, <3>4, QuietStep
  <2>5. CASE Divert(w)
    <3>1. /\ UNCHANGED <<stream, trimmed, group, cursor, pel, raw, logs, convs>>
          /\ \A v \in Workers \ {w} : pc'[v] = pc[v] /\ batch'[v] = batch[v]
          /\ pc'[w] = "ack" /\ batch'[w] = batch[w]
          /\ pc[w] \in Handling /\ KindOf(w) \in {"garbled", "noid"}
          /\ DeadLetter(Event(w))
      BY <2>5 DEF Divert, Goto, db, SafeInv, TypeInv, TypeOK, Handling
    <3> QED
      BY <1>1, <3>1, DivertStep
  <2>6. CASE DivertRejected(w)
    <3>1. /\ UNCHANGED <<stream, trimmed, group, cursor, pel, raw, logs, convs>>
          /\ \A v \in Workers \ {w} : pc'[v] = pc[v] /\ batch'[v] = batch[v]
          /\ pc'[w] = "commit" /\ batch'[w] = batch[w]
          /\ pc[w] = "failed" /\ pc[w] \in Handling
          /\ DeadLetter(Event(w))
      BY <2>6 DEF DivertRejected, Goto, db, SafeInv, TypeInv, TypeOK, Handling
    <3>2. KindOf(w) = "invalid"
      BY <3>1 DEF SafeInv, Phase
    <3> QED
      BY <1>1, <3>1, <3>2, DivertStep
  <2>7. CASE Commit(w)
    <3>1. /\ CommitEvent(Event(w)) /\ UNCHANGED <<redis, convs>> /\ pc[w] = "commit"
          /\ \A v \in Workers \ {w} : pc'[v] = pc[v] /\ batch'[v] = batch[v]
          /\ pc'[w] = "ack" /\ batch'[w] = batch[w]
      BY <2>7 DEF Commit, Goto, SafeInv, TypeInv, TypeOK
    <3> QED
      BY <1>1, <3>1, CommitStep
  <2>8. CASE Ack(w)
    <3>1. /\ UNCHANGED <<stream, trimmed, cursor, dead, raw, logs, convs>>
          /\ AckEntry(Current(w)) /\ pc[w] = "ack"
          /\ \A v \in Workers \ {w} : pc'[v] = pc[v] /\ batch'[v] = batch[v]
          /\ pc'[w] \notin {"upserted", "failed", "commit", "ack"}
      BY <2>8 DEF Ack, Goto, db, SafeInv, TypeInv, TypeOK
    <3>2. AckedIsAccounted'
      BY <3>1, AckBooks
    <3>3. Phase(w)' /\ HoldsConversation(w)'
      BY <3>1, FreePhase
    <3>4. SortedByKind'
      BY <3>1 DEF SafeInv, SortedByKind
    <3> QED
      BY <1>1, <3>1, <3>2, <3>3, <3>4, QuietStep
  <2> QED
    BY <1>4, <2>1, <2>2, <2>3, <2>4, <2>5, <2>6, <2>7, <2>8 DEF WorkerStep
<1>5. ASSUME NEW w \in Workers,
             RequestStop(w) \/ Crash(w) \/ DbFails(w) \/ RedisFails(w) \/ RedisReplyLost(w)
      PROVE  SafeInv'
  <2>1. CASE RequestStop(w) \/ Crash(w) \/ RedisFails(w)
    BY <1>1, <2>1, LocalStep
  <2>2. CASE DbFails(w)
    <3>1. /\ \A v \in Workers \ {w} : pc'[v] = pc[v] /\ batch'[v] = batch[v]
          /\ pc'[w] = "backoff" /\ UNCHANGED <<redis, convs>>
      BY <2>2 DEF DbFails, Abort, Goto, SafeInv, TypeInv, TypeOK
    <3>2. CASE pc[w] = "commit" /\ CommitEvent(Event(w))
      BY <1>1, <3>1, <3>2, CommitStep
    <3>3. CASE UNCHANGED <<raw, logs>>
      <4>1. UNCHANGED <<stream, trimmed, cursor, pel, dead>>
        BY <3>1 DEF redis
      <4>2. Phase(w)' /\ HoldsConversation(w)'
        BY <3>1, FreePhase
      <4>3. AckedIsAccounted' /\ SortedByKind'
        BY <3>3, <4>1, SameBooks DEF SafeInv, SortedByKind
      <4> QED
        BY <1>1, <3>1, <3>3, <4>1, <4>2, <4>3, QuietStep
    <3> QED
      BY <2>2, <3>2, <3>3 DEF DbFails
  <2>3. CASE RedisReplyLost(w)
    <3>1. /\ \A v \in Workers \ {w} : pc'[v] = pc[v] /\ batch'[v] = batch[v]
          /\ pc'[w] = "backoff" /\ UNCHANGED <<raw, logs, convs>>
      BY <2>3 DEF RedisReplyLost, Abort, Goto, db, SafeInv, TypeInv, TypeOK
    <3>2. Phase(w)' /\ HoldsConversation(w)'
      BY <3>1, FreePhase
    <3>3. CASE ReadNew /\ UNCHANGED <<stream, trimmed, group, dead>>
      <4>1. AckedIsAccounted' /\ SortedByKind'
        BY <3>1, <3>3, ReadBooks DEF SafeInv, SortedByKind
      <4> QED
        BY <1>1, <3>1, <3>2, <3>3, <4>1, QuietStep
    <3>4. CASE /\ \/ pc[w] = "failed"
                  \/ pc[w] = "handle" /\ KindOf(w) \in {"noid", "garbled"}
               /\ DeadLetter(Event(w))
               /\ UNCHANGED <<stream, trimmed, group, cursor, pel>>
      <4>1. pc[w] \in Handling /\ KindOf(w) \in {"garbled", "noid", "invalid"}
        BY <3>4 DEF SafeInv, Phase, Handling
      <4> QED
        BY <1>1, <3>1, <3>4, <4>1, DivertStep
    <3>5. CASE /\ pc[w] = "ack" /\ AckEntry(Current(w))
               /\ UNCHANGED <<stream, trimmed, group, cursor, dead>>
      <4>1. AckedIsAccounted' /\ SortedByKind'
        BY <3>1, <3>5, AckBooks DEF SafeInv, SortedByKind
      <4> QED
        BY <1>1, <3>1, <3>2, <3>5, <4>1, QuietStep
    <3> QED
      BY <2>3, <3>3, <3>4, <3>5 DEF RedisReplyLost
  <2> QED
    BY <1>5, <2>1, <2>2, <2>3
<1>6. CASE LoseGroup \/ LoseStream
  <2>1. /\ UNCHANGED <<stream, dead, raw, logs, convs, pc, batch>>
        /\ cursor' = 0
    BY <1>6 DEF LoseGroup, LoseStream, db
  <2>2. \A w \in Workers : Phase(w)' /\ HoldsConversation(w)'
    BY <2>1, SettledStays, BystanderKept
  <2>3. AckedIsAccounted'
    BY <1>1, <2>1, NewBooks DEF TypeInv, TypeOK
  <2>4. OutcomesAgree' /\ SortedByKind' /\ NoDanglingConversation'
    BY <2>1 DEF SafeInv, OutcomesAgree, SortedByKind, NoDanglingConversation
  <2> QED
    BY <1>1, <2>2, <2>3, <2>4 DEF SafeInv
<1>7. CASE UNCHANGED vars
  <2>1. UNCHANGED <<stream, trimmed, group, cursor, pel, dead, raw, logs, convs, pc, batch>>
    BY <1>7 DEF vars, redis, db
  <2>2. \A w \in Workers : Phase(w)' /\ HoldsConversation(w)'
    BY <2>1, SettledStays, BystanderKept
  <2>3. AckedIsAccounted'
    BY <2>1, SameBooks
  <2>4. OutcomesAgree' /\ SortedByKind' /\ NoDanglingConversation'
    BY <2>1 DEF SafeInv, OutcomesAgree, SortedByKind, NoDanglingConversation
  <2> QED
    BY <1>1, <2>2, <2>3, <2>4 DEF SafeInv
<1> QED
  BY <1>2, <1>3, <1>4, <1>5, <1>6, <1>7 DEF Next

\* The invariant of the write path.
LEMMA SafeInvariant == Spec => []SafeInv
<1>1. Init => SafeInv
  BY SafeInit
<1>2. SafeInv /\ [Next]_vars => SafeInv'
  BY SafeStep
<1> QED
  BY <1>1, <1>2, PTL DEF Spec

\* At-least-once delivery, as far as the code has it: whatever crashes, fails
\* or is replayed, an entry that is delivered and not pending any more has its
\* outcome in Postgres or on the dead-letter stream.
THEOREM AckedIsSafe == Spec => []AckedIsAccounted
<1>1. SafeInv => AckedIsAccounted
  BY DEF SafeInv
<1> QED
  BY <1>1, SafeInvariant, PTL

\* events_raw, inference_logs and the dead-letter stream never contradict
\* each other, although a worker writes them one after the other.
THEOREM OneStory == Spec => []OutcomesAgree
<1>1. SafeInv => OutcomesAgree
  BY DEF SafeInv
<1> QED
  BY <1>1, SafeInvariant, PTL

\* No order of deletions and ingestion leaves a log row naming a conversation
\* that is gone.
THEOREM NoDangling == Spec => []NoDanglingConversation
<1>1. SafeInv => NoDanglingConversation
  BY DEF SafeInv
<1> QED
  BY <1>1, SafeInvariant, PTL

\* A commit adds the row an event did not have, and leaves a row it had alone.
LEMMA CommitIsFinal ==
  ASSUME TypeOK, NEW e \in Events, NEW f \in Events, CommitEvent(f), logs[e] # Absent
  PROVE  logs'[e] = logs[e]
<1>1. CASE logs' = logs
  BY <1>1
<1>2. CASE logs[f] = Absent /\ logs' = [logs EXCEPT ![f] = ConvOf[f]]
  <2>1. e # f /\ logs \in [Events -> Convs \cup {NoConv, Absent}]
    BY <1>2 DEF TypeOK
  <2> QED
    BY <1>2, <2>1
<1> QED
  BY <1>1, <1>2 DEF CommitEvent

\* What a worker does to the rows.
LEMMA WorkerLogs ==
  ASSUME TypeInv, NEW w \in Workers,
         WorkerStep(w) \/ RequestStop(w) \/ Crash(w) \/ DbFails(w) \/ RedisFails(w)
         \/ RedisReplyLost(w)
  PROVE  logs' = logs \/ \E f \in Events : CommitEvent(f)
<1>1. CASE pc[w] = "commit" /\ CommitEvent(Event(w))
  <2>1. Event(w) \in Events
    BY <1>1, CurrentType DEF TypeInv, BusyHasBatch, Handling
  <2> QED
    BY <1>1, <2>1
<1>2. CASE ~(pc[w] = "commit" /\ CommitEvent(Event(w)))
  BY <1>2 DEF WorkerStep, Start, EnsureGroup, Exit, Poll, PollNoGroup, Divert, Choke, Record,
     Upsert, UpsertOrphan, MarkProcessed, MarkFailed, DivertRejected, Commit, Ack, Resume,
     RequestStop, Crash, DbFails, RedisFails, RedisReplyLost, db
<1> QED
  BY <1>1, <1>2

\* A deletion takes the name of the conversation out of its rows, nothing else.
LEMMA DeleteIsFinal ==
  ASSUME TypeOK, NEW e \in Events, NEW c \in Convs, DeleteConversation(c), logs[e] # Absent
  PROVE  logs'[e] = logs[e] \/ (logs'[e] = NoConv /\ logs[e] \notin convs')
<1>1. logs'[e] = IF logs[e] = c THEN NoConv ELSE logs[e]
  BY DEF DeleteConversation
<1>2. c \notin convs'
  BY DEF DeleteConversation
<1> QED
  BY <1>1, <1>2

\* A log row, once there, is never written again: redeliveries, replays and
\* other workers leave it, and a deletion only takes the name of the deleted
\* conversation out of it.
THEOREM RowsAreFinal == Spec => LogRowsAreFinal
<1>1. ASSUME TypeInv, [Next]_vars, NEW e \in Events, logs[e] # Absent
      PROVE  \/ logs'[e] = logs[e]
             \/ logs'[e] = NoConv /\ logs[e] \notin convs'
  <2>1. CASE logs' = logs
    BY <2>1
  <2>2. CASE \E f \in Events : CommitEvent(f)
    BY <1>1, <2>2, CommitIsFinal DEF TypeInv
  <2>3. CASE \E c \in Convs : DeleteConversation(c)
    BY <1>1, <2>3, DeleteIsFinal DEF TypeInv
  <2>4. \/ logs' = logs
        \/ \E f \in Events : CommitEvent(f)
        \/ \E c \in Convs : DeleteConversation(c)
    <3>1. CASE \E f \in Events : PublishAccepted(f) \/ PublishFaulty(f)
      BY <3>1 DEF PublishAccepted, PublishFaulty, db
    <3>2. CASE LoseGroup \/ LoseStream \/ UNCHANGED vars
      BY <3>2 DEF LoseGroup, LoseStream, vars, db
    <3>3. CASE \E w \in Workers :
                 \/ WorkerStep(w)
                 \/ RequestStop(w) \/ Crash(w)
                 \/ DbFails(w) \/ RedisFails(w) \/ RedisReplyLost(w)
      BY <1>1, <3>3, WorkerLogs
    <3> QED
      BY <1>1, <3>1, <3>2, <3>3 DEF Next
  <2> QED
    BY <2>1, <2>2, <2>3, <2>4
<1>2. TypeInv /\ [Next]_vars =>
        [\A e \in Events :
           logs[e] # Absent =>
             \/ logs'[e] = logs[e]
             \/ logs'[e] = NoConv /\ logs[e] \notin convs']_vars
  BY <1>1
<1>3. Init => TypeInv
  BY TypeInit
<1>4. TypeInv /\ [Next]_vars => TypeInv'
  BY TypeStep
<1> QED
  BY <1>2, <1>3, <1>4, PTL DEF Spec, LogRowsAreFinal
=============================================================================
