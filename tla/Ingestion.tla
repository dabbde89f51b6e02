----------------------------- MODULE Ingestion ------------------------------
(***************************************************************************)
(* The write path of the observability pipeline: the API publishes events  *)
(* to a Redis stream, worker processes read it through one consumer group  *)
(* and land every event in Postgres (events_raw and inference_logs, one    *)
(* transaction per event), and acknowledge last.                           *)
(*                                                                         *)
(* Redis and Postgres are modelled by the commands the code sends them.    *)
(* Each action of a worker is one command, so every place where another    *)
(* process, an outage or a SIGKILL can come between two commands is a      *)
(* state of the model.                                                     *)
(***************************************************************************)
EXTENDS Integers, Sequences

CONSTANTS
  Events,      \* event ids
  Kind,        \* what the payload published under each id is, see Kinds
  Convs,       \* conversations that exist when the run starts
  ConvOf,      \* the conversation an event names
  NoConv,      \* SQL NULL in inference_logs.conversation_id
  Workers,     \* worker processes (replicas of the worker deployment)
  BatchSize,   \* COUNT of XREADGROUP
  MaxLen,      \* MAXLEN of the stream
  Faults,      \* the kinds of fault a run admits
  MaxFaults    \* how many of them

(***************************************************************************)
(* valid    a payload InferenceEvent accepts                               *)
(* invalid  a JSON object with a UUID id that the schema rejects           *)
(* noid     a JSON object without a usable id                              *)
(* scalar   JSON, but not an object: decoding accepts it, .get() does not  *)
(* garbled  not JSON at all, or no data field                              *)
(***************************************************************************)
Kinds == {"valid", "invalid", "noid", "scalar", "garbled"}

FaultKinds ==
  {"publish", "crash", "stop", "redis", "db", "group", "stream", "delete"}

Absent == "absent"

ASSUME KindAssumption == Kind \in [Events -> Kinds]
ASSUME ConvAssumption ==
  /\ ConvOf \in [Events -> Convs]
  /\ NoConv \notin Convs
  /\ Absent \notin Convs \cup {NoConv}
ASSUME SizeAssumption ==
  /\ BatchSize \in Nat \ {0}
  /\ MaxLen \in Nat \ {0}
  /\ MaxFaults \in Nat
  /\ Faults \subseteq FaultKinds

VARIABLES
  stream,   \* every entry ever added; the index of an entry is its delivery id
  trimmed,  \* entries 1..trimmed are gone from the stream
  group,    \* does the consumer group exist
  cursor,   \* the group's last-delivered id
  pel,      \* the group's pending entries: delivered, not acknowledged
  dead,     \* payloads added to the dead-letter stream, whose own cap (10000)
            \* no run comes near
  raw,      \* events_raw.processing_status of each event id, committed
  logs,     \* inference_logs.conversation_id of each event id, committed
  convs,    \* conversations that exist
  pub,      \* what publish() reported to the wrapper
  pc,       \* where each worker is
  batch,    \* entries of the current reply a worker has not finished
  stop,     \* has the worker been asked to stop (SIGTERM)
  faults    \* faults so far

redis == <<stream, trimmed, group, cursor, pel, dead>>
db    == <<raw, logs, convs>>
vars  == <<redis, db, pub, pc, batch, stop, faults>>

----------------------------------------------------------------------------
(* Vocabulary *)

Larger(a, b)  == IF a >= b THEN a ELSE b
Smaller(a, b) == IF a <= b THEN a ELSE b

Entries  == 1 .. Len(stream)
Retained == {i \in Entries : i > trimmed}

Least(S) == CHOOSE i \in S : \A j \in S : i <= j

\* poll() decodes the whole reply before it returns anything, so the entries
\* that are not JSON are diverted first; the rest is handled in order.
GarbledIn(w) == {i \in batch[w] : Kind[stream[i]] = "garbled"}
Current(w) == Least(IF GarbledIn(w) # {} THEN GarbledIn(w) ELSE batch[w])
Event(w) == stream[Current(w)]
KindOf(w) == Kind[Event(w)]

\* The program points inside the transaction of one event.
InTxn(w) == pc[w] \in {"recorded", "upserted", "failed", "commit"}

\* Rows of uncommitted inserts and updates are locked until the end of the
\* transaction; the foreign key check locks the conversation it finds.
InsertsRow(v, e) == InTxn(v) /\ Event(v) = e /\ raw[e] = Absent
UpdatedRow(v, e) == pc[v] \in {"failed", "commit"} /\ Event(v) = e
SharesConv(v, c) ==
  /\ pc[v] \in {"upserted", "commit"}
  /\ KindOf(v) = "valid"
  /\ logs[Event(v)] = Absent
  /\ ConvOf[Event(v)] = c

Goto(w, p) == pc' = [pc EXCEPT ![w] = p]

\* A fault uses up the budget of the run.
Fault(k) == k \in Faults /\ faults < MaxFaults /\ faults' = faults + 1

----------------------------------------------------------------------------
(* What a command does to the store it is sent to *)

\* Mutant: a worker that starts sets the group back to the first entry.
ResetGroup ==
  /\ group' = TRUE
  /\ cursor' = 0
  /\ pel' = {}

\* XGROUP CREATE ... 0 MKSTREAM: BUSYGROUP leaves an existing group alone.
CreateGroup ==
  /\ group' = TRUE
  /\ cursor' = IF group THEN cursor ELSE 0
  /\ pel' = IF group THEN pel ELSE {}

\* XREADGROUP ... > hands out the oldest entries after the cursor, and never
\* an entry that is already pending.
Floor == Larger(cursor, trimmed)
Ceiling == Smaller(Len(stream), Floor + BatchSize)
Unread == Floor + 1 .. Ceiling

ReadNew ==
  /\ cursor' = IF Unread = {} THEN cursor ELSE Ceiling
  /\ pel' = pel \cup Unread

AckEntry(i) == pel' = pel \ {i}

\* XADD to the dead-letter stream.
DeadLetter(e) == dead' = dead \cup {e}

\* Mutant: nothing marks the raw row processed.
CommitUnmarked(e) ==
  /\ raw' = [raw EXCEPT ![e] = IF Kind[e] = "valid" THEN "pending" ELSE "failed"]
  /\ logs' = [logs EXCEPT ![e] = IF Kind[e] = "valid" THEN ConvOf[e] ELSE @]

\* Mutant: ON CONFLICT DO UPDATE.
CommitOverwriting(e) ==
  /\ raw' = [raw EXCEPT ![e] = IF Kind[e] = "valid" THEN "processed" ELSE "failed"]
  /\ logs' = [logs EXCEPT ![e] = IF Kind[e] = "valid" THEN ConvOf[e] ELSE @]

\* The commit of the transaction _handle ran for event e.
CommitEvent(e) ==
  /\ raw' = [raw EXCEPT ![e] = IF Kind[e] = "valid" THEN "processed" ELSE "failed"]
  /\ logs' = IF Kind[e] = "valid" /\ logs[e] = Absent
               THEN [logs EXCEPT ![e] = ConvOf[e]]
               ELSE logs

\* Mutant: the cap is one entry short.
AddCappedLower(copies) ==
  /\ stream' = stream \o copies
  /\ trimmed' \in trimmed .. Larger(trimmed, Len(stream') - (MaxLen - 1))

\* XADD ... MAXLEN ~ n: Redis may drop old entries beyond the newest n.
Add(copies) ==
  /\ stream' = stream \o copies
  /\ trimmed' \in trimmed .. Larger(trimmed, Len(stream') - MaxLen)

----------------------------------------------------------------------------
(* The API side *)

\* publish() of one event: accepted, or given up on (an error or the
\* timeout), in which case the command may have reached Redis all the same;
\* and the client's own retry may have added the entry twice.
PublishAccepted(e) ==
  /\ pub[e] = "unsent"
  /\ Add(<<e>>)
  /\ pub' = [pub EXCEPT ![e] = "accepted"]
  /\ UNCHANGED <<group, cursor, pel, dead, db, pc, batch, stop, faults>>

PublishFaulty(e) ==
  /\ pub[e] = "unsent"
  /\ Fault("publish")
  /\ \/ /\ Add(<<e, e>>)
        /\ pub' = [pub EXCEPT ![e] = "accepted"]
     \/ /\ \E copies \in {<<>>, <<e>>, <<e, e>>} : Add(copies)
        /\ pub' = [pub EXCEPT ![e] = "dropped"]
  /\ UNCHANGED <<group, cursor, pel, dead, db, pc, batch, stop>>

\* Mutant: ON DELETE CASCADE.
DeleteCascading(c) ==
  /\ c \in convs
  /\ Fault("delete")
  /\ \A v \in Workers : ~SharesConv(v, c)
  /\ convs' = convs \ {c}
  /\ logs' = [e \in Events |-> IF logs[e] = c THEN Absent ELSE logs[e]]
  /\ UNCHANGED <<redis, raw, pub, pc, batch, stop>>

\* Mutant: no ON DELETE action.
DeleteLeavingLogs(c) ==
  /\ c \in convs
  /\ Fault("delete")
  /\ \A v \in Workers : ~SharesConv(v, c)
  /\ convs' = convs \ {c}
  /\ UNCHANGED <<redis, raw, logs, pub, pc, batch, stop>>

\* DELETE /conversations/{id}: the log rows that name it get NULL.  The
\* deletion waits for transactions that hold the row.
DeleteConversation(c) ==
  /\ c \in convs
  /\ Fault("delete")
  /\ \A v \in Workers : ~SharesConv(v, c)
  /\ convs' = convs \ {c}
  /\ logs' = [e \in Events |-> IF logs[e] = c THEN NoConv ELSE logs[e]]
  /\ UNCHANGED <<redis, raw, pub, pc, batch, stop>>

----------------------------------------------------------------------------
(* The worker *)

\* A replaced pod, or a restarted container: a new process.
Start(w) ==
  /\ pc[w] = "down"
  /\ Goto(w, "starting")
  /\ UNCHANGED <<redis, db, pub, batch, stop, faults>>

\* ensure_group(), at start-up and after poll() met NOGROUP.
EnsureGroup(w) ==
  /\ pc[w] \in {"starting", "nogroup"}
  /\ CreateGroup
  /\ Goto(w, "poll")
  /\ UNCHANGED <<stream, trimmed, dead, db, pub, batch, stop, faults>>

\* The loop head of run_forever finds the stop flag.
Exit(w) ==
  /\ pc[w] = "poll"
  /\ stop[w]
  /\ Goto(w, "down")
  /\ stop' = [stop EXCEPT ![w] = FALSE]
  /\ UNCHANGED <<redis, db, pub, batch, faults>>

Poll(w) ==
  /\ pc[w] = "poll"
  /\ ~stop[w]
  /\ group
  /\ ReadNew
  /\ batch' = [batch EXCEPT ![w] = Unread]
  /\ Goto(w, IF Unread = {} THEN "poll" ELSE "handle")
  /\ UNCHANGED <<stream, trimmed, group, dead, db, pub, stop, faults>>

\* Mutant: poll() raises NOGROUP like any other error.
PollNoGroupRaises(w) ==
  /\ pc[w] = "poll"
  /\ ~stop[w]
  /\ ~group
  /\ Goto(w, "backoff")
  /\ UNCHANGED <<redis, db, pub, batch, stop, faults>>

PollNoGroup(w) ==
  /\ pc[w] = "poll"
  /\ ~stop[w]
  /\ ~group
  /\ Goto(w, "nogroup")
  /\ UNCHANGED <<redis, db, pub, batch, stop, faults>>

\* An entry that cannot enter the pipeline: not JSON, or without an id.
Divert(w) ==
  /\ pc[w] = "handle"
  /\ KindOf(w) \in {"garbled", "noid"}
  /\ DeadLetter(Event(w))
  /\ Goto(w, "ack")
  /\ UNCHANGED <<stream, trimmed, group, cursor, pel, db, pub, batch, stop, faults>>

\* An exception anywhere in process_batch: the rest of the reply is dropped,
\* an open transaction rolls back, the loop sleeps and goes on.
Abort(w) ==
  /\ Goto(w, "backoff")
  /\ batch' = [batch EXCEPT ![w] = {}]

\* payload.get() of a payload that is no object raises AttributeError.
Choke(w) ==
  /\ pc[w] = "handle"
  /\ KindOf(w) = "scalar"
  /\ Abort(w)
  /\ UNCHANGED <<redis, db, pub, stop, faults>>

\* Mutant: acknowledge first.
RecordAfterAck(w) ==
  /\ pc[w] = "handle"
  /\ KindOf(w) \in {"valid", "invalid"}
  /\ \A v \in Workers \ {w} : ~InsertsRow(v, Event(w))
  /\ AckEntry(Current(w))
  /\ Goto(w, "recorded")
  /\ UNCHANGED <<stream, trimmed, group, cursor, dead, db, pub, batch, stop, faults>>

\* INSERT INTO events_raw ... ON CONFLICT DO NOTHING waits for another
\* transaction that is inserting the same id.
Record(w) ==
  /\ pc[w] = "handle"
  /\ KindOf(w) \in {"valid", "invalid"}
  /\ \A v \in Workers \ {w} : ~InsertsRow(v, Event(w))
  /\ Goto(w, "recorded")
  /\ UNCHANGED <<redis, db, pub, batch, stop, faults>>

\* Mutant: the log row is committed by a transaction of its own.
UpsertCommitted(w) ==
  /\ pc[w] = "recorded"
  /\ KindOf(w) = "valid"
  /\ logs[Event(w)] # Absent \/ ConvOf[Event(w)] \in convs
  /\ logs' = [logs EXCEPT ![Event(w)] = IF @ = Absent THEN ConvOf[Event(w)] ELSE @]
  /\ Goto(w, "upserted")
  /\ UNCHANGED <<redis, raw, convs, pub, batch, stop, faults>>

\* INSERT INTO inference_logs ... ON CONFLICT DO NOTHING.  The conflict is
\* found first: only a row that is really inserted is checked against
\* conversations.
Upsert(w) ==
  /\ pc[w] = "recorded"
  /\ KindOf(w) = "valid"
  /\ logs[Event(w)] # Absent \/ ConvOf[Event(w)] \in convs
  /\ Goto(w, "upserted")
  /\ UNCHANGED <<redis, db, pub, batch, stop, faults>>

\* The foreign key check fails: IntegrityError, and the raw row rolls back
\* with the rest.
UpsertOrphan(w) ==
  /\ pc[w] = "recorded"
  /\ KindOf(w) = "valid"
  /\ logs[Event(w)] = Absent
  /\ ConvOf[Event(w)] \notin convs
  /\ Abort(w)
  /\ UNCHANGED <<redis, db, pub, stop, faults>>

MarkProcessed(w) ==
  /\ pc[w] = "upserted"
  /\ \A v \in Workers \ {w} : ~UpdatedRow(v, Event(w))
  /\ Goto(w, "commit")
  /\ UNCHANGED <<redis, db, pub, batch, stop, faults>>

MarkFailed(w) ==
  /\ pc[w] = "recorded"
  /\ KindOf(w) = "invalid"
  /\ \A v \in Workers \ {w} : ~UpdatedRow(v, Event(w))
  /\ Goto(w, "failed")
  /\ UNCHANGED <<redis, db, pub, batch, stop, faults>>

\* dead_letter() is awaited inside the transaction.
DivertRejected(w) ==
  /\ pc[w] = "failed"
  /\ DeadLetter(Event(w))
  /\ Goto(w, "commit")
  /\ UNCHANGED <<stream, trimmed, group, cursor, pel, db, pub, batch, stop, faults>>

Commit(w) ==
  /\ pc[w] = "commit"
  /\ CommitEvent(Event(w))
  /\ Goto(w, "ack")
  /\ UNCHANGED <<redis, convs, pub, batch, stop, faults>>

Ack(w) ==
  /\ pc[w] = "ack"
  /\ AckEntry(Current(w))
  /\ batch' = [batch EXCEPT ![w] = @ \ {Current(w)}]
  /\ Goto(w, IF batch'[w] = {} THEN "poll" ELSE "handle")
  /\ UNCHANGED <<stream, trimmed, group, cursor, dead, db, pub, stop, faults>>

\* asyncio.sleep(1.0) is over.
Resume(w) ==
  /\ pc[w] = "backoff"
  /\ Goto(w, "poll")
  /\ UNCHANGED <<redis, db, pub, batch, stop, faults>>

WorkerStep(w) ==
  \/ Start(w) \/ EnsureGroup(w) \/ Exit(w)
  \/ Poll(w) \/ PollNoGroup(w)
  \/ Divert(w) \/ Choke(w)
  \/ Record(w) \/ Upsert(w) \/ UpsertOrphan(w) \/ MarkProcessed(w)
  \/ MarkFailed(w) \/ DivertRejected(w)
  \/ Commit(w) \/ Ack(w) \/ Resume(w)

----------------------------------------------------------------------------
(* Faults *)

\* SIGTERM: only a flag.
RequestStop(w) ==
  /\ pc[w] # "down"
  /\ ~stop[w]
  /\ Fault("stop")
  /\ stop' = [stop EXCEPT ![w] = TRUE]
  /\ UNCHANGED <<redis, db, pub, pc, batch>>

\* SIGKILL, or the machine: the open transaction is rolled back, and nothing
\* of the reply survives.
Crash(w) ==
  /\ pc[w] # "down"
  /\ Fault("crash")
  /\ Goto(w, "down")
  /\ batch' = [batch EXCEPT ![w] = {}]
  /\ stop' = [stop EXCEPT ![w] = FALSE]
  /\ UNCHANGED <<redis, db, pub>>

\* A statement fails; a failed COMMIT may have been applied.
DbFails(w) ==
  /\ \/ InTxn(w)
     \/ pc[w] = "handle" /\ KindOf(w) \in {"valid", "invalid"}
  /\ Fault("db")
  /\ Abort(w)
  /\ \/ UNCHANGED <<raw, logs>>
     \/ pc[w] = "commit" /\ CommitEvent(Event(w))
  /\ UNCHANGED <<redis, convs, pub, stop>>

\* A Redis command fails before it reaches the server.  At start-up the
\* exception ends the process.
RedisFails(w) ==
  /\ \/ pc[w] \in {"starting", "nogroup", "failed", "ack"}
     \/ pc[w] = "poll" /\ ~stop[w]
     \/ pc[w] = "handle" /\ KindOf(w) \in {"noid", "garbled"}
  /\ Fault("redis")
  /\ IF pc[w] = "starting" THEN Goto(w, "down") /\ UNCHANGED batch ELSE Abort(w)
  /\ UNCHANGED <<redis, db, pub, stop>>

\* A Redis command is applied and its reply is lost.
RedisReplyLost(w) ==
  /\ Fault("redis")
  /\ Abort(w)
  /\ \/ /\ pc[w] = "poll" /\ group /\ ~stop[w]
        /\ ReadNew
        /\ UNCHANGED <<stream, trimmed, group, dead>>
     \/ /\ \/ pc[w] = "failed"
           \/ pc[w] = "handle" /\ KindOf(w) \in {"noid", "garbled"}
        /\ DeadLetter(Event(w))
        /\ UNCHANGED <<stream, trimmed, group, cursor, pel>>
     \/ /\ pc[w] = "ack"
        /\ AckEntry(Current(w))
        /\ UNCHANGED <<stream, trimmed, group, cursor, dead>>
  /\ UNCHANGED <<db, pub, stop>>

\* The group vanishes: XGROUP DESTROY, a restore from an older snapshot.
LoseGroup ==
  /\ group
  /\ Fault("group")
  /\ group' = FALSE
  /\ cursor' = 0
  /\ pel' = {}
  /\ UNCHANGED <<stream, trimmed, dead, db, pub, pc, batch, stop>>

\* The stream key vanishes, and its groups with it: an eviction, DEL.
LoseStream ==
  /\ Fault("stream")
  /\ trimmed' = Len(stream)
  /\ group' = FALSE
  /\ cursor' = 0
  /\ pel' = {}
  /\ UNCHANGED <<stream, dead, db, pub, pc, batch, stop>>

----------------------------------------------------------------------------
Init ==
  /\ stream = <<>> /\ trimmed = 0
  /\ group = FALSE /\ cursor = 0 /\ pel = {}
  /\ dead = {}
  /\ raw = [e \in Events |-> Absent]
  /\ logs = [e \in Events |-> Absent]
  /\ convs = Convs
  /\ pub = [e \in Events |-> "unsent"]
  /\ pc = [w \in Workers |-> "starting"]
  /\ batch = [w \in Workers |-> {}]
  /\ stop = [w \in Workers |-> FALSE]
  /\ faults = 0

Next ==
  \/ \E e \in Events : PublishAccepted(e) \/ PublishFaulty(e)
  \/ \E c \in Convs : DeleteConversation(c)
  \/ \E w \in Workers :
       \/ WorkerStep(w)
       \/ RequestStop(w) \/ Crash(w)
       \/ DbFails(w) \/ RedisFails(w) \/ RedisReplyLost(w)
  \/ LoseGroup
  \/ LoseStream

Spec == Init /\ [][Next]_vars

\* A worker that runs goes on running, and the deployment restarts one that
\* does not.  Nothing makes users send messages or faults happen.
FairSpec == Spec /\ \A w \in Workers : WF_vars(WorkerStep(w))
----------------------------------------------------------------------------
(* Properties *)

PublishStates == {"unsent", "accepted", "dropped"}
Points == {"down", "starting", "poll", "nogroup", "handle", "recorded",
           "upserted", "failed", "commit", "ack", "backoff"}

\* Every variable keeps its type, and the ids the group and the workers hold
\* are ids of entries (redis_bus.py poll, consumer.py _handle).
TypeOK ==
  /\ stream \in Seq(Events)
  /\ trimmed \in 0 .. Len(stream)
  /\ group \in BOOLEAN
  /\ cursor \in 0 .. Len(stream)
  /\ pel \subseteq Entries
  /\ dead \subseteq Events
  /\ raw \in [Events -> {Absent, "processed", "failed"}]
  /\ logs \in [Events -> Convs \cup {NoConv, Absent}]
  /\ convs \subseteq Convs
  /\ pub \in [Events -> PublishStates]
  /\ pc \in [Workers -> Points]
  /\ batch \in [Workers -> SUBSET Entries]
  /\ stop \in [Workers -> BOOLEAN]
  /\ faults \in Nat

\* Where the outcome of an event can be found once it has one.
Accounted(e) ==
  \/ Kind[e] = "valid" /\ raw[e] = "processed" /\ logs[e] # Absent
  \/ Kind[e] = "invalid" /\ raw[e] = "failed" /\ e \in dead
  \/ Kind[e] \in {"noid", "garbled"} /\ e \in dead

\* Acknowledging last (consumer.py _handle): an entry the group counts as
\* delivered and no longer holds pending has its outcome on record, whatever
\* crashed, failed, was redelivered or was acknowledged by another worker.
AckedIsAccounted ==
  \A i \in Retained :
    i <= cursor /\ i \notin pel => Accounted(stream[i])

\* The two tables and the dead-letter stream tell one story: events_raw says
\* processed exactly where inference_logs has the row, says failed only of a
\* payload that is on the dead-letter stream, and no payload that has a log
\* row is there (consumer.py _handle).
OutcomesAgree ==
  \A e \in Events :
    /\ raw[e] = "processed" <=> logs[e] # Absent
    /\ raw[e] = "failed" => e \in dead
    /\ e \in dead => logs[e] = Absent

\* ON DELETE SET NULL against uncommitted inserts: no log row names a
\* conversation that is gone (models.py InferenceLog.conversation_id).
NoDanglingConversation == \A e \in Events : logs[e] \in Convs => logs[e] \in convs

\* A redelivery absorbed by ON CONFLICT DO NOTHING leaves the first row as it
\* is, even after the conversation was deleted (inference_logs.py upsert).
LogRowsAreFinal ==
  [][\A e \in Events :
       logs[e] # Absent =>
         \/ logs'[e] = logs[e]
         \/ logs'[e] = NoConv /\ logs[e] \notin convs']_vars

\* Redis hands each entry to exactly one consumer (redis_bus.py
\* RedisEventStream), as long as the group is not lost and created again.
ExclusiveDelivery ==
  \A v, w \in Workers : v # w => batch[v] \cap batch[w] = {}

\* An entry is still to be handled, or its handling to be finished.
Waiting(i) == i \in Retained /\ (i > cursor \/ i \in pel)

\* An entry is gone with the stream, or as many newer ones as the stream may
\* hold have come after it.
Overrun(i) == i <= trimmed /\ ("stream" \in Faults \/ i + MaxLen <= Len(stream))

\* What publish() reports as accepted is not lost on the way but by the cap: an
\* accepted event has its outcome on record, or an entry of it waits on the
\* stream, unread or pending, or has MaxLen newer entries behind it, whoever
\* read, acknowledged, crashed or trimmed (redis_bus.py publish, poll and ack,
\* consumer.py _handle).
AcceptedIsKept ==
  \A e \in Events : pub[e] = "accepted" =>
    Accounted(e) \/ \E i \in Entries : stream[i] = e /\ (Waiting(i) \/ Overrun(i))

\* The pipeline implements the ledger: one final outcome per event.
InHand(e) == \E w \in Workers : \E i \in batch[w] : stream[i] = e
HasCopy(e) == InHand(e) \/ \E i \in Retained : stream[i] = e

Status(e) ==
  IF pub[e] = "unsent" THEN "new"
  ELSE IF logs[e] # Absent THEN "recorded"
  ELSE IF e \in dead THEN "rejected"
  ELSE IF HasCopy(e) THEN "queued" ELSE "lost"

L == INSTANCE Ledger WITH status <- [e \in Events |-> Status(e)]
OneOutcome == L!Spec

\* What is on the stream is ingested: with workers that run or are restarted,
\* an event the stream holds gets its outcome, whether its entries have been
\* read before or the group is made again, as long as the stream holds it
\* (worker/consumer.py run, redis_bus.py ensure_group).
OnStream(e) == \E i \in Retained : stream[i] = e
Ingested == \A e \in Events : OnStream(e) ~> Accounted(e) \/ ~OnStream(e)

----------------------------------------------------------------------------
(* What the documentation says, and the code does not do *)

\* "if the process dies between the write and the ack, Redis redelivers": an
\* event left pending with no worker handling it reaches a worker again
\* (consumer.py module comment).
LeftPending(e) == (\E i \in pel : stream[i] = e) /\ ~InHand(e)
UnackedIsRedelivered == \A e \in Events : LeftPending(e) ~> InHand(e)

\* "Inference logs survive": an event whose conversation is deleted while the
\* event waits on the stream still becomes a log row (api/conversations.py).
LogsSurviveDeletion ==
  \A e \in Events :
    /\ Kind[e] = "valid"
    /\ ConvOf[e] \notin convs
    /\ OnStream(e)
    ~> logs[e] # Absent
=============================================================================
