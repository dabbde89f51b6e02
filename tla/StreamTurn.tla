----------------------------- MODULE StreamTurn -----------------------------
(***************************************************************************)
(* One streaming chat request: POST /chat/stream.                          *)
(*                                                                         *)
(* The response generator (the consumer) starts a producer task and a      *)
(* watcher task.  The producer runs the turn: it commits the user message, *)
(* iterates over the instrumented provider call, commits the reply, and    *)
(* puts frames on a bounded queue.  The consumer sends them.  A client     *)
(* that goes away has the producer cancelled by the watcher, by the        *)
(* consumer's cleanup, or by both, again and again.                        *)
(*                                                                         *)
(* asyncio runs one task at a time and switches only where a task really   *)
(* waits, so one action of a task is everything it does from one such      *)
(* place to the next.  Task.cancel() raises CancelledError at the place    *)
(* the task is waiting in; a second cancel() before that changes nothing.  *)
(***************************************************************************)
EXTENDS Naturals, Sequences, FiniteSets

CONSTANTS
  QueueSize,  \* _QUEUE_SIZE of api/sse.py
  MaxChunks,  \* how many chunks of text the provider yields at most
  Failures    \* which failures the environment has, see FailureKinds

\* provider: the adapter raises ProviderError; bug: it raises anything else;
\* db: a transaction fails; delete: the conversation is deleted meanwhile;
\* clock: the wall clock steps back during the call, and the event, which
\* would complete before it started, fails its own validation.
FailureKinds == {"provider", "bug", "db", "delete", "clock"}

ASSUME StreamAssumption ==
  /\ QueueSize \in Nat \ {0}
  /\ MaxChunks \in Nat
  /\ Failures \subseteq FailureKinds

VARIABLES
  client,     \* "connected", "gone"
  conv,       \* does the conversation exist
  user,       \* is the user message committed
  replies,    \* assistant messages committed, each by its number of chunks
  ppc,        \* what the producer waits for next: see Waits
  out,        \* frames the producer still has to put before it gets there
  cancel,     \* cancel() was called on the producer and not yet delivered
  why,        \* the exception that is on its way through the producer
  parts,      \* chunks of text collected by stream()
  called,     \* the provider call was started
  status,     \* InferenceEvent.status, once the call is over; "refused" if the
              \* event could not be built
  begun,      \* publish tasks created
  published,  \* publish tasks finished
  saving,     \* the shielded task of _persist_partial: see Savings
  abandoned,  \* generators left suspended by a cancelled producer
  queue,      \* the frames between producer and consumer
  cpc,        \* the consumer: see ConsumerPoints
  frame,      \* the frame it is sending
  received,   \* what reached the client
  watcher     \* "watching", "ended"

world    == <<client, conv>>
stored   == <<user, replies>>
call     == <<parts, called, status, begun>>
tasks    == <<published, saving>>
consumer == <<cpc, frame, received>>
vars     == <<world, stored, ppc, out, cancel, why, call, tasks, abandoned,
              queue, consumer, watcher>>

\* user turn, provider chunk, shielded publish, reply transaction, shielded
\* partial save; "finish" is the end of the generator, "ended" of the task,
\* and "mute" its end without a sentinel.
Waits ==
  {"turn", "provider", "publish", "final", "partial", "finish", "ended", "mute"}

Frames == {"start", "ttft", "delta", "done", "failed"}
Eos == "eos"   \* the _DONE sentinel

----------------------------------------------------------------------------
(* Running to the next place to wait *)

\* Mutant: an off-by-one in the bound.
RoomForOneMore == QueueSize + 1 - Len(queue)

Room == QueueSize - Len(queue)
Fits(s) == SubSeq(s, 1, IF Len(s) < Room THEN Len(s) ELSE Room)
Rest(s) == SubSeq(s, Len(Fits(s)) + 1, Len(s))

\* Mutant: the newest frame makes room for the sentinel.
WithEosInstead(q) ==
  IF Len(q) < QueueSize THEN Append(q, Eos) ELSE [q EXCEPT ![Len(q)] = Eos]

\* put_nowait(_DONE) in the finally of produce(): QueueFull is suppressed.
WithEos(q) == IF Len(q) < QueueSize THEN Append(q, Eos) ELSE q

EndWith(q) ==
  /\ queue' = WithEos(q)
  /\ ppc' = IF Len(q) < QueueSize THEN "ended" ELSE "mute"

ProducerEnded == ppc \in {"ended", "mute"}

\* Put the frames, then wait for next: suspended in put() while the queue is
\* full, and past the end of the generator as soon as the last frame is in.
PutThen(frames, next) ==
  LET q == queue \o Fits(frames) IN
  /\ out' = Rest(frames)
  /\ IF out' = <<>> /\ next = "finish"
       THEN EndWith(q)
       ELSE ppc' = next /\ queue' = q

\* Mutant: completion is signalled on the normal path only.
EndTaskSilently ==
  /\ ppc' = "ended" /\ out' = <<>> /\ UNCHANGED queue

\* The producer ends with an exception.
EndTask ==
  /\ out' = <<>> /\ EndWith(queue)

\* The provider call is over: the wrapper builds the event and publishes it
\* in a task of its own, through a shield.
PublishEvent(s) ==
  /\ status' = s
  /\ begun' = begun + 1
  /\ ppc' = "publish"

\* The producer's own steps need it to be where p says, with no frame to put
\* and no cancellation to deliver first.
At(p) == ppc = p /\ out = <<>> /\ ~cancel

----------------------------------------------------------------------------
(* The producer: StreamingChatService.stream inside produce() *)

\* _record_user_turn commits; stream() yields StreamStarted and iterates.
UserTurn ==
  /\ At("turn") /\ conv
  /\ user' = TRUE
  /\ PutThen(<<"start">>, "provider")
  /\ called' = (out' = <<>>)
  /\ UNCHANGED <<world, replies, cancel, why, parts, status, begun, tasks,
                 abandoned, consumer, watcher>>

\* The conversation is gone since prepare(): NotFoundError is reported.
UserTurnRejected ==
  /\ At("turn") /\ ~conv
  /\ PutThen(<<"failed">>, "finish")
  /\ UNCHANGED <<world, stored, cancel, why, call, tasks, abandoned, consumer, watcher>>

\* Any other exception escapes: the database's, and the foreign key's when
\* the conversation goes between require() and the insert.
UserTurnFails ==
  /\ At("turn") /\ ("db" \in Failures \/ ~conv)
  /\ EndTask
  /\ UNCHANGED <<world, stored, cancel, why, call, tasks, abandoned, consumer, watcher>>

\* A suspended put() goes on; the first frame was the last thing before the
\* provider is called.
PutRest ==
  /\ out # <<>> /\ ~cancel /\ Room > 0
  /\ PutThen(out, ppc)
  /\ called' = (called \/ (out' = <<>> /\ ppc' = "provider"))
  /\ UNCHANGED <<world, stored, cancel, why, parts, status, begun, tasks,
                 abandoned, consumer, watcher>>

\* Mutant: the first token is announced after its text.
ChunkUntimed ==
  /\ At("provider") /\ parts < MaxChunks
  /\ parts' = parts + 1
  /\ PutThen(IF parts = 0 THEN <<"delta", "ttft">> ELSE <<"delta">>, "provider")
  /\ UNCHANGED <<world, stored, cancel, why, called, status, begun, tasks,
                 abandoned, consumer, watcher>>

Chunk ==
  /\ At("provider") /\ parts < MaxChunks
  /\ parts' = parts + 1
  /\ PutThen(IF parts = 0 THEN <<"ttft", "delta">> ELSE <<"delta">>, "provider")
  /\ UNCHANGED <<world, stored, cancel, why, called, status, begun, tasks,
                 abandoned, consumer, watcher>>

ProviderEnds ==
  /\ At("provider")
  /\ PublishEvent("success")
  /\ UNCHANGED <<world, stored, out, cancel, why, parts, called, tasks, abandoned,
                 queue, consumer, watcher>>

\* The call is over, however it ended, and building the event raises: the
\* ValidationError takes the place of the outcome and escapes.
EventRefused ==
  /\ ppc = "provider" /\ out = <<>> /\ "clock" \in Failures
  /\ cancel' = FALSE
  /\ status' = "refused"
  /\ EndTask
  /\ UNCHANGED <<world, stored, why, parts, called, begun, tasks, abandoned, consumer,
                 watcher>>

ProviderFails ==
  /\ At("provider")
  /\ \/ "provider" \in Failures /\ why' = "ProviderError"
     \/ "bug" \in Failures /\ why' = "Exception"
  /\ PublishEvent("error")
  /\ UNCHANGED <<world, stored, out, cancel, parts, called, tasks, abandoned,
                 queue, consumer, watcher>>

\* _persist_partial starts its task, unless there is no text to save.
PersistPartial ==
  IF parts > 0
    THEN saving' = "running" /\ ppc' = "partial" /\ UNCHANGED <<out, queue>>
    ELSE /\ UNCHANGED saving
         /\ IF why' = "ProviderError" THEN PutThen(<<"failed">>, "finish") ELSE EndTask

\* The publish is over, and the generator of the wrapper with it.
AfterPublish ==
  /\ At("publish") /\ published = begun
  /\ UNCHANGED why
  /\ CASE why = "none" -> ppc' = "final" /\ UNCHANGED <<out, queue, saving>>
       [] why = "Exception" -> EndTask /\ UNCHANGED saving
       [] OTHER -> PersistPartial
  /\ UNCHANGED <<world, stored, cancel, call, published, abandoned, consumer, watcher>>

\* The partial save is over: stream() re-raises the cancellation or reports
\* the provider's failure.
LeavePartial ==
  IF why = "ProviderError" THEN PutThen(<<"failed">>, "finish") ELSE EndTask

AfterPartial ==
  /\ At("partial") /\ saving = "done"
  /\ LeavePartial
  /\ UNCHANGED <<world, stored, cancel, why, call, tasks, abandoned, consumer, watcher>>

\* The partial save raised; the exception escapes from the handler.
AfterPartialFailed ==
  /\ At("partial") /\ saving = "failed"
  /\ EndTask
  /\ UNCHANGED <<world, stored, cancel, why, call, tasks, abandoned, consumer, watcher>>

\* _record_assistant_turn, outside the try of stream().
FinalTurn ==
  /\ At("final") /\ conv
  /\ replies' = Append(replies, parts)
  /\ PutThen(<<"done">>, "finish")
  /\ UNCHANGED <<world, user, cancel, why, call, tasks, abandoned, consumer, watcher>>

\* Mutant: a reply that cannot be stored is reported as complete.
FinalTurnIgnored ==
  /\ At("final") /\ (~conv \/ "db" \in Failures)
  /\ PutThen(<<"done">>, "finish")
  /\ UNCHANGED <<world, stored, cancel, why, call, tasks, abandoned, consumer, watcher>>

FinalTurnFails ==
  /\ At("final") /\ (~conv \/ "db" \in Failures)
  /\ EndTask
  /\ UNCHANGED <<world, stored, cancel, why, call, tasks, abandoned, consumer, watcher>>

----------------------------------------------------------------------------
(* CancelledError, by the place it is raised in *)

Delivered == cancel /\ cancel' = FALSE

\* In a transaction of its own: rolled back, or committed just before.
CancelledInUserTurn ==
  /\ Delivered /\ out = <<>> /\ ppc = "turn"
  /\ EndTask
  /\ user' \in {FALSE, conv}
  /\ UNCHANGED <<world, replies, why, call, tasks, abandoned, consumer, watcher>>

\* Mutant: the final transaction stands inside the try of stream().
CancelledInFinalTurnSaved ==
  /\ Delivered /\ out = <<>> /\ ppc = "final"
  /\ why' = "CancelledError"
  /\ PersistPartial
  /\ \/ UNCHANGED replies
     \/ conv /\ replies' = Append(replies, parts)
  /\ UNCHANGED <<world, user, call, published, abandoned, consumer, watcher>>

CancelledInFinalTurn ==
  /\ Delivered /\ out = <<>> /\ ppc = "final"
  /\ EndTask
  /\ \/ UNCHANGED replies
     \/ conv /\ replies' = Append(replies, parts)
  /\ UNCHANGED <<world, user, why, call, tasks, abandoned, consumer, watcher>>

\* In queue.put(): the generators stay suspended where they yielded.
CancelledInPut ==
  /\ Delivered /\ out # <<>>
  /\ EndTask
  /\ abandoned' = (called /\ status = "none")
  /\ UNCHANGED <<world, stored, why, call, tasks, consumer, watcher>>

\* Mutant: except Exception, which a cancellation passes by.
CancelledUnlogged ==
  /\ Delivered /\ out = <<>> /\ ppc = "provider"
  /\ why' = "CancelledError"
  /\ PersistPartial
  /\ UNCHANGED <<world, stored, call, published, abandoned, consumer, watcher>>

\* In the provider call: the wrapper records a cancelled call.
CancelledInProvider ==
  /\ Delivered /\ out = <<>> /\ ppc = "provider"
  /\ why' = "CancelledError"
  /\ PublishEvent("cancelled")
  /\ UNCHANGED <<world, stored, out, parts, called, tasks, abandoned, queue,
                 consumer, watcher>>

\* Mutant: no shield, the publish dies with its caller.
CancelledPublish ==
  /\ Delivered /\ out = <<>> /\ ppc = "publish"
  /\ why' = "CancelledError"
  /\ PersistPartial
  /\ begun' = published
  /\ UNCHANGED <<world, stored, parts, called, status, published, abandoned,
                 consumer, watcher>>

\* In the shield around the publish: whatever was on its way becomes a
\* cancellation, which stream() answers by saving the partial output.
CancelledInPublish ==
  /\ Delivered /\ out = <<>> /\ ppc = "publish"
  /\ why' = "CancelledError"
  /\ PersistPartial
  /\ UNCHANGED <<world, stored, call, published, abandoned, consumer, watcher>>

\* In the shield around the partial save: suppressed.
CancelledInPartial ==
  /\ Delivered /\ out = <<>> /\ ppc = "partial"
  /\ LeavePartial
  /\ UNCHANGED <<world, stored, why, call, tasks, abandoned, consumer, watcher>>

----------------------------------------------------------------------------
(* Tasks nobody can cancel *)

\* bus.publish() ends within its timeout, accepted or not.
PublishEnds ==
  /\ published < begun
  /\ published' = published + 1
  /\ UNCHANGED <<world, stored, ppc, out, cancel, why, call, saving, abandoned,
                 queue, consumer, watcher>>

SaveEnds ==
  /\ saving = "running"
  /\ \/ conv /\ saving' = "done" /\ replies' = Append(replies, parts)
     \/ (~conv \/ "db" \in Failures) /\ saving' = "failed" /\ UNCHANGED replies
  /\ UNCHANGED <<world, user, ppc, out, cancel, why, call, published, abandoned,
                 queue, consumer, watcher>>

\* The abandoned generators are finalised once nothing refers to them: the
\* wrapper gets GeneratorExit, stream() does not handle it.
CloseAbandoned ==
  /\ abandoned /\ cpc = "ended"
  /\ abandoned' = FALSE
  /\ \/ status' = "cancelled" /\ begun' = begun + 1
     \/ "clock" \in Failures /\ status' = "refused" /\ UNCHANGED begun
  /\ UNCHANGED <<world, stored, ppc, out, cancel, why, parts, called, tasks,
                 queue, consumer, watcher>>

----------------------------------------------------------------------------
(* The consumer and the watcher *)

Get ==
  /\ cpc = "get" /\ queue # <<>>
  /\ queue' = Tail(queue)
  /\ IF Head(queue) = Eos
       THEN cpc' = "close" /\ UNCHANGED frame
       ELSE cpc' = "send" /\ frame' = Head(queue)
  /\ UNCHANGED <<world, stored, ppc, out, cancel, why, call, tasks, abandoned,
                 received, watcher>>

\* Sending to a client that is gone is not an error.
Send ==
  /\ cpc = "send"
  /\ received' = IF client = "connected" THEN Append(received, frame) ELSE received
  /\ cpc' = "get"
  /\ UNCHANGED <<world, stored, ppc, out, cancel, why, call, tasks, abandoned,
                 queue, frame, watcher>>

\* The server ends the response of a client that is gone.  A generator that
\* waits in queue.get() is cancelled; one that is suspended at its yield is
\* closed, which another task does.  Its finally cancels the producer.
Leave == cpc' = IF cpc = "get" THEN "unwind" ELSE "close"

\* Mutant: the cleanup stops the watcher and leaves the producer.
EndResponseOnly ==
  /\ cpc \in {"get", "send"} /\ client = "gone"
  /\ Leave
  /\ watcher' = "ended"
  /\ UNCHANGED <<world, stored, ppc, out, cancel, why, call, tasks, abandoned, queue,
                 frame, received>>

EndResponse ==
  /\ cpc \in {"get", "send"} /\ client = "gone"
  /\ Leave
  /\ cancel' = ~ProducerEnded
  /\ watcher' = "ended"
  /\ UNCHANGED <<world, stored, ppc, out, why, call, tasks, abandoned, queue,
                 frame, received>>

\* The scope of a cancelled response cancels its task again and again, and a
\* task that awaits the producer passes that on.
CancelAgain ==
  /\ cpc = "unwind" /\ ~ProducerEnded
  /\ cancel' = TRUE
  /\ UNCHANGED <<world, stored, ppc, out, why, call, tasks, abandoned, queue,
                 consumer, watcher>>

\* The producer and the watcher are awaited.
TearDown ==
  /\ cpc \in {"unwind", "close"} /\ ProducerEnded
  /\ cpc' = "ended"
  /\ watcher' = "ended"
  /\ UNCHANGED <<world, stored, ppc, out, cancel, why, call, tasks, abandoned,
                 queue, frame, received>>

Watch ==
  /\ watcher = "watching"
  /\ ProducerEnded \/ client = "gone"
  /\ watcher' = "ended"
  /\ cancel' = (cancel \/ ~ProducerEnded)
  /\ UNCHANGED <<world, stored, ppc, out, why, call, tasks, abandoned, queue, consumer>>

----------------------------------------------------------------------------
(* The world *)

Disconnect ==
  /\ client = "connected" /\ cpc # "ended"
  /\ client' = "gone"
  /\ UNCHANGED <<conv, stored, ppc, out, cancel, why, call, tasks, abandoned,
                 queue, consumer, watcher>>

\* Its messages go with it.
DeleteConversation ==
  /\ conv /\ "delete" \in Failures
  /\ conv' = FALSE
  /\ user' = FALSE /\ replies' = <<>>
  /\ UNCHANGED <<client, ppc, out, cancel, why, call, tasks, abandoned,
                 queue, consumer, watcher>>

----------------------------------------------------------------------------
Init ==
  /\ client = "connected" /\ conv = TRUE
  /\ user = FALSE /\ replies = <<>>
  /\ ppc = "turn" /\ out = <<>> /\ cancel = FALSE /\ why = "none"
  /\ parts = 0 /\ called = FALSE /\ status = "none"
  /\ begun = 0 /\ published = 0 /\ saving = "none" /\ abandoned = FALSE
  /\ queue = <<>>
  /\ cpc = "get" /\ frame = "none" /\ received = <<>>
  /\ watcher = "watching"

Cancellation ==
  \/ CancelledInUserTurn \/ CancelledInFinalTurn \/ CancelledInPut
  \/ CancelledInProvider \/ CancelledInPublish \/ CancelledInPartial

ProducerStep ==
  \/ UserTurn \/ UserTurnRejected \/ UserTurnFails \/ PutRest
  \/ Chunk \/ ProviderEnds \/ ProviderFails \/ EventRefused
  \/ AfterPublish \/ AfterPartial \/ AfterPartialFailed
  \/ FinalTurn \/ FinalTurnFails
  \/ Cancellation

ConsumerStep == Get \/ Send \/ EndResponse \/ TearDown

\* The request is over and nothing it started is left.
Over == cpc = "ended" /\ ~abandoned /\ published = begun /\ saving # "running"

Stop == Over /\ watcher = "ended" /\ UNCHANGED vars

Next ==
  \/ ProducerStep
  \/ PublishEnds \/ SaveEnds \/ CloseAbandoned
  \/ ConsumerStep \/ CancelAgain \/ Watch
  \/ Disconnect \/ DeleteConversation
  \/ Stop

Spec == Init /\ [][Next]_vars

\* The event loop runs every task that can run, providers answer or time out,
\* a connected client reads on, the server notices one that is gone, and a
\* cancelled scope does not give up.
FairSpec ==
  /\ Spec
  /\ WF_vars(ProducerStep)
  /\ WF_vars(PublishEnds) /\ WF_vars(SaveEnds) /\ WF_vars(CloseAbandoned)
  /\ WF_vars(ConsumerStep) /\ WF_vars(CancelAgain) /\ WF_vars(Watch)

----------------------------------------------------------------------------
(* Properties *)

ConsumerPoints == {"get", "send", "unwind", "close", "ended"}
Savings == {"none", "running", "done", "failed"}

\* Every variable keeps its type; the queue never holds more than its bound,
\* the sentinel included (asyncio.Queue(maxsize=_QUEUE_SIZE) in api/sse.py).
TypeOK ==
  /\ client \in {"connected", "gone"} /\ conv \in BOOLEAN
  /\ user \in BOOLEAN /\ replies \in Seq(0 .. MaxChunks)
  /\ ppc \in Waits /\ out \in Seq(Frames) /\ cancel \in BOOLEAN
  /\ why \in {"none", "ProviderError", "Exception", "CancelledError"}
  /\ parts \in 0 .. MaxChunks /\ called \in BOOLEAN
  /\ status \in {"none", "success", "error", "cancelled", "refused"}
  /\ begun \in Nat /\ published \in 0 .. begun
  /\ saving \in Savings /\ abandoned \in BOOLEAN
  /\ queue \in Seq(Frames \cup {Eos}) /\ Len(queue) <= QueueSize
  /\ cpc \in ConsumerPoints
  /\ frame \in Frames \cup {"none"} /\ received \in Seq(Frames)
  /\ watcher \in {"watching", "ended"}

Got(f) == \E i \in 1 .. Len(received) : received[i] = f
Deltas == Cardinality({i \in 1 .. Len(received) : received[i] = "delta"})

\* "One call, one row": however the call ends and however often the producer
\* is cancelled while it ends, exactly one event is handed to the bus, unless
\* the event cannot be built (instrumentation/wrapper.py).
OneEventPerCall ==
  /\ begun <= IF called THEN 1 ELSE 0
  /\ Over /\ called => (begun = 1 <=> status # "refused")

\* The partial save and the final transaction never both store a reply, and
\* neither does so twice (services/chat.py stream, _persist_partial).
AtMostOneReply == Len(replies) <= 1

\* Whatever reply is stored covers all the text the client has seen, a client
\* that was told "done" has seen all of the stored reply, and text seen before
\* the provider failed, or before a hang-up reached stream(), is stored unless
\* the database refuses it (services/chat.py stream, _persist_partial).
TranscriptCoversScreen ==
  /\ \A i \in 1 .. Len(replies) : Deltas <= replies[i]
  /\ Got("done") /\ conv => replies = <<Deltas>>
  /\ Over /\ conv /\ Deltas > 0 /\ why \in {"ProviderError", "CancelledError"} =>
       replies # <<>> \/ saving = "failed"

\* A client that stays to the end of the response is told "done" exactly when
\* its reply is stored complete, is told when the provider fails, unless saving
\* its text fails as well, and a call that was recorded as cancelled was
\* cancelled by the client (api/sse.py produce, wrapper.py _classify).
ClientIsToldTheTruth ==
  Over /\ client = "connected" =>
    /\ status # "cancelled"
    /\ conv => (Got("done") <=> status = "success" /\ replies # <<>>)
    /\ why = "ProviderError" /\ saving # "failed" => Got("failed")

\* What the client receives is a run of the frame protocol the frontend
\* parses (api/chat.py _to_sse).
Last == IF received = <<>> THEN "none" ELSE received[Len(received)]
P == INSTANCE FrameProtocol WITH last <- Last
FollowsProtocol == P!Spec

\* A call that was started is published, whoever hangs up when.
CallIsLogged == called ~> published = 1

\* "A disconnected client cancels the work behind the stream" (api/sse.py): a
\* hang-up ends the turn, nobody is left waiting on the queue, on the
\* producer or on a provider.
HangUpEndsTurn == client = "gone" ~> cpc = "ended" /\ ProducerEnded

\* A client that stays sees the end of the response, whatever fails, unless it
\* is left waiting for a sentinel that found no room (api/sse.py produce).
Stranded == ppc = "mute" /\ queue = <<>> /\ cpc = "get"
Answered == <>(cpc = "ended" \/ client = "gone" \/ Stranded)

----------------------------------------------------------------------------
(* What the comments say, and the code does not do *)

\* "Always signals completion, [...] so the consumer below can never be left
\* waiting on a dead producer" (api/sse.py produce).
NeverLeftWaiting == ~(Stranded /\ client = "connected")

\* "Keep whatever they already saw so the transcript matches the screen after
\* a refresh" (services/chat.py stream).
SeenIsKept == Over /\ Deltas > 0 => replies # <<>>

\* "This path must never be able to raise, only report": a client that stays
\* gets a terminal frame (services/chat.py stream).
FailureIsReported ==
  cpc = "ended" /\ client = "connected" => Last \in {"done", "failed"}
=============================================================================
