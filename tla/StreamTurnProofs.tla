-------------------------- MODULE StreamTurnProofs --------------------------
(***************************************************************************)
(* Proofs about StreamTurn, for any size of the queue, any number of       *)
(* chunks and any failures.                                                *)
(***************************************************************************)
EXTENDS StreamTurn, SequenceTheorems, FiniteSetTheorems, FunctionTheorems, TLAPS

Slots == Frames \cup {Eos}

\* A sequence is cut at the room there is.
LEMMA FitsRest ==
  ASSUME TypeOK, NEW S, NEW s \in Seq(S)
  PROVE  /\ Fits(s) \in Seq(S) /\ Rest(s) \in Seq(S)
         /\ Len(Fits(s)) + Len(queue) <= QueueSize
         /\ Len(Fits(s)) <= Len(s)
         /\ \A i \in 1 .. Len(Fits(s)) : Fits(s)[i] = s[i]
         /\ Len(Rest(s)) = Len(s) - Len(Fits(s))
         /\ \A i \in 1 .. Len(Rest(s)) : Rest(s)[i] = s[Len(Fits(s)) + i]
<1> DEFINE n == IF Len(s) < Room THEN Len(s) ELSE Room
<1>1. /\ Len(s) \in Nat /\ \A i \in 1 .. Len(s) : s[i] \in S
      /\ Len(queue) \in Nat /\ QueueSize \in Nat
  BY LenProperties, StreamAssumption DEF TypeOK
<1>2. n \in 0 .. Len(s) /\ n + Len(queue) <= QueueSize
  BY <1>1 DEF Room, TypeOK
<1>3. Fits(s) = SubSeq(s, 1, n)
  BY DEF Fits
<1> HIDE DEF n
<1>4. /\ Fits(s) \in Seq(S) /\ Len(Fits(s)) = n
      /\ \A i \in 1 .. n : Fits(s)[i] = s[i]
  <2>1. 1 \in Int /\ n \in Int /\ \A i \in 1 .. n : s[i] \in S
    BY <1>1, <1>2
  <2>2. /\ SubSeq(s, 1, n) \in Seq(S) /\ Len(SubSeq(s, 1, n)) = IF 1 <= n THEN n - 1 + 1 ELSE 0
        /\ \A i \in 1 .. n - 1 + 1 : SubSeq(s, 1, n)[i] = s[1 + i - 1]
    BY <2>1, SubSeqProperties
  <2> QED
    BY <1>2, <1>3, <2>2
<1>5. Rest(s) = SubSeq(s, n + 1, Len(s))
  BY <1>4 DEF Rest
<1>6. /\ Rest(s) \in Seq(S) /\ Len(Rest(s)) = Len(s) - n
      /\ \A i \in 1 .. Len(s) - n : Rest(s)[i] = s[n + i]
  <2>1. n + 1 \in Int /\ Len(s) \in Int /\ \A i \in n + 1 .. Len(s) : s[i] \in S
    BY <1>1, <1>2
  <2>2. /\ SubSeq(s, n + 1, Len(s)) \in Seq(S)
        /\ Len(SubSeq(s, n + 1, Len(s))) =
             IF n + 1 <= Len(s) THEN Len(s) - (n + 1) + 1 ELSE 0
        /\ \A i \in 1 .. Len(s) - (n + 1) + 1 :
             SubSeq(s, n + 1, Len(s))[i] = s[n + 1 + i - 1]
    BY <2>1, SubSeqProperties
  <2> QED
    BY <1>1, <1>2, <1>5, <2>2
<1> QED
  BY <1>1, <1>2, <1>4, <1>6

\* The queue takes the sentinel if it has room for it.
LEMMA EndWithTyped ==
  ASSUME StreamAssumption, NEW q \in Seq(Slots), Len(q) <= QueueSize, EndWith(q)
  PROVE  /\ queue' \in Seq(Slots) /\ Len(queue') <= QueueSize
         /\ ppc' \in {"ended", "mute"}
<1>1. /\ Append(q, Eos) \in Seq(Slots) /\ Len(Append(q, Eos)) = Len(q) + 1
      /\ Len(q) \in Nat /\ QueueSize \in Nat
  BY AppendProperties, LenProperties, StreamAssumption DEF Slots
<1> QED
  BY <1>1 DEF EndWith, WithEos

\* Where the producer is after some frames: waiting in put(), at the next
\* place, or past its end.
LEMMA PutThenTyped ==
  ASSUME TypeOK, NEW s \in Seq(Frames), NEW next \in Waits, PutThen(s, next)
  PROVE  /\ out' \in Seq(Frames) /\ queue' \in Seq(Slots) /\ Len(queue') <= QueueSize
         /\ ppc' \in Waits
         /\ \/ ppc' = next /\ (next = "finish" => out' # <<>>)
            \/ next = "finish" /\ out' = <<>> /\ ppc' \in {"ended", "mute"}
<1> DEFINE q == queue \o Fits(s)
<1>1. out' = Rest(s) /\ out' \in Seq(Frames)
  BY FitsRest DEF PutThen
<1>2. q \in Seq(Slots) /\ Len(q) <= QueueSize
  <2>1. Fits(s) \in Seq(Slots) /\ Len(Fits(s)) + Len(queue) <= QueueSize
    <3>1. s \in Seq(Slots)
      BY SeqMonotonic DEF Slots
    <3> QED
      BY <3>1, FitsRest
  <2>2. queue \in Seq(Slots) /\ Len(queue) \in Nat /\ Len(Fits(s)) \in Nat
    BY <2>1, LenProperties DEF TypeOK, Slots
  <2> QED
    BY <2>1, <2>2, ConcatProperties
<1> HIDE DEF q
<1>3. \/ next = "finish" /\ out' = <<>> /\ EndWith(q)
      \/ ppc' = next /\ queue' = q /\ (next = "finish" => out' # <<>>)
  BY DEF PutThen, q
<1> QED
  BY <1>1, <1>2, <1>3, EndWithTyped, StreamAssumption DEF Waits

\* The end of the task, by an exception.
LEMMA EndTaskTyped ==
  ASSUME TypeOK, EndTask
  PROVE  /\ out' = <<>> /\ out' \in Seq(Frames)
         /\ queue' \in Seq(Slots) /\ Len(queue') <= QueueSize
         /\ ppc' \in {"ended", "mute"} /\ ppc' \in Waits
<1>1. out' = <<>> /\ <<>> \in Seq(Frames)
  BY EmptySeq DEF EndTask
<1>2. EndWith(queue) /\ queue \in Seq(Slots) /\ Len(queue) <= QueueSize
  BY DEF EndTask, TypeOK, Slots
<1> QED
  BY <1>1, <1>2, EndWithTyped, StreamAssumption DEF Waits

\* Frames that are put one at a time or two at once.
LEMMA FramesTyped ==
  /\ <<"start">> \in Seq(Frames) /\ <<"failed">> \in Seq(Frames)
  /\ <<"done">> \in Seq(Frames) /\ <<"delta">> \in Seq(Frames)
  /\ <<"ttft", "delta">> \in Seq(Frames)
BY DEF Frames

\* What the producer has left behind when it goes on, or ends.
ProducerTyped ==
  /\ out' \in Seq(Frames) /\ queue' \in Seq(Slots) /\ Len(queue') <= QueueSize
  /\ ppc' \in Waits

\* The end of a failed or cancelled call.
LEMMA LeaveTyped ==
  ASSUME TypeOK, LeavePartial
  PROVE  ProducerTyped /\ ppc' \in {"finish", "ended", "mute"}
<1>1. CASE why = "ProviderError"
  <2>1. PutThen(<<"failed">>, "finish") /\ "finish" \in Waits
    BY <1>1 DEF LeavePartial, Waits
  <2> QED
    BY <2>1, PutThenTyped, FramesTyped DEF ProducerTyped
<1>2. CASE why # "ProviderError"
  BY <1>2, EndTaskTyped DEF LeavePartial, ProducerTyped
<1> QED
  BY <1>1, <1>2

\* The start of a partial save, or the end of the call without one.
LEMMA PersistTyped ==
  ASSUME TypeOK, why' \in {why, "CancelledError"}, PersistPartial
  PROVE  /\ ProducerTyped
         /\ \/ saving' = "running" /\ ppc' = "partial" /\ UNCHANGED <<out, queue>>
            \/ saving' = saving /\ ppc' \in {"finish", "ended", "mute"}
<1>1. CASE parts > 0
  BY <1>1 DEF PersistPartial, ProducerTyped, TypeOK, Waits, Slots
<1>2. CASE ~(parts > 0)
  <2>1. CASE why' = "ProviderError"
    <3>1. PutThen(<<"failed">>, "finish") /\ "finish" \in Waits
      BY <1>2, <2>1 DEF PersistPartial, Waits
    <3> QED
      BY <1>2, <3>1, PutThenTyped, FramesTyped DEF ProducerTyped, PersistPartial
  <2>2. CASE why' # "ProviderError"
    BY <1>2, <2>2, EndTaskTyped DEF PersistPartial, ProducerTyped
  <2> QED
    BY <2>1, <2>2
<1> QED
  BY <1>1, <1>2

----------------------------------------------------------------------------
(* Types *)

\* The types hold before the turn.
LEMMA InitTypeOK == Init => TypeOK
<1> SUFFICES ASSUME Init PROVE TypeOK
  OBVIOUS
<1>1. /\ replies \in Seq(0 .. MaxChunks) /\ out \in Seq(Frames)
      /\ queue \in Seq(Frames \cup {Eos}) /\ received \in Seq(Frames)
      /\ Len(queue) = 0
  BY EmptySeq DEF Init
<1>2. MaxChunks \in Nat /\ QueueSize \in Nat
  BY StreamAssumption
<1>3. parts \in 0 .. MaxChunks /\ begun \in Nat /\ published \in 0 .. begun
  BY <1>2 DEF Init
<1>4. /\ client \in {"connected", "gone"} /\ conv \in BOOLEAN /\ user \in BOOLEAN
      /\ ppc \in Waits /\ cancel \in BOOLEAN /\ called \in BOOLEAN
      /\ why \in {"none", "ProviderError", "Exception", "CancelledError"}
      /\ status \in {"none", "success", "error", "cancelled", "refused"}
  BY DEF Init, Waits
<1>5. /\ saving \in Savings /\ abandoned \in BOOLEAN /\ cpc \in ConsumerPoints
      /\ frame \in Frames \cup {"none"} /\ watcher \in {"watching", "ended"}
  BY DEF Init, Savings, ConsumerPoints
<1>6. Len(queue) <= QueueSize
  BY <1>1, <1>2
<1> QED
  BY <1>1, <1>3, <1>4, <1>5, <1>6 DEF TypeOK

\* The steps of the producer change its own variables, the transcript and the
\* queue.
LEMMA ProducerTypeOK == ASSUME TypeOK, ProducerStep PROVE TypeOK'
<1> USE StreamAssumption, FramesTyped DEF world, stored, call, tasks, consumer
<1>1. \A k \in 0 .. MaxChunks : Append(replies, k) \in Seq(0 .. MaxChunks)
  BY AppendProperties DEF TypeOK
<1>2. CASE UserTurn
  <2>1. ProducerTyped
    BY <1>2, PutThenTyped DEF UserTurn, ProducerTyped, Waits, TypeOK
  <2> QED
    BY <1>1, <1>2, <2>1 DEF UserTurn, ProducerTyped, TypeOK, Slots, Delivered
<1>3. CASE UserTurnRejected
  <2>1. ProducerTyped
    BY <1>3, PutThenTyped DEF UserTurnRejected, ProducerTyped, Waits, TypeOK
  <2> QED
    BY <1>1, <1>3, <2>1 DEF UserTurnRejected, ProducerTyped, TypeOK, Slots, Delivered
<1>4. CASE UserTurnFails
  <2>1. ProducerTyped
    BY <1>4, EndTaskTyped DEF UserTurnFails, ProducerTyped
  <2> QED
    BY <1>1, <1>4, <2>1 DEF UserTurnFails, ProducerTyped, TypeOK, Slots, Delivered
<1>5. CASE PutRest
  <2>1. ProducerTyped
    BY <1>5, PutThenTyped DEF PutRest, ProducerTyped, Waits, TypeOK
  <2> QED
    BY <1>1, <1>5, <2>1 DEF PutRest, ProducerTyped, TypeOK, Slots, Delivered
<1>6. CASE Chunk
  <2>1. ProducerTyped
    BY <1>6, PutThenTyped DEF Chunk, ProducerTyped, Waits, TypeOK
  <2> QED
    BY <1>1, <1>6, <2>1 DEF Chunk, ProducerTyped, TypeOK, Slots, Delivered, At
<1>7. CASE ProviderEnds
  BY <1>7 DEF ProviderEnds, PublishEvent, TypeOK, Waits, Delivered
<1>8. CASE ProviderFails
  BY <1>8 DEF ProviderFails, PublishEvent, TypeOK, Waits, Delivered
<1>9. CASE EventRefused
  <2>1. ProducerTyped
    BY <1>9, EndTaskTyped DEF EventRefused, ProducerTyped
  <2> QED
    BY <1>1, <1>9, <2>1 DEF EventRefused, ProducerTyped, TypeOK, Slots, Delivered
<1>10. CASE AfterPublish
  <2>1. ProducerTyped /\ saving' \in Savings
    BY <1>10, EndTaskTyped, PersistTyped DEF AfterPublish, ProducerTyped, TypeOK, Savings, Waits, Slots
  <2> QED
    BY <1>1, <1>10, <2>1 DEF AfterPublish, ProducerTyped, TypeOK, Slots, Delivered
<1>11. CASE AfterPartial
  <2>1. ProducerTyped
    BY <1>11, LeaveTyped DEF AfterPartial
  <2> QED
    BY <1>1, <1>11, <2>1 DEF AfterPartial, ProducerTyped, TypeOK, Slots, Delivered
<1>12. CASE AfterPartialFailed
  <2>1. ProducerTyped
    BY <1>12, EndTaskTyped DEF AfterPartialFailed, ProducerTyped
  <2> QED
    BY <1>1, <1>12, <2>1 DEF AfterPartialFailed, ProducerTyped, TypeOK, Slots, Delivered
<1>13. CASE FinalTurn
  <2>1. ProducerTyped
    BY <1>13, PutThenTyped DEF FinalTurn, ProducerTyped, Waits, TypeOK
  <2> QED
    BY <1>1, <1>13, <2>1 DEF FinalTurn, ProducerTyped, TypeOK, Slots, Delivered
<1>14. CASE FinalTurnFails
  <2>1. ProducerTyped
    BY <1>14, EndTaskTyped DEF FinalTurnFails, ProducerTyped
  <2> QED
    BY <1>1, <1>14, <2>1 DEF FinalTurnFails, ProducerTyped, TypeOK, Slots, Delivered
<1>15. CASE CancelledInUserTurn
  <2>1. ProducerTyped
    BY <1>15, EndTaskTyped DEF CancelledInUserTurn, ProducerTyped
  <2> QED
    BY <1>1, <1>15, <2>1 DEF CancelledInUserTurn, ProducerTyped, TypeOK, Slots, Delivered
<1>16. CASE CancelledInFinalTurn
  <2>1. ProducerTyped
    BY <1>16, EndTaskTyped DEF CancelledInFinalTurn, ProducerTyped
  <2>2. replies' \in Seq(0 .. MaxChunks)
    <3>1. replies' = replies \/ replies' = Append(replies, parts)
      BY <1>16 DEF CancelledInFinalTurn
    <3>2. replies \in Seq(0 .. MaxChunks) /\ parts \in 0 .. MaxChunks
      BY DEF TypeOK
    <3>3. Append(replies, parts) \in Seq(0 .. MaxChunks)
      BY <3>2
    <3> QED
      BY <3>1, <3>2, <3>3
  <2>3. /\ UNCHANGED <<world, user, why, call, tasks, abandoned, consumer, watcher>>
        /\ cancel' = FALSE
    BY <1>16 DEF CancelledInFinalTurn, Delivered
  <2> QED
    BY <1>1, <2>1, <2>2, <2>3 DEF ProducerTyped, TypeOK, Slots
<1>17. CASE CancelledInPut
  <2>1. ProducerTyped
    BY <1>17, EndTaskTyped DEF CancelledInPut, ProducerTyped
  <2> QED
    BY <1>1, <1>17, <2>1 DEF CancelledInPut, ProducerTyped, TypeOK, Slots, Delivered
<1>18. CASE CancelledInProvider
  <2>1. begun' \in Nat /\ published' \in 0 .. begun'
    BY <1>18 DEF CancelledInProvider, PublishEvent, TypeOK
  <2> QED
    BY <1>18, <2>1 DEF CancelledInProvider, PublishEvent, TypeOK, Waits, Delivered
<1>19. CASE CancelledInPublish
  <2>1. ProducerTyped /\ saving' \in Savings
    BY <1>19, PersistTyped DEF CancelledInPublish, TypeOK, Savings
  <2> QED
    BY <1>1, <1>19, <2>1 DEF CancelledInPublish, ProducerTyped, TypeOK, Slots, Delivered
<1>20. CASE CancelledInPartial
  <2>1. ProducerTyped
    BY <1>20, LeaveTyped DEF CancelledInPartial
  <2> QED
    BY <1>1, <1>20, <2>1 DEF CancelledInPartial, ProducerTyped, TypeOK, Slots, Delivered
<1> QED
  BY <1>2, <1>3, <1>4, <1>5, <1>6, <1>7, <1>8, <1>9, <1>10, <1>11, <1>12, <1>13, <1>14, <1>15, <1>16, <1>17, <1>18, <1>19, <1>20 DEF ProducerStep, Cancellation

\* The consumer sends a frame it got.
Sending == cpc = "send" => frame \in Frames

\* The producer does not touch what the consumer sends.
LEMMA ProducerSending == ASSUME Sending, ProducerStep PROVE Sending'
BY DEF ProducerStep, Cancellation, UserTurn, UserTurnRejected, UserTurnFails, PutRest, Chunk,
       ProviderEnds, ProviderFails, EventRefused, AfterPublish, AfterPartial,
       AfterPartialFailed, FinalTurn, FinalTurnFails, CancelledInUserTurn,
       CancelledInFinalTurn, CancelledInPut, CancelledInProvider, CancelledInPublish,
       CancelledInPartial, Sending, consumer

\* The tasks nobody cancels, the consumer, the watcher and the world.
LEMMA OtherTypeOK ==
  ASSUME TypeOK, Sending,
         \/ PublishEnds \/ SaveEnds \/ CloseAbandoned \/ ConsumerStep \/ CancelAgain \/ Watch
         \/ Disconnect \/ DeleteConversation
  PROVE  TypeOK' /\ Sending'
<1> USE DEF world, stored, call, tasks, consumer
<1>1. CASE PublishEnds
  <2>1. published' \in 0 .. begun'
    BY <1>1 DEF PublishEnds, TypeOK
  <2> QED
    BY <1>1, <2>1 DEF PublishEnds, TypeOK, Sending
<1>2. CASE SaveEnds
  <2>1. replies' \in Seq(0 .. MaxChunks)
    <3>1. Append(replies, parts) \in Seq(0 .. MaxChunks)
      BY AppendProperties DEF TypeOK
    <3> QED
      BY <1>2, <3>1 DEF SaveEnds, TypeOK
  <2>2. saving' \in Savings
    BY <1>2 DEF SaveEnds, Savings
  <2> QED
    BY <1>2, <2>1, <2>2 DEF SaveEnds, TypeOK, Sending
<1>3. CASE CloseAbandoned
  <2>1. begun' \in Nat /\ published' \in 0 .. begun'
    BY <1>3 DEF CloseAbandoned, TypeOK
  <2> QED
    BY <1>3, <2>1 DEF CloseAbandoned, TypeOK, Sending
<1>4. CASE Get
  <2>1. /\ queue' \in Seq(Slots) /\ Len(queue') <= QueueSize
        /\ Head(queue) \in Slots
    <3>1. queue \in Seq(Slots) /\ queue # <<>>
      BY <1>4 DEF Get, TypeOK, Slots
    <3>2. Head(queue) \in Slots /\ Tail(queue) \in Seq(Slots) /\ Len(Tail(queue)) = Len(queue) - 1
      BY <3>1, HeadTailProperties
    <3>3. Len(queue) \in Nat /\ QueueSize \in Nat
      BY <3>1, LenProperties, StreamAssumption
    <3> QED
      BY <1>4, <3>2, <3>3 DEF Get, TypeOK
  <2> QED
    BY <1>4, <2>1 DEF Get, TypeOK, Sending, ConsumerPoints, Slots
<1>5. CASE Send
  <2>1. received' \in Seq(Frames)
    <3>1. frame \in Frames /\ received \in Seq(Frames)
      BY <1>5 DEF Send, Sending, TypeOK
    <3>2. Append(received, frame) \in Seq(Frames)
      BY <3>1, AppendProperties
    <3> QED
      BY <1>5, <3>1, <3>2 DEF Send
  <2> QED
    BY <1>5, <2>1 DEF Send, TypeOK, Sending, ConsumerPoints
<1>6. CASE EndResponse \/ TearDown \/ CancelAgain \/ Watch
  BY <1>6 DEF EndResponse, Leave, TearDown, CancelAgain, Watch, ProducerEnded, TypeOK, Sending, ConsumerPoints
<1>7. CASE Disconnect
  BY <1>7 DEF Disconnect, TypeOK, Sending
<1>8. CASE DeleteConversation
  BY <1>8, EmptySeq DEF DeleteConversation, TypeOK, Sending
<1> QED
  BY <1>1, <1>2, <1>3, <1>4, <1>5, <1>6, <1>7, <1>8 DEF ConsumerStep

----------------------------------------------------------------------------
(* One event, and one reply *)

\* A call under way has a producer in it or suspended generators, has no
\* status and no event; one that is over has a status, and an event unless it
\* was refused.
Calling ==
  /\ begun <= 1 /\ (begun = 1 <=> status \notin {"none", "refused"})
  /\ status # "none" => called
  /\ ppc = "turn" => ~called
  /\ ppc = "provider" => status = "none" /\ (called \/ out # <<>>)
  /\ called /\ status = "none" => ppc = "provider" \/ (abandoned /\ ProducerEnded)
  /\ abandoned => called /\ status = "none" /\ ProducerEnded
  /\ cpc = "ended" => ProducerEnded

\* A reply is stored by the partial save or by the final transaction, after
\* which the producer goes on to its end.
Replying ==
  /\ Len(replies) <= 1
  /\ ppc \notin {"partial", "finish", "ended", "mute"} => replies = <<>> /\ saving = "none"
  /\ saving \in {"running", "failed"} => replies = <<>>

\* A first reply is the only one.
LEMMA OneReply ==
  ASSUME TypeOK, replies = <<>>
  PROVE  Len(Append(replies, parts)) = 1
<1>1. parts \in 0 .. MaxChunks /\ replies \in Seq(0 .. MaxChunks) /\ Len(replies) = 0
  BY DEF TypeOK
<1> QED
  BY <1>1, AppendProperties

\* The producer starts a call once, and ends it with a status.
LEMMA ProducerCalling == ASSUME TypeOK, Calling, ProducerStep PROVE Calling'
<1> USE DEF world, stored, call, tasks, consumer, At, Delivered, ProducerEnded
<1>1. CASE UserTurn
  BY <1>1, PutThenTyped, FramesTyped DEF UserTurn, Waits, TypeOK, Calling
<1>2. CASE UserTurnRejected
  BY <1>2, PutThenTyped, FramesTyped DEF UserTurnRejected, Waits, TypeOK, Calling
<1>3. CASE UserTurnFails
  BY <1>3, EndTaskTyped DEF UserTurnFails, Calling
<1>4. CASE PutRest
  BY <1>4, PutThenTyped, FramesTyped DEF PutRest, Waits, TypeOK, Calling
<1>5. CASE Chunk
  BY <1>5, PutThenTyped, FramesTyped DEF Chunk, Waits, TypeOK, Calling
<1>6. CASE ProviderEnds
  <2>1. called /\ status = "none" /\ begun = 0 /\ ppc' = "publish" /\ begun' = 1
    BY <1>6 DEF ProviderEnds, PublishEvent, TypeOK, Calling
  <2>2. status' \in {"success", "error", "cancelled"} /\ called' = called
    BY <1>6 DEF ProviderEnds, PublishEvent
  <2> QED
    BY <1>6, <2>1, <2>2 DEF ProviderEnds, Calling
<1>7. CASE ProviderFails
  <2>1. called /\ status = "none" /\ begun = 0 /\ ppc' = "publish" /\ begun' = 1
    BY <1>7 DEF ProviderFails, PublishEvent, TypeOK, Calling
  <2>2. status' \in {"success", "error", "cancelled"} /\ called' = called
    BY <1>7 DEF ProviderFails, PublishEvent
  <2> QED
    BY <1>7, <2>1, <2>2 DEF ProviderFails, Calling
<1>8. CASE EventRefused
  <2>1. called /\ status = "none" /\ begun = 0
    BY <1>8 DEF EventRefused, TypeOK, Calling
  <2>2. ppc' \in {"ended", "mute"}
    BY <1>8, EndTaskTyped DEF EventRefused
  <2> QED
    BY <1>8, <2>1, <2>2 DEF EventRefused, Calling
<1>9. CASE AfterPublish
  BY <1>9, EndTaskTyped, PersistTyped DEF AfterPublish, Calling
<1>10. CASE AfterPartial
  BY <1>10, LeaveTyped DEF AfterPartial, Calling
<1>11. CASE AfterPartialFailed
  BY <1>11, EndTaskTyped DEF AfterPartialFailed, Calling
<1>12. CASE FinalTurn
  BY <1>12, PutThenTyped, FramesTyped DEF FinalTurn, Waits, TypeOK, Calling
<1>13. CASE FinalTurnFails
  BY <1>13, EndTaskTyped DEF FinalTurnFails, Calling
<1>14. CASE CancelledInUserTurn
  BY <1>14, EndTaskTyped DEF CancelledInUserTurn, Calling
<1>15. CASE CancelledInFinalTurn
  BY <1>15, EndTaskTyped DEF CancelledInFinalTurn, Calling
<1>16. CASE CancelledInPut
  BY <1>16, EndTaskTyped DEF CancelledInPut, Calling
<1>17. CASE CancelledInProvider
  <2>1. called /\ status = "none" /\ begun = 0 /\ ppc' = "publish" /\ begun' = 1
    BY <1>17 DEF CancelledInProvider, PublishEvent, TypeOK, Calling
  <2>2. status' \in {"success", "error", "cancelled"} /\ called' = called
    BY <1>17 DEF CancelledInProvider, PublishEvent
  <2> QED
    BY <1>17, <2>1, <2>2 DEF CancelledInProvider, Calling
<1>18. CASE CancelledInPublish
  BY <1>18, PersistTyped DEF CancelledInPublish, Calling
<1>19. CASE CancelledInPartial
  BY <1>19, LeaveTyped DEF CancelledInPartial, Calling
<1> QED
  BY <1>1, <1>2, <1>3, <1>4, <1>5, <1>6, <1>7, <1>8, <1>9, <1>10, <1>11, <1>12, <1>13, <1>14, <1>15, <1>16, <1>17, <1>18, <1>19 DEF ProducerStep, Cancellation

\* The producer stores a reply only on its way to the end.
LEMMA ProducerReplying == ASSUME TypeOK, Replying, ProducerStep PROVE Replying'
<1> USE DEF world, stored, call, tasks, consumer, At, Delivered, ProducerEnded
<1>1. CASE UserTurn
  BY <1>1, PutThenTyped, FramesTyped DEF UserTurn, Waits, TypeOK, Replying
<1>2. CASE UserTurnRejected
  BY <1>2, PutThenTyped, FramesTyped DEF UserTurnRejected, Waits, TypeOK, Replying
<1>3. CASE UserTurnFails
  BY <1>3, EndTaskTyped DEF UserTurnFails, Replying
<1>4. CASE PutRest
  BY <1>4, PutThenTyped, FramesTyped DEF PutRest, Waits, TypeOK, Replying
<1>5. CASE Chunk
  BY <1>5, PutThenTyped, FramesTyped DEF Chunk, Waits, TypeOK, Replying
<1>6. CASE ProviderEnds
  BY <1>6 DEF ProviderEnds, PublishEvent, TypeOK, Replying
<1>7. CASE ProviderFails
  BY <1>7 DEF ProviderFails, PublishEvent, TypeOK, Replying
<1>8. CASE EventRefused
  BY <1>8, EndTaskTyped DEF EventRefused, Replying
<1>9. CASE AfterPublish
  BY <1>9, EndTaskTyped, PersistTyped DEF AfterPublish, Replying
<1>10. CASE AfterPartial
  BY <1>10, LeaveTyped DEF AfterPartial, Replying
<1>11. CASE AfterPartialFailed
  BY <1>11, EndTaskTyped DEF AfterPartialFailed, Replying
<1>12. CASE FinalTurn
  <2>1. ppc' \in {"finish", "ended", "mute"}
    BY <1>12, PutThenTyped, FramesTyped DEF FinalTurn, Waits
  <2>2. replies = <<>> /\ saving = "none" /\ saving' = saving /\ Len(replies') = 1
    BY <1>12, OneReply DEF FinalTurn, Replying
  <2> QED
    BY <2>1, <2>2 DEF Replying
<1>13. CASE FinalTurnFails
  BY <1>13, EndTaskTyped DEF FinalTurnFails, Replying
<1>14. CASE CancelledInUserTurn
  BY <1>14, EndTaskTyped DEF CancelledInUserTurn, Replying
<1>15. CASE CancelledInFinalTurn
  <2>1. ppc' \in {"ended", "mute"}
    BY <1>15, EndTaskTyped DEF CancelledInFinalTurn
  <2>2. replies = <<>> /\ saving = "none" /\ saving' = saving
    BY <1>15 DEF CancelledInFinalTurn, Replying
  <2>3. Len(replies') <= 1
    <3>1. replies' = replies \/ replies' = Append(replies, parts)
      BY <1>15 DEF CancelledInFinalTurn
    <3>2. Len(Append(replies, parts)) = 1
      BY <2>2, OneReply
    <3> QED
      BY <3>1, <3>2 DEF Replying
  <2> QED
    BY <2>1, <2>2, <2>3 DEF Replying
<1>16. CASE CancelledInPut
  BY <1>16, EndTaskTyped DEF CancelledInPut, Replying
<1>17. CASE CancelledInProvider
  BY <1>17 DEF CancelledInProvider, PublishEvent, TypeOK, Replying
<1>18. CASE CancelledInPublish
  BY <1>18, PersistTyped DEF CancelledInPublish, Replying
<1>19. CASE CancelledInPartial
  BY <1>19, LeaveTyped DEF CancelledInPartial, Replying
<1> QED
  BY <1>1, <1>2, <1>3, <1>4, <1>5, <1>6, <1>7, <1>8, <1>9, <1>10, <1>11, <1>12, <1>13, <1>14, <1>15, <1>16, <1>17, <1>18, <1>19 DEF ProducerStep, Cancellation

\* The other tasks: generators that are closed end a call that had no status.
LEMMA OtherCalling ==
  ASSUME TypeOK, Calling,
         \/ PublishEnds \/ SaveEnds \/ CloseAbandoned \/ ConsumerStep \/ CancelAgain \/ Watch
         \/ Disconnect \/ DeleteConversation
  PROVE  Calling'
<1> USE DEF world, stored, call, tasks, consumer, ProducerEnded
<1>1. CASE CloseAbandoned
  <2>1. called /\ status = "none" /\ begun = 0 /\ ppc \in {"ended", "mute"}
    BY <1>1 DEF CloseAbandoned, TypeOK, Calling
  <2>2. \/ status' = "cancelled" /\ begun' = 1
        \/ status' = "refused" /\ begun' = 0
    BY <1>1, <2>1 DEF CloseAbandoned
  <2> QED
    BY <1>1, <2>1, <2>2 DEF CloseAbandoned, Calling
<1>2. CASE PublishEnds \/ SaveEnds \/ Disconnect \/ DeleteConversation
  BY <1>2 DEF PublishEnds, SaveEnds, Disconnect, DeleteConversation, Calling
<1>3. CASE Get \/ Send \/ EndResponse \/ TearDown
  BY <1>3 DEF Get, Send, EndResponse, Leave, TearDown, Calling
<1>4. CASE CancelAgain \/ Watch
  BY <1>4 DEF CancelAgain, Watch, Calling
<1> QED
  BY <1>1, <1>2, <1>3, <1>4 DEF ConsumerStep

\* The other tasks: a save that ends stores the first reply.
LEMMA OtherReplying ==
  ASSUME TypeOK, Replying,
         \/ PublishEnds \/ SaveEnds \/ CloseAbandoned \/ ConsumerStep \/ CancelAgain \/ Watch
         \/ Disconnect \/ DeleteConversation
  PROVE  Replying'
<1> USE DEF world, stored, call, tasks, consumer
<1>1. CASE SaveEnds
  <2>1. replies = <<>> /\ ppc \in {"partial", "finish", "ended", "mute"} /\ ppc' = ppc
    BY <1>1 DEF SaveEnds, TypeOK, Waits, Replying
  <2>2. Len(Append(replies, parts)) = 1
    BY <2>1, OneReply
  <2>3. \/ saving' = "done" /\ replies' = Append(replies, parts)
        \/ saving' = "failed" /\ replies' = replies
    BY <1>1 DEF SaveEnds
  <2>4. Len(replies') <= 1
    BY <2>2, <2>3 DEF Replying
  <2> QED
    BY <2>1, <2>3, <2>4 DEF Replying
<1>2. CASE DeleteConversation
  BY <1>2 DEF DeleteConversation, Replying
<1>3. CASE PublishEnds \/ CloseAbandoned \/ Disconnect
  BY <1>3 DEF PublishEnds, CloseAbandoned, Disconnect, Replying
<1>4. CASE Get \/ Send \/ EndResponse \/ TearDown
  BY <1>4 DEF Get, Send, EndResponse, TearDown, Replying
<1>5. CASE CancelAgain \/ Watch
  BY <1>5 DEF CancelAgain, Watch, Replying
<1> QED
  BY <1>1, <1>2, <1>3, <1>4, <1>5 DEF ConsumerStep

Turn == TypeOK /\ Sending /\ Calling /\ Replying

\* The turn begins with nothing called and nothing stored.
LEMMA InitTurn == Init => Turn
<1> SUFFICES ASSUME Init PROVE Turn
  OBVIOUS
<1>1. Sending /\ Replying
  BY DEF Init, Sending, Replying
<1>2. Calling
  BY DEF Init, Calling
<1> QED
  BY <1>1, <1>2, InitTypeOK DEF Turn

\* Every step keeps the invariant of the turn.
LEMMA NextTurn == Turn /\ [Next]_vars => Turn'
<1> SUFFICES ASSUME Turn, [Next]_vars PROVE Turn'
  OBVIOUS
<1>1. CASE ProducerStep
  BY <1>1, ProducerTypeOK, ProducerSending, ProducerCalling, ProducerReplying DEF Turn
<1>2. CASE \/ PublishEnds \/ SaveEnds \/ CloseAbandoned \/ ConsumerStep \/ CancelAgain
           \/ Watch \/ Disconnect \/ DeleteConversation
  BY <1>2, OtherTypeOK, OtherCalling, OtherReplying DEF Turn
<1>3. CASE UNCHANGED vars
  <2> USE <1>3 DEF vars, world, stored, call, tasks, consumer, Turn
  <2>1. TypeOK' /\ Sending'
    BY DEF TypeOK, Sending
  <2>2. Calling' /\ Replying'
    BY DEF Calling, Replying, ProducerEnded
  <2> QED
    BY <2>1, <2>2
<1> QED
  BY <1>1, <1>2, <1>3 DEF Next, Stop

\* The invariant of the turn always holds.
LEMMA TurnInvariance == Spec => []Turn
BY InitTurn, NextTurn, PTL DEF Spec

\* Queue, frames, tasks and transcript keep their types: the queue never holds
\* more than its bound, the sentinel included.
THEOREM TypeCorrect == Spec => []TypeOK
<1>1. Turn => TypeOK
  BY DEF Turn
<1> QED
  BY <1>1, TurnInvariance, PTL

\* However a call ends, and however often its producer is cancelled meanwhile,
\* it hands one event to the bus, unless the event is refused.
THEOREM OneEvent == Spec => []OneEventPerCall
<1>1. Turn => OneEventPerCall
  BY DEF Turn, TypeOK, Calling, OneEventPerCall, Over, ProducerEnded
<1> QED
  BY <1>1, TurnInvariance, PTL

\* The partial save and the final transaction never both store a reply.
THEOREM OneReplyAtMost == Spec => []AtMostOneReply
<1>1. Turn => AtMostOneReply
  BY DEF Turn, Replying, AtMostOneReply
<1> QED
  BY <1>1, TurnInvariance, PTL

----------------------------------------------------------------------------
(* The frame protocol *)

\* What may stand behind a frame on its way to the client.
Leads(f) == IF f = Eos THEN {} ELSE P!Successors[f] \cup {Eos}

\* Frames in a legal order behind a, and the last of them.
Path(a, s) == \A i \in 1 .. Len(s) : s[i] \in Leads(IF i = 1 THEN a ELSE s[i - 1])
End(a, s) == IF Len(s) = 0 THEN a ELSE s[Len(s)]

\* The frames that are put lead on from each other.
LEMMA LeadsOn ==
  /\ "start" \in Leads("none") /\ "failed" \in Leads("none")
  /\ "ttft" \in Leads("start") /\ "delta" \in Leads("ttft") /\ "delta" \in Leads("delta")
  /\ \A f \in {"start", "delta"} : "done" \in Leads(f) /\ "failed" \in Leads(f)
  /\ Leads(Eos) = {}
  /\ \A f \in Frames \cup {"none"} :
       f # Eos /\ Eos \in Leads(f) /\ Leads(f) \ {Eos} = P!Successors[f]
BY DEF Leads, P!Successors, Eos, Frames

\* A path behind a path is a path.
LEMMA PathConcat ==
  ASSUME NEW S, NEW a, NEW s \in Seq(S), NEW r \in Seq(S), Path(a, s), Path(End(a, s), r)
  PROVE  Path(a, s \o r) /\ End(a, s \o r) = End(End(a, s), r)
<1>1. /\ Len(s) \in Nat /\ Len(r) \in Nat /\ Len(s \o r) = Len(s) + Len(r)
      /\ \A i \in 1 .. Len(s) + Len(r) :
           (s \o r)[i] = IF i <= Len(s) THEN s[i] ELSE r[i - Len(s)]
  BY ConcatProperties, LenProperties
<1>2. ASSUME NEW i \in 1 .. Len(s) + Len(r)
      PROVE  (s \o r)[i] \in Leads(IF i = 1 THEN a ELSE (s \o r)[i - 1])
  <2>1. CASE i <= Len(s)
    BY <1>1, <2>1 DEF Path
  <2>2. CASE i = Len(s) + 1
    <3>1. (s \o r)[i] = r[1] /\ 1 \in 1 .. Len(r)
      BY <1>1, <2>2
    <3>2. r[1] \in Leads(End(a, s))
      BY <3>1 DEF Path
    <3>3. End(a, s) = IF i = 1 THEN a ELSE (s \o r)[i - 1]
      BY <1>1, <2>2 DEF End
    <3> QED
      BY <3>1, <3>2, <3>3
  <2>3. CASE i > Len(s) + 1
    <3> DEFINE j == i - Len(s)
    <3>1. j \in 1 .. Len(r) /\ j # 1 /\ (s \o r)[i] = r[j] /\ (s \o r)[i - 1] = r[j - 1] /\ i # 1
      BY <1>1, <2>3
    <3>2. r[j] \in Leads(r[j - 1])
      BY <3>1 DEF Path
    <3> QED
      BY <3>1, <3>2
  <2> QED
    BY <1>1, <2>1, <2>2, <2>3
<1>3. Path(a, s \o r)
  BY <1>1, <1>2 DEF Path
<1>4. End(a, s \o r) = End(End(a, s), r)
  BY <1>1 DEF End
<1> QED
  BY <1>3, <1>4

\* A path that is cut is two paths.
LEMMA PathCut ==
  ASSUME TypeOK, NEW S, NEW a, NEW s \in Seq(S), Path(a, s)
  PROVE  /\ Path(a, Fits(s)) /\ Path(End(a, Fits(s)), Rest(s))
         /\ End(End(a, Fits(s)), Rest(s)) = End(a, s)
<1> DEFINE n == Len(Fits(s))
<1>1. /\ Fits(s) \in Seq(S) /\ Rest(s) \in Seq(S) /\ n <= Len(s)
      /\ \A i \in 1 .. n : Fits(s)[i] = s[i]
      /\ Len(Rest(s)) = Len(s) - n
      /\ \A i \in 1 .. Len(Rest(s)) : Rest(s)[i] = s[n + i]
  BY FitsRest
<1>2. n \in Nat /\ Len(s) \in Nat
  BY <1>1, LenProperties
<1>3. Path(a, Fits(s))
  BY <1>1, <1>2 DEF Path
<1>4. Path(End(a, Fits(s)), Rest(s))
  <2>1. ASSUME NEW i \in 1 .. Len(Rest(s))
        PROVE  Rest(s)[i] \in Leads(IF i = 1 THEN End(a, Fits(s)) ELSE Rest(s)[i - 1])
    <3>1. n + i \in 1 .. Len(s) /\ Rest(s)[i] = s[n + i]
      BY <1>1, <1>2
    <3>2. s[n + i] \in Leads(IF n + i = 1 THEN a ELSE s[n + i - 1])
      BY <3>1 DEF Path
    <3>3. CASE i = 1
      <4>1. End(a, Fits(s)) = IF n + i = 1 THEN a ELSE s[n + i - 1]
        BY <1>1, <1>2, <3>3 DEF End
      <4> QED
        BY <3>1, <3>2, <3>3, <4>1
    <3>4. CASE i # 1
      <4> DEFINE j == i - 1
      <4>1. j \in 1 .. Len(Rest(s)) /\ n + j = n + i - 1 /\ n + i # 1
        BY <1>1, <1>2, <3>4
      <4>2. Rest(s)[j] = s[n + j]
        BY <1>1, <4>1
      <4>3. Rest(s)[i - 1] = s[n + i - 1]
        BY <4>1, <4>2
      <4> QED
        BY <3>1, <3>2, <3>4, <4>1, <4>3
    <3> QED
      BY <3>3, <3>4
  <2> QED
    BY <2>1 DEF Path
<1>5. End(End(a, Fits(s)), Rest(s)) = End(a, s)
  <2> DEFINE m == Len(Rest(s))
  <2>1. CASE m = 0
    <3>1. n = Len(s) /\ (n # 0 => n \in 1 .. n)
      BY <1>1, <1>2, <2>1
    <3>2. n # 0 => Fits(s)[n] = s[n]
      BY <1>1, <3>1
    <3> QED
      BY <2>1, <3>1, <3>2 DEF End
  <2>2. CASE m # 0
    <3>1. m \in 1 .. m /\ n + m = Len(s) /\ Len(s) # 0
      BY <1>1, <1>2, <2>2
    <3>2. Rest(s)[m] = s[Len(s)]
      BY <1>1, <3>1
    <3> QED
      BY <2>2, <3>1, <3>2 DEF End
  <2> QED
    BY <2>1, <2>2
<1> QED
  BY <1>3, <1>4, <1>5

\* The rest of a path behind its head.
LEMMA PathTail ==
  ASSUME NEW S, NEW a, NEW s \in Seq(S), s # <<>>, Path(a, s)
  PROVE  /\ Head(s) \in Leads(a)
         /\ Path(Head(s), Tail(s)) /\ End(Head(s), Tail(s)) = End(a, s)
<1>1. /\ Len(s) \in Nat \ {0} /\ Len(Tail(s)) = Len(s) - 1 /\ Head(s) = s[1]
      /\ \A i \in 1 .. Len(Tail(s)) : Tail(s)[i] = s[i + 1]
  BY HeadTailProperties, EmptySeq
<1>2. Head(s) \in Leads(a)
  BY <1>1 DEF Path
<1>3. Path(Head(s), Tail(s))
  <2>1. ASSUME NEW i \in 1 .. Len(Tail(s))
        PROVE  Tail(s)[i] \in Leads(IF i = 1 THEN Head(s) ELSE Tail(s)[i - 1])
    <3>1. i + 1 \in 1 .. Len(s) /\ i + 1 # 1 /\ Tail(s)[i] = s[i + 1]
      BY <1>1
    <3>2. s[i + 1] \in Leads(s[i])
      BY <3>1 DEF Path
    <3>3. s[i] = IF i = 1 THEN Head(s) ELSE Tail(s)[i - 1]
      BY <1>1
    <3> QED
      BY <3>1, <3>2, <3>3
  <2> QED
    BY <2>1 DEF Path
<1>4. End(Head(s), Tail(s)) = End(a, s)
  BY <1>1 DEF End
<1> QED
  BY <1>2, <1>3, <1>4

\* Short paths.
LEMMA ShortPaths ==
  ASSUME NEW a
  PROVE  /\ Path(a, <<>>) /\ End(a, <<>>) = a
         /\ \A f : End(a, <<f>>) = f /\ (f \in Leads(a) => Path(a, <<f>>))
         /\ \A f, g : /\ End(a, <<f, g>>) = g
                      /\ f \in Leads(a) /\ g \in Leads(f) => Path(a, <<f, g>>)
BY DEF Path, End

\* The sentinel may stand behind everything but itself.
LEMMA EndWithOrdered ==
  ASSUME NEW a, NEW q \in Seq(Slots), Path(a, q), a \in Slots \cup {"none"}, End(a, q) # Eos,
         EndWith(q)
  PROVE  Path(a, queue')
<1>1. End(a, q) \in Frames \cup {"none"}
  BY ElementOfSeq, LenProperties DEF End, Slots
<1>2. Eos \in Leads(End(a, q))
  BY <1>1, LeadsOn
<1>3. Path(End(a, q), <<Eos>>) /\ <<Eos>> \in Seq(Slots)
  BY <1>2, ShortPaths DEF Slots
<1>4. Append(q, Eos) = q \o <<Eos>>
  BY AppendIsConcat DEF Slots
<1>5. Path(a, q \o <<Eos>>)
  BY <1>3, PathConcat
<1> QED
  BY <1>4, <1>5 DEF EndWith, WithEos

\* What the client gets next after what it has, and after all that is put.
Current == IF cpc = "send" THEN frame ELSE Last
Ahead == End(End(Current, queue), out)

\* Putting frames that lead on keeps the queue a path, whatever fits.
LEMMA PutThenOrdered ==
  ASSUME TypeOK, NEW a \in Frames \cup {"none"}, NEW s \in Seq(Frames), NEW next,
         Path(a, queue), Path(End(a, queue), s), End(End(a, queue), s) # Eos,
         PutThen(s, next)
  PROVE  /\ Path(a, queue') /\ Path(End(a, queue'), out')
         /\ \/ ppc' = next /\ End(End(a, queue'), out') = End(End(a, queue), s)
            \/ ppc' \in {"ended", "mute"}
<1> DEFINE b == End(a, queue)
           q == queue \o Fits(s)
<1>1. s \in Seq(Slots) /\ queue \in Seq(Slots) /\ a \in Slots \cup {"none"}
  BY SeqMonotonic DEF TypeOK, Slots
<1>2. /\ Path(b, Fits(s)) /\ Path(End(b, Fits(s)), Rest(s))
      /\ End(End(b, Fits(s)), Rest(s)) = End(b, s)
  BY <1>1, PathCut
<1>3. Fits(s) \in Seq(Slots)
  BY <1>1, FitsRest
<1>4. Path(a, q) /\ End(a, q) = End(b, Fits(s)) /\ q \in Seq(Slots)
  BY <1>1, <1>2, <1>3, PathConcat, ConcatProperties
<1>5. End(End(a, q), Rest(s)) = End(b, s) /\ Path(End(a, q), Rest(s))
  BY <1>2, <1>4
<1> HIDE DEF q
<1>6. out' = Rest(s) /\ (\/ out' = <<>> /\ EndWith(q)
                         \/ ppc' = next /\ queue' = q)
  BY DEF PutThen, q
<1>7. CASE out' = <<>> /\ EndWith(q)
  <2>1. End(a, q) # Eos
    BY <1>5, <1>6, <1>7, ShortPaths
  <2>2. Path(a, queue')
    BY <1>1, <1>4, <1>7, <2>1, EndWithOrdered
  <2>3. ppc' \in {"ended", "mute"}
    BY <1>7 DEF EndWith
  <2> QED
    BY <1>7, <2>2, <2>3, ShortPaths
<1>8. CASE ppc' = next /\ queue' = q
  BY <1>4, <1>5, <1>6, <1>8
<1> QED
  BY <1>6, <1>7, <1>8

\* What is on its way to a client that still reads leads on from what it has;
\* where the producer is says how far that goes.
Ordered ==
  client = "connected" /\ cpc \in {"get", "send"} =>
    /\ cpc = "send" => frame \in Leads(Last)
    /\ Path(Current, queue) /\ Path(End(Current, queue), out)
    /\ ppc = "turn" => Ahead = "none"
    /\ ppc = "provider" => Ahead = IF parts = 0 THEN "start" ELSE "delta"
    /\ ppc \in {"publish", "final", "partial"} => Ahead \in {"start", "delta"}
    /\ ~ProducerEnded => Ahead # Eos

\* Frames are left to put before a call, during it and at the end.
Putting ==
  /\ out # <<>> => ppc \in {"provider", "finish"}
  /\ ppc = "turn" => parts = 0

\* A client that reads gets frames only.
LEMMA CurrentTyped == ASSUME TypeOK PROVE Current \in Frames \cup {"none"}
<1>1. CASE received = <<>>
  BY <1>1 DEF Current, Last, TypeOK
<1>2. CASE received # <<>>
  <2>1. Len(received) \in 1 .. Len(received) /\ received \in Seq(Frames)
    BY <1>2, EmptySeq, LenProperties DEF TypeOK
  <2>2. received[Len(received)] \in Frames
    BY <2>1, ElementOfSeq
  <2> QED
    BY <1>2, <2>2 DEF Current, Last, TypeOK
<1> QED
  BY <1>1, <1>2

\* A step that puts frames which lead on keeps the order.
LEMMA PutsOrdered ==
  ASSUME TypeOK, Ordered, UNCHANGED <<client, consumer>>,
         NEW s \in Seq(Frames), NEW next \in {"provider", "finish"}, PutThen(s, next),
         client = "connected" /\ cpc \in {"get", "send"} =>
           /\ Path(End(Current, queue), s) /\ End(End(Current, queue), s) # Eos
           /\ next = "provider" =>
                End(End(Current, queue), s) = IF parts' = 0 THEN "start" ELSE "delta"
  PROVE  Ordered' /\ Putting'
<1> USE DEF consumer
<1>a. Putting'
  <2>1. \/ ppc' = next
        \/ out' = <<>> /\ ppc' \in {"ended", "mute"}
    BY PutThenTyped DEF Waits
  <2> QED
    BY <2>1 DEF Putting
<1> SUFFICES ASSUME client = "connected", cpc \in {"get", "send"}
             PROVE  Ordered'
  BY <1>a DEF Ordered
<1>1. Current' = Current /\ Last' = Last
  BY DEF Current, Last
<1>2. Current \in Frames \cup {"none"} /\ Path(Current, queue)
  BY CurrentTyped DEF Ordered
<1>3. /\ Path(Current, queue') /\ Path(End(Current, queue'), out')
      /\ \/ ppc' = next /\ End(End(Current, queue'), out') = End(End(Current, queue), s)
         \/ ppc' \in {"ended", "mute"}
  BY <1>2, PutThenOrdered
<1>4. Ahead' = End(End(Current, queue'), out')
  BY <1>1 DEF Ahead
<1> QED
  BY <1>1, <1>3, <1>4 DEF Ordered, ProducerEnded

\* So does a step that puts one frame behind all that is put.
LEMMA PutsOne ==
  ASSUME TypeOK, Ordered, UNCHANGED <<client, consumer>>, out = <<>>,
         NEW f \in Frames, NEW next \in {"provider", "finish"}, PutThen(<<f>>, next),
         client = "connected" /\ cpc \in {"get", "send"} =>
           /\ f \in Leads(Ahead)
           /\ next = "provider" => f = IF parts' = 0 THEN "start" ELSE "delta"
  PROVE  Ordered' /\ Putting'
<1>1. Ahead = End(Current, queue)
  BY ShortPaths DEF Ahead
<1>2. <<f>> \in Seq(Frames) /\ f # Eos
  BY LeadsOn
<1>3. \A g : End(g, <<f>>) = f /\ (f \in Leads(g) => Path(g, <<f>>))
  BY ShortPaths
<1> QED
  BY <1>1, <1>2, <1>3, PutsOrdered

\* The end of the task: what was not put is lost, and the sentinel comes last.
LEMMA EndsOrdered ==
  ASSUME TypeOK, Ordered, ~ProducerEnded, UNCHANGED <<client, consumer>>, EndTask
  PROVE  Ordered' /\ Putting'
<1> USE DEF consumer
<1>a. Putting'
  BY EndTaskTyped DEF Putting
<1> SUFFICES ASSUME client = "connected", cpc \in {"get", "send"}
             PROVE  Ordered'
  BY <1>a DEF Ordered
<1>1. Current' = Current /\ Last' = Last
  BY DEF Current, Last
<1>2. Current \in Slots \cup {"none"} /\ Path(Current, queue) /\ queue \in Seq(Slots)
  BY CurrentTyped DEF Ordered, Slots, TypeOK
<1>3. End(Current, queue) # Eos
  <2>1. Path(End(Current, queue), out) /\ Ahead # Eos /\ out \in Seq(Frames)
    BY DEF Ordered, TypeOK
  <2>2. CASE out = <<>>
    BY <2>1, <2>2, ShortPaths DEF Ahead
  <2>3. CASE out # <<>>
    BY <2>1, <2>3, PathTail, LeadsOn
  <2> QED
    BY <2>2, <2>3
<1>4. Path(Current, queue') /\ out' = <<>> /\ ppc' \in {"ended", "mute"}
  <2>1. EndWith(queue) /\ out' = <<>>
    BY DEF EndTask
  <2>2. Path(Current, queue')
    BY <1>2, <1>3, <2>1, EndWithOrdered
  <2> QED
    BY <2>1, <2>2 DEF EndWith
<1>5. Path(End(Current, queue'), out')
  BY <1>4, ShortPaths
<1> QED
  BY <1>1, <1>4, <1>5 DEF Ordered, ProducerEnded

\* And a step from one place to wait to another, with nothing to put.
LEMMA WaitsOrdered ==
  ASSUME TypeOK, Ordered, UNCHANGED <<client, consumer, queue, out>>, out = <<>>,
         ppc \in {"provider", "publish", "final", "partial"},
         ppc' \in {"publish", "final", "partial"}
  PROVE  Ordered' /\ Putting'
<1> USE DEF consumer
<1>1. Current' = Current /\ Last' = Last /\ Ahead' = Ahead
  BY DEF Current, Last, Ahead
<1>2. "start" # Eos /\ "delta" # Eos
  BY DEF Eos
<1> QED
  BY <1>1, <1>2 DEF Ordered, Putting

\* The producer reports the end of a failed call, or ends.
LEMMA LeaveOrdered ==
  ASSUME TypeOK, Ordered, UNCHANGED <<client, consumer>>, out = <<>>,
         ppc \in {"publish", "partial"}, LeavePartial
  PROVE  Ordered' /\ Putting'
<1>1. CASE why = "ProviderError"
  <2>1. PutThen(<<"failed">>, "finish") /\ "failed" \in Frames
    BY <1>1 DEF LeavePartial, Frames
  <2>2. client = "connected" /\ cpc \in {"get", "send"} => "failed" \in Leads(Ahead)
    BY LeadsOn DEF Ordered
  <2> QED
    BY <2>1, <2>2, PutsOne
<1>2. CASE why # "ProviderError"
  BY <1>2, EndsOrdered DEF LeavePartial, ProducerEnded
<1> QED
  BY <1>1, <1>2

\* The same before a partial save, unless there is text to save.
LEMMA PersistOrdered ==
  ASSUME TypeOK, Ordered, UNCHANGED <<client, consumer>>, out = <<>>,
         ppc = "publish", PersistPartial
  PROVE  Ordered' /\ Putting'
<1>1. CASE parts > 0
  BY <1>1, WaitsOrdered DEF PersistPartial
<1>2. CASE ~(parts > 0) /\ why' = "ProviderError"
  <2>1. PutThen(<<"failed">>, "finish") /\ "failed" \in Frames
    BY <1>2 DEF PersistPartial, Frames
  <2>2. client = "connected" /\ cpc \in {"get", "send"} => "failed" \in Leads(Ahead)
    BY LeadsOn DEF Ordered
  <2> QED
    BY <2>1, <2>2, PutsOne
<1>3. CASE ~(parts > 0) /\ why' # "ProviderError"
  BY <1>3, EndsOrdered DEF PersistPartial, ProducerEnded
<1> QED
  BY <1>1, <1>2, <1>3

\* A chunk puts its text, the first one the time it took before.
LEMMA ChunkOrdered ==
  ASSUME TypeOK, Ordered, Chunk
  PROVE  Ordered' /\ Putting'
<1> USE DEF consumer
<1>1. /\ out = <<>> /\ UNCHANGED <<client, consumer>> /\ parts' = parts + 1 /\ parts \in Nat
      /\ "delta" \in Frames
  BY DEF Chunk, At, world, TypeOK, Frames
<1>2. parts' # 0
  BY <1>1
<1>3. client = "connected" /\ cpc \in {"get", "send"} =>
        Ahead = IF parts = 0 THEN "start" ELSE "delta"
  BY DEF Ordered, Chunk, At
<1>4. CASE parts # 0
  <2>1. PutThen(<<"delta">>, "provider")
    BY <1>4 DEF Chunk
  <2>2. client = "connected" /\ cpc \in {"get", "send"} => "delta" \in Leads(Ahead)
    BY <1>3, <1>4, LeadsOn
  <2> QED
    BY <1>1, <1>2, <2>1, <2>2, PutsOne
<1>5. CASE parts = 0
  <2>1. PutThen(<<"ttft", "delta">>, "provider") /\ <<"ttft", "delta">> \in Seq(Frames)
    BY <1>5, FramesTyped DEF Chunk
  <2>2. Ahead = End(Current, queue)
    BY <1>1, ShortPaths DEF Ahead
  <2>3. End(End(Current, queue), <<"ttft", "delta">>) = "delta" /\ "delta" # Eos
    BY ShortPaths DEF Eos
  <2>4. client = "connected" /\ cpc \in {"get", "send"} =>
          Path(End(Current, queue), <<"ttft", "delta">>)
    BY <1>3, <1>5, <2>2, LeadsOn, ShortPaths
  <2> QED
    BY <1>1, <1>2, <2>1, <2>3, <2>4, PutsOrdered
<1> QED
  BY <1>4, <1>5

\* A put that goes on keeps the order.
LEMMA PutRestOrdered ==
  ASSUME TypeOK, Ordered, Putting, PutRest
  PROVE  Ordered' /\ Putting'
<1> USE DEF consumer
<1>1. /\ UNCHANGED <<client, consumer, parts>> /\ PutThen(out, ppc) /\ out \in Seq(Frames)
      /\ ppc \in {"provider", "finish"}
  BY DEF PutRest, world, TypeOK, Putting
<1>2. client = "connected" /\ cpc \in {"get", "send"} =>
        /\ Path(End(Current, queue), out) /\ Ahead # Eos
        /\ ppc = "provider" => Ahead = IF parts' = 0 THEN "start" ELSE "delta"
  BY <1>1 DEF Ordered, ProducerEnded
<1>3. Ahead = End(End(Current, queue), out)
  BY DEF Ahead
<1> QED
  BY <1>1, <1>2, <1>3, PutsOrdered

\* The producer keeps the order of the frames.
LEMMA ProducerOrdered ==
  ASSUME TypeOK, Ordered, Putting, ProducerStep
  PROVE  Ordered' /\ Putting'
<1> USE DEF consumer, world, ProducerEnded
<1>1. CASE UserTurn
  <2>1. /\ out = <<>> /\ UNCHANGED <<client, consumer>> /\ PutThen(<<"start">>, "provider")
        /\ parts' = 0 /\ "start" \in Frames
    BY <1>1 DEF UserTurn, At, Putting, Frames
  <2>2. client = "connected" /\ cpc \in {"get", "send"} => "start" \in Leads(Ahead)
    BY <1>1, LeadsOn DEF UserTurn, At, Ordered
  <2> QED
    BY <2>1, <2>2, PutsOne
<1>2. CASE UserTurnRejected
  <2>1. /\ out = <<>> /\ UNCHANGED <<client, consumer>> /\ PutThen(<<"failed">>, "finish")
        /\ "failed" \in Frames
    BY <1>2 DEF UserTurnRejected, At, Frames
  <2>2. client = "connected" /\ cpc \in {"get", "send"} => "failed" \in Leads(Ahead)
    BY <1>2, LeadsOn DEF UserTurnRejected, At, Ordered
  <2> QED
    BY <2>1, <2>2, PutsOne
<1>3. CASE UserTurnFails \/ AfterPartialFailed \/ FinalTurnFails \/ EventRefused
  BY <1>3, EndsOrdered DEF UserTurnFails, AfterPartialFailed, FinalTurnFails, EventRefused, At
<1>4. CASE CancelledInUserTurn \/ CancelledInFinalTurn
  BY <1>4, EndsOrdered DEF CancelledInUserTurn, CancelledInFinalTurn, Delivered
<1>5. CASE CancelledInPut
  BY <1>5, EndsOrdered DEF CancelledInPut, Delivered, Putting
<1>6. CASE PutRest
  BY <1>6, PutRestOrdered
<1>7. CASE Chunk
  BY <1>7, ChunkOrdered
<1>8. CASE ProviderEnds \/ ProviderFails \/ CancelledInProvider
  BY <1>8, WaitsOrdered DEF ProviderEnds, ProviderFails, CancelledInProvider, PublishEvent, At
<1>9. CASE AfterPublish
  <2>1. /\ out = <<>> /\ UNCHANGED <<client, consumer>> /\ ppc = "publish"
        /\ \/ ppc' = "final" /\ UNCHANGED <<out, queue>>
           \/ EndTask
           \/ PersistPartial
    BY <1>9 DEF AfterPublish, At
  <2> QED
    BY <2>1, WaitsOrdered, EndsOrdered, PersistOrdered
<1>10. CASE CancelledInPublish
  BY <1>10, PersistOrdered DEF CancelledInPublish, Delivered
<1>11. CASE AfterPartial \/ CancelledInPartial
  BY <1>11, LeaveOrdered DEF AfterPartial, CancelledInPartial, Delivered, At
<1>12. CASE FinalTurn
  <2>1. /\ out = <<>> /\ UNCHANGED <<client, consumer>> /\ PutThen(<<"done">>, "finish")
        /\ "done" \in Frames
    BY <1>12 DEF FinalTurn, At, Frames
  <2>2. client = "connected" /\ cpc \in {"get", "send"} => "done" \in Leads(Ahead)
    BY <1>12, LeadsOn DEF FinalTurn, At, Ordered
  <2> QED
    BY <2>1, <2>2, PutsOne
<1> QED
  BY <1>1, <1>2, <1>3, <1>4, <1>5, <1>6, <1>7, <1>8, <1>9, <1>10, <1>11, <1>12
     DEF ProducerStep, Cancellation

\* The consumer takes the next frame.
LEMMA GetOrdered ==
  ASSUME TypeOK, Ordered, Get
  PROVE  Ordered'
<1> USE DEF world, call
<1> SUFFICES ASSUME client = "connected", Head(queue) # Eos
             PROVE  Ordered'
  BY DEF Ordered, Get
<1>1. /\ cpc = "get" /\ cpc' = "send" /\ frame' = Head(queue) /\ queue' = Tail(queue)
      /\ queue # <<>> /\ queue \in Seq(Slots)
      /\ UNCHANGED <<client, ppc, out, parts, received>>
  BY DEF Get, TypeOK, Slots
<1>2. Current = Last /\ Current' = Head(queue) /\ Last' = Last
  BY <1>1 DEF Current, Last
<1>3. Path(Current, queue) /\ Path(End(Current, queue), out)
  BY <1>1 DEF Ordered
<1>4. /\ Head(queue) \in Leads(Current)
      /\ Path(Head(queue), Tail(queue)) /\ End(Head(queue), Tail(queue)) = End(Current, queue)
  BY <1>1, <1>3, PathTail
<1>5. Ahead' = Ahead
  BY <1>1, <1>2, <1>4 DEF Ahead
<1> QED
  BY <1>1, <1>2, <1>3, <1>4, <1>5 DEF Ordered, ProducerEnded

\* The last frame received is the one just sent.
LEMMA SendIsLast ==
  ASSUME TypeOK, Sending, Send, client = "connected"
  PROVE  Last' = frame /\ frame \in Frames
<1>1. /\ received' = Append(received, frame) /\ received \in Seq(Frames) /\ frame \in Frames
  BY DEF Send, Sending, TypeOK
<1>2. /\ Len(received') = Len(received) + 1 /\ received'[Len(received) + 1] = frame
      /\ Len(received) \in Nat
  BY <1>1, AppendProperties, LenProperties
<1>3. received' # <<>>
  BY <1>2
<1> QED
  BY <1>1, <1>2, <1>3 DEF Last

\* The consumer sends it.
LEMMA SendOrdered ==
  ASSUME TypeOK, Sending, Ordered, Send
  PROVE  Ordered'
<1> USE DEF world, call
<1> SUFFICES ASSUME client = "connected"
             PROVE  Ordered'
  BY DEF Ordered, Send
<1>1. /\ cpc = "send" /\ cpc' = "get"
      /\ UNCHANGED <<client, ppc, out, parts, queue>>
  BY DEF Send
<1>2. Current' = Current /\ Ahead' = Ahead
  BY <1>1, SendIsLast DEF Current, Ahead
<1> QED
  BY <1>1, <1>2 DEF Ordered, ProducerEnded

\* The other tasks put nothing.
LEMMA OtherOrdered ==
  ASSUME TypeOK, Sending, Ordered, Putting,
         \/ PublishEnds \/ SaveEnds \/ CloseAbandoned \/ ConsumerStep \/ CancelAgain \/ Watch
         \/ Disconnect \/ DeleteConversation
  PROVE  Ordered' /\ Putting'
<1> USE DEF world, call, consumer, stored, tasks
<1>1. CASE PublishEnds \/ SaveEnds \/ CloseAbandoned \/ CancelAgain \/ Watch \/ DeleteConversation
  <2>1. UNCHANGED <<client, ppc, out, parts, queue, cpc, frame, received>>
    BY <1>1 DEF PublishEnds, SaveEnds, CloseAbandoned, CancelAgain, Watch, DeleteConversation
  <2>2. Current' = Current /\ Last' = Last /\ Ahead' = Ahead
    BY <2>1 DEF Current, Last, Ahead
  <2> QED
    BY <2>1, <2>2 DEF Ordered, Putting, ProducerEnded
<1>2. CASE EndResponse \/ TearDown \/ Disconnect
  BY <1>2 DEF EndResponse, TearDown, Disconnect, Leave, Ordered, Putting
<1>3. CASE Get
  BY <1>3, GetOrdered DEF Get, Putting
<1>4. CASE Send
  BY <1>4, SendOrdered DEF Send, Putting
<1> QED
  BY <1>1, <1>2, <1>3, <1>4 DEF ConsumerStep

Protocol == Turn /\ Ordered /\ Putting

\* Before anything is put, the client has nothing.
LEMMA InitProtocol == Init => Protocol
<1> SUFFICES ASSUME Init PROVE Protocol
  OBVIOUS
<1>1. queue = <<>> /\ out = <<>> /\ ppc = "turn" /\ parts = 0 /\ cpc = "get"
      /\ Current = "none"
  BY DEF Init, Current, Last
<1>2. /\ Path(Current, queue) /\ Path(End(Current, queue), out) /\ Ahead = "none"
  BY <1>1, ShortPaths DEF Ahead
<1>3. Ordered
  BY <1>1, <1>2 DEF Ordered, Eos
<1> QED
  BY <1>1, <1>3, InitTurn DEF Protocol, Putting

\* Every step keeps the invariant of the frames.
LEMMA NextProtocol == Protocol /\ [Next]_vars => Protocol'
<1> SUFFICES ASSUME Protocol, [Next]_vars PROVE Protocol'
  OBVIOUS
<1>1. Turn'
  BY NextTurn DEF Protocol
<1>2. CASE ProducerStep
  BY <1>1, <1>2, ProducerOrdered DEF Protocol, Turn
<1>3. CASE \/ PublishEnds \/ SaveEnds \/ CloseAbandoned \/ ConsumerStep \/ CancelAgain
           \/ Watch \/ Disconnect \/ DeleteConversation
  BY <1>1, <1>3, OtherOrdered DEF Protocol, Turn
<1>4. CASE UNCHANGED vars
  <2>1. UNCHANGED <<client, ppc, out, parts, queue, cpc, frame, received>>
    BY <1>4 DEF vars, world, call, consumer
  <2>2. Current' = Current /\ Last' = Last /\ Ahead' = Ahead
    BY <2>1 DEF Current, Last, Ahead
  <2> QED
    BY <1>1, <2>1, <2>2 DEF Protocol, Ordered, Putting, ProducerEnded
<1> QED
  BY <1>2, <1>3, <1>4 DEF Next, Stop

\* A step sends a client one more frame, or leaves it what it has.
LEMMA StepFollows == Protocol /\ [Next]_vars => [P!Next]_Last
<1> SUFFICES ASSUME Protocol, [Next]_vars PROVE P!Next \/ Last' = Last
  OBVIOUS
<1> USE DEF world, stored, call, tasks, consumer
<1>1. CASE Send /\ client = "connected"
  <2>1. Last' = frame /\ frame \in Frames
    BY <1>1, SendIsLast DEF Protocol, Turn
  <2>2. frame \in Leads(Last) /\ Last \in Frames \cup {"none"}
    <3>1. TypeOK /\ frame \in Leads(Last)
      BY <1>1 DEF Send, Protocol, Turn, Ordered
    <3>2. CASE received = <<>>
      BY <3>1, <3>2 DEF Last
    <3>3. CASE received # <<>>
      <4>1. Len(received) \in 1 .. Len(received) /\ received \in Seq(Frames)
        BY <3>1, <3>3, EmptySeq, LenProperties DEF TypeOK
      <4>2. received[Len(received)] \in Frames
        BY <4>1, ElementOfSeq
      <4> QED
        BY <3>1, <3>3, <4>2 DEF Last
    <3> QED
      BY <3>1, <3>2, <3>3
  <2>3. frame # Eos
    BY <2>1, LeadsOn
  <2>4. frame \in P!Successors[Last]
    BY <2>2, <2>3, LeadsOn
  <2> QED
    BY <2>1, <2>4 DEF P!Next
<1>2. CASE ~(Send /\ client = "connected")
  <2>1. received' = received
    BY <1>2 DEF Next, Stop, vars, ConsumerStep, ProducerStep, Cancellation, UserTurn,
       UserTurnRejected, UserTurnFails, PutRest, Chunk, ProviderEnds, ProviderFails,
       EventRefused, AfterPublish, AfterPartial, AfterPartialFailed, FinalTurn,
       FinalTurnFails, CancelledInUserTurn, CancelledInFinalTurn, CancelledInPut,
       CancelledInProvider, CancelledInPublish, CancelledInPartial, PublishEnds, SaveEnds,
       CloseAbandoned, Get, Send, EndResponse, TearDown, CancelAgain, Watch, Disconnect,
       DeleteConversation
  <2> QED
    BY <2>1 DEF Last
<1> QED
  BY <1>1, <1>2

\* What a client receives is a run of the frame protocol, wherever the queue
\* fills, the turn fails, and cancellation strikes.
THEOREM FrameOrder == Spec => FollowsProtocol
<1>1. Init => P!Init
  BY DEF Init, Last, P!Init
<1> QED
  BY <1>1, InitProtocol, NextProtocol, StepFollows, PTL DEF Spec, FollowsProtocol, P!Spec
----------------------------------------------------------------------------
(* How many frames of a kind *)

Count(s, f) == Cardinality({i \in 1 .. Len(s) : s[i] = f})

\* A count is a number, positive when there is such a frame.
LEMMA CountType ==
  ASSUME NEW S, NEW s \in Seq(S), NEW f
  PROVE  /\ Count(s, f) \in Nat
         /\ Count(s, f) > 0 <=> \E i \in 1 .. Len(s) : s[i] = f
<1> DEFINE A == {i \in 1 .. Len(s) : s[i] = f}
<1>1. IsFiniteSet(A)
  <2>1. Len(s) \in Nat /\ IsFiniteSet(1 .. Len(s)) /\ A \in SUBSET (1 .. Len(s))
    BY FS_Interval, LenProperties
  <2> QED
    BY <2>1, FS_Subset
<1>2. Cardinality(A) \in Nat /\ (Cardinality(A) = 0 <=> A = {})
  BY <1>1, FS_CardinalityType, FS_EmptySet
<1> QED
  BY <1>2 DEF Count

\* The count of a concatenation.
LEMMA CountConcat ==
  ASSUME NEW S, NEW s \in Seq(S), NEW r \in Seq(S), NEW f
  PROVE  Count(s \o r, f) = Count(s, f) + Count(r, f)
<1> DEFINE m == Len(s)
           n == Len(r)
           A == {i \in 1 .. m : s[i] = f}
           B == {i \in 1 .. n : r[i] = f}
           C == {i \in m + 1 .. m + n : r[i - m] = f}
           D == {i \in 1 .. m + n : (s \o r)[i] = f}
           g == [i \in B |-> m + i]
<1>1. /\ m \in Nat /\ n \in Nat /\ Len(s \o r) = m + n
      /\ \A i \in 1 .. m + n : (s \o r)[i] = IF i <= m THEN s[i] ELSE r[i - m]
  BY ConcatProperties, LenProperties
<1>2. IsFiniteSet(A) /\ IsFiniteSet(B)
  <2>1. IsFiniteSet(1 .. m) /\ IsFiniteSet(1 .. n)
    BY <1>1, FS_Interval
  <2>2. A \in SUBSET (1 .. m) /\ B \in SUBSET (1 .. n)
    OBVIOUS
  <2> QED
    BY <2>1, <2>2, FS_Subset
<1>3. IsFiniteSet(C) /\ Cardinality(C) = Cardinality(B)
  <2>1. \A i \in B : i \in 1 .. n /\ r[i] = f
    OBVIOUS
  <2>2. \A i \in B : m + i \in C
    BY <1>1, <2>1
  <2>3. \A i \in C : i - m \in B /\ m + (i - m) = i
    BY <1>1
  <2>4. \A i, j \in B : m + i = m + j => i = j
    BY <1>1, <2>1
  <2> HIDE DEF B, C, m
  <2>5. g \in [B -> C] /\ \A i \in B : g[i] = m + i
    BY <2>2
  <2>6. g \in Bijection(B, C)
    <3>1. \A i \in C : \E j \in B : g[j] = i
      BY <2>3, <2>5
    <3>2. \A i, j \in B : g[i] = g[j] => i = j
      BY <2>4, <2>5
    <3> QED
      BY <2>5, <3>1, <3>2, Fun_IsBij
  <2>7. ExistsBijection(B, C)
    BY <2>6 DEF ExistsBijection
  <2> QED
    BY <1>2, <2>7, FS_Bijection
<1>4. D = A \cup C /\ A \cap C = {}
  BY <1>1
<1>5. Cardinality(D) = Cardinality(A) + Cardinality(C)
  <2>1. Cardinality(A) \in Nat /\ Cardinality(C) \in Nat /\ Cardinality({}) = 0
    BY <1>2, <1>3, FS_CardinalityType, FS_EmptySet
  <2>2. Cardinality(A \cup C) = Cardinality(A) + Cardinality(C) - Cardinality(A \cap C)
    BY <1>2, <1>3, FS_Union
  <2>3. Cardinality(D) = Cardinality(A \cup C) /\ Cardinality(A \cap C) = 0
    BY <1>4, <2>1
  <2> HIDE DEF A, C, D
  <2> QED
    BY <2>1, <2>2, <2>3
<1>6. Count(s, f) = Cardinality(A) /\ Count(r, f) = Cardinality(B)
  BY DEF Count
<1>7. Count(s \o r, f) = Cardinality(D)
  BY <1>1 DEF Count
<1> QED
  BY <1>3, <1>5, <1>6, <1>7

\* The counts of the sequences the program puts.
LEMMA CountShort ==
  ASSUME NEW f
  PROVE  /\ Count(<<>>, f) = 0
         /\ \A a : Count(<<a>>, f) = IF a = f THEN 1 ELSE 0
<1>1. Count(<<>>, f) = 0
  <2>1. {i \in 1 .. Len(<<>>) : <<>>[i] = f} = {}
    OBVIOUS
  <2> QED
    BY <2>1, FS_EmptySet DEF Count
<1>2. ASSUME NEW a
      PROVE  Count(<<a>>, f) = IF a = f THEN 1 ELSE 0
  <2>1. {i \in 1 .. Len(<<a>>) : <<a>>[i] = f} = IF a = f THEN {1} ELSE {}
    OBVIOUS
  <2> QED
    BY <2>1, FS_EmptySet, FS_Singleton DEF Count
<1> QED
  BY <1>1, <1>2

\* Taking the head off, and putting one element behind.
LEMMA CountEnds ==
  ASSUME NEW S, NEW s \in Seq(S), NEW f
  PROVE  /\ s # <<>> => Count(s, f) = Count(Tail(s), f) + (IF Head(s) = f THEN 1 ELSE 0)
         /\ \A a \in S : Count(Append(s, a), f) = Count(s, f) + (IF a = f THEN 1 ELSE 0)
<1>1. ASSUME s # <<>>
      PROVE  Count(s, f) = Count(Tail(s), f) + (IF Head(s) = f THEN 1 ELSE 0)
  <2>1. Head(s) \in S /\ Tail(s) \in Seq(S) /\ s = <<Head(s)>> \o Tail(s)
    BY <1>1, HeadTailProperties
  <2>2. <<Head(s)>> \in Seq(S)
    BY <2>1
  <2>3. Count(s, f) = Count(<<Head(s)>>, f) + Count(Tail(s), f)
    <3> DEFINE h == <<Head(s)>>
               t == Tail(s)
    <3>1. h \in Seq(S) /\ t \in Seq(S) /\ s = h \o t
      BY <2>1, <2>2
    <3> HIDE DEF h, t
    <3>2. Count(h \o t, f) = Count(h, f) + Count(t, f)
      BY <3>1, CountConcat
    <3> QED
      BY <3>1, <3>2 DEF h, t
  <2>4. Count(Tail(s), f) \in Nat
    BY <2>1, CountType
  <2>5. Count(<<Head(s)>>, f) = IF Head(s) = f THEN 1 ELSE 0
    BY CountShort
  <2> QED
    BY <2>3, <2>4, <2>5
<1>2. ASSUME NEW a \in S
      PROVE  Count(Append(s, a), f) = Count(s, f) + (IF a = f THEN 1 ELSE 0)
  <2>1. Append(s, a) = s \o <<a>> /\ <<a>> \in Seq(S)
    BY AppendIsConcat
  <2>2. Count(Append(s, a), f) = Count(s, f) + Count(<<a>>, f)
    <3> DEFINE one == <<a>>
    <3>1. one \in Seq(S) /\ Append(s, a) = s \o one
      BY <2>1
    <3> HIDE DEF one
    <3>2. Count(s \o one, f) = Count(s, f) + Count(one, f)
      BY <3>1, CountConcat
    <3> QED
      BY <3>1, <3>2 DEF one
  <2> QED
    BY <2>2, CountShort
<1> QED
  BY <1>1, <1>2

\* Cutting a sequence where the room ends.
LEMMA CountCut ==
  ASSUME TypeOK, NEW S, NEW s \in Seq(S), NEW f
  PROVE  Count(s, f) = Count(Fits(s), f) + Count(Rest(s), f)
<1>1. /\ Fits(s) \in Seq(S) /\ Rest(s) \in Seq(S) /\ Len(Fits(s)) <= Len(s)
      /\ \A i \in 1 .. Len(Fits(s)) : Fits(s)[i] = s[i]
      /\ Len(Rest(s)) = Len(s) - Len(Fits(s))
      /\ \A i \in 1 .. Len(Rest(s)) : Rest(s)[i] = s[Len(Fits(s)) + i]
  BY FitsRest
<1>2. Len(s) \in Nat /\ Len(Fits(s)) \in Nat
  BY <1>1, LenProperties
<1>3. s = Fits(s) \o Rest(s)
  <2> DEFINE t == Fits(s) \o Rest(s)
  <2>1. /\ t \in Seq(S) /\ Len(t) = Len(s)
        /\ \A i \in 1 .. Len(s) :
             t[i] = IF i <= Len(Fits(s)) THEN Fits(s)[i] ELSE Rest(s)[i - Len(Fits(s))]
    BY <1>1, <1>2, ConcatProperties
  <2>2. ASSUME NEW i \in 1 .. Len(s)
        PROVE  t[i] = s[i]
    <3>1. CASE i <= Len(Fits(s))
      BY <1>1, <1>2, <2>1, <3>1
    <3>2. CASE ~(i <= Len(Fits(s)))
      <4> DEFINE j == i - Len(Fits(s))
      <4>1. j \in 1 .. Len(Rest(s)) /\ Len(Fits(s)) + j = i
        BY <1>1, <1>2, <3>2
      <4>2. Rest(s)[j] = s[i]
        BY <1>1, <4>1
      <4> QED
        BY <2>1, <3>2, <4>2
    <3> QED
      BY <3>1, <3>2
  <2> QED
    BY <2>1, <2>2, SeqEqual
<1> DEFINE a == Fits(s)
           b == Rest(s)
<1>4. a \in Seq(S) /\ b \in Seq(S) /\ s = a \o b
  BY <1>1, <1>3
<1> HIDE DEF a, b
<1>5. Count(a \o b, f) = Count(a, f) + Count(b, f)
  BY <1>4, CountConcat
<1> QED
  BY <1>4, <1>5 DEF a, b

----------------------------------------------------------------------------
(* What the client is told, and what is stored *)

\* The frames of a kind that were put and are not lost.
OnTheWay(f) ==
  Count(received, f) + (IF cpc = "send" /\ frame = f THEN 1 ELSE 0) + Count(queue, f) + Count(out, f)

\* How the call ended decides what the producer does next.
Deciding ==
  /\ ppc \in {"turn", "provider"} => why = "none"
  /\ ppc = "publish" => (why = "none" <=> status = "success")
  /\ ppc = "final" => status = "success"

\* Every text frame stands for a chunk, a reply is all the text there is, and
\* "done" is put behind a reply that was stored complete.
Covering ==
  /\ OnTheWay("delta") <= parts
  /\ \A i \in 1 .. Len(replies) : replies[i] = parts
  /\ OnTheWay("done") > 0 =>
       /\ ppc \in {"finish", "ended", "mute"} /\ saving = "none" /\ status = "success"
       /\ conv => replies # <<>>
  /\ Got("done") => Deltas = parts

\* Nothing cancels the turn of a client that stays, nothing that was put is
\* lost, and its response ends behind the last frame.
Staying ==
  client = "connected" =>
    /\ ~cancel /\ ~abandoned /\ cpc # "unwind"
    /\ status # "cancelled" /\ why # "CancelledError"
    /\ saving # "none" \/ ppc = "partial" => status # "success"
    /\ OnTheWay("delta") = parts
    /\ status = "success" /\ replies # <<>> => OnTheWay("done") > 0
    /\ cpc \in {"close", "ended"} => queue = <<>> /\ out = <<>> /\ ProducerEnded

\* The parts of a sum are numbers; what the client got is one of them.
LEMMA WayType ==
  ASSUME TypeOK, NEW f
  PROVE  /\ Count(received, f) \in Nat /\ Count(queue, f) \in Nat /\ Count(out, f) \in Nat
         /\ OnTheWay(f) \in Nat /\ Count(received, f) <= OnTheWay(f)
         /\ Got(f) <=> Count(received, f) > 0
<1>1. received \in Seq(Frames) /\ queue \in Seq(Slots) /\ out \in Seq(Frames)
  BY DEF TypeOK, Slots
<1>2. Count(received, f) \in Nat /\ Count(queue, f) \in Nat /\ Count(out, f) \in Nat
  BY <1>1, CountType
<1>3. Got(f) <=> Count(received, f) > 0
  BY <1>1, CountType DEF Got
<1> QED
  BY <1>2, <1>3 DEF OnTheWay

\* The sentinel is no frame.
LEMMA EndWithCount ==
  ASSUME NEW q \in Seq(Slots), EndWith(q), NEW f \in Frames
  PROVE  Count(queue', f) = Count(q, f)
<1>1. Eos # f /\ Eos \in Slots /\ Count(q, f) \in Nat
  BY CountType DEF Eos, Frames, Slots
<1>2. Count(Append(q, Eos), f) = Count(q, f) + (IF Eos = f THEN 1 ELSE 0)
  BY <1>1, CountEnds
<1>3. Count(Append(q, Eos), f) = Count(q, f)
  BY <1>1, <1>2
<1> QED
  BY <1>3 DEF EndWith, WithEos

\* Frames that are put go into the queue or wait in front of it.
LEMMA PutThenCount ==
  ASSUME TypeOK, NEW s \in Seq(Frames), NEW next, PutThen(s, next), NEW f \in Frames
  PROVE  Count(queue', f) + Count(out', f) = Count(queue, f) + Count(s, f)
<1> DEFINE q == queue \o Fits(s)
<1>1. queue \in Seq(Slots) /\ s \in Seq(Slots)
  BY SeqMonotonic DEF TypeOK, Slots
<1>2. Fits(s) \in Seq(Slots) /\ Rest(s) \in Seq(Slots)
  BY <1>1, FitsRest
<1>3. q \in Seq(Slots) /\ Count(q, f) = Count(queue, f) + Count(Fits(s), f)
  BY <1>1, <1>2, ConcatProperties, CountConcat
<1>4. Count(s, f) = Count(Fits(s), f) + Count(Rest(s), f)
  BY <1>1, CountCut
<1>5. Count(queue, f) \in Nat /\ Count(Fits(s), f) \in Nat /\ Count(Rest(s), f) \in Nat
  BY <1>1, <1>2, CountType
<1> HIDE DEF q
<1>6. out' = Rest(s) /\ (EndWith(q) \/ queue' = q)
  BY DEF PutThen, q
<1>7. Count(queue', f) = Count(q, f)
  BY <1>3, <1>6, EndWithCount
<1> QED
  BY <1>3, <1>4, <1>5, <1>6, <1>7

\* One frame that is put is on its way, or the frames that waited still are.
LEMMA PutThenWay ==
  ASSUME TypeOK, UNCHANGED consumer, NEW s \in Seq(Frames), NEW next, PutThen(s, next),
         NEW f \in Frames
  PROVE  /\ s = out => OnTheWay(f)' = OnTheWay(f)
         /\ out = <<>> => OnTheWay(f)' = OnTheWay(f) + Count(s, f)
<1>1. Count(queue', f) + Count(out', f) = Count(queue, f) + Count(s, f)
  BY PutThenCount
<1>2. /\ Count(received, f) \in Nat /\ Count(queue, f) \in Nat /\ Count(out, f) \in Nat
      /\ Count(s, f) \in Nat
  BY WayType, CountType
<1>3. Count(queue', f) \in Nat /\ Count(out', f) \in Nat
  <2>1. Rest(s) \in Seq(Frames) /\ Fits(s) \in Seq(Frames)
    BY FitsRest
  <2>2. out' \in Seq(Frames)
    BY <2>1 DEF PutThen
  <2>3. queue' \in Seq(Slots)
    <3>1. Fits(s) \in Seq(Slots) /\ queue \in Seq(Slots)
      BY <2>1, SeqMonotonic DEF TypeOK, Slots
    <3>2. queue \o Fits(s) \in Seq(Slots)
      BY <3>1, ConcatProperties
    <3>3. Append(queue \o Fits(s), Eos) \in Seq(Slots)
      BY <3>2, AppendProperties DEF Slots
    <3> QED
      BY <3>2, <3>3 DEF PutThen, EndWith, WithEos
  <2> QED
    BY <2>2, <2>3, CountType
<1>4. out = <<>> => Count(out, f) = 0
  BY CountShort
<1>5. received' = received /\ cpc' = cpc /\ frame' = frame
  BY DEF consumer
<1> DEFINE sent == IF cpc = "send" /\ frame = f THEN 1 ELSE 0
<1>6. sent \in Nat
  OBVIOUS
<1>7. /\ OnTheWay(f) = Count(received, f) + sent + Count(queue, f) + Count(out, f)
      /\ OnTheWay(f)' = Count(received, f) + sent + Count(queue', f) + Count(out', f)
  BY <1>5 DEF OnTheWay
<1> HIDE DEF sent
<1>8. s = out => Count(s, f) = Count(out, f)
  OBVIOUS
<1> QED
  BY <1>1, <1>2, <1>3, <1>4, <1>6, <1>7, <1>8

\* A task that ends loses the frames it still had to put.
LEMMA EndTaskWay ==
  ASSUME TypeOK, UNCHANGED consumer, EndTask, NEW f \in Frames
  PROVE  /\ OnTheWay(f)' \in Nat /\ OnTheWay(f)' <= OnTheWay(f)
         /\ out = <<>> => OnTheWay(f)' = OnTheWay(f)
<1>1. queue \in Seq(Slots) /\ EndWith(queue) /\ out' = <<>>
  BY DEF EndTask, TypeOK, Slots
<1>2. Count(queue', f) = Count(queue, f) /\ Count(out', f) = 0
  BY <1>1, EndWithCount, CountShort
<1>3. /\ Count(received, f) \in Nat /\ Count(queue, f) \in Nat /\ Count(out, f) \in Nat
      /\ out = <<>> => Count(out, f) = 0
  BY WayType, CountShort
<1>4. received' = received /\ cpc' = cpc /\ frame' = frame
  BY DEF consumer
<1> QED
  BY <1>2, <1>3, <1>4 DEF OnTheWay

\* A step that puts no text and no "done".
Steady ==
  /\ UNCHANGED <<consumer, parts>>
  /\ OnTheWay("delta")' = OnTheWay("delta") /\ OnTheWay("done")' = OnTheWay("done")

\* The same for the frames that begin and end a turn.
LEMMA FrameWay ==
  ASSUME TypeOK, UNCHANGED <<consumer, parts>>, out = <<>>,
         NEW g \in {"start", "failed"}, NEW next, PutThen(<<g>>, next)
  PROVE  Steady
<1>1. <<g>> \in Seq(Frames) /\ "delta" \in Frames /\ "done" \in Frames
  BY DEF Frames
<1>2. Count(<<g>>, "delta") = 0 /\ Count(<<g>>, "done") = 0
  BY CountShort
<1>3. OnTheWay("delta") \in Nat /\ OnTheWay("done") \in Nat
  BY WayType
<1>4. /\ OnTheWay("delta")' = OnTheWay("delta") + Count(<<g>>, "delta")
      /\ OnTheWay("done")' = OnTheWay("done") + Count(<<g>>, "done")
  BY <1>1, PutThenWay
<1> QED
  BY <1>2, <1>3, <1>4 DEF Steady

\* And for the end of a task with nothing left to put.
LEMMA EndWay ==
  ASSUME TypeOK, UNCHANGED <<consumer, parts>>, out = <<>>, EndTask
  PROVE  Steady
BY EndTaskWay DEF Steady, Frames

\* A failed or cancelled call puts no text and no "done".
LEMMA LeaveWay ==
  ASSUME TypeOK, UNCHANGED <<consumer, parts>>, out = <<>>, LeavePartial
  PROVE  Steady
BY FrameWay, EndWay DEF LeavePartial

\* Nor does the start of a partial save, or the end without one.
LEMMA PersistWay ==
  ASSUME TypeOK, UNCHANGED <<consumer, parts>>, out = <<>>, PersistPartial
  PROVE  Steady
<1>1. CASE parts > 0
  <2>1. UNCHANGED <<out, queue, consumer, parts>>
    BY <1>1 DEF PersistPartial
  <2> QED
    BY <2>1 DEF Steady, OnTheWay, consumer
<1>2. CASE ~(parts > 0)
  BY <1>2, FrameWay, EndWay DEF PersistPartial
<1> QED
  BY <1>1, <1>2

\* What a step of the producer puts: the text of a chunk, "done", nothing, or
\* it loses what it had to put.
LEMMA ProducerWay ==
  ASSUME TypeOK, ProducerStep
  PROVE  \/ /\ Chunk /\ UNCHANGED consumer /\ parts' = parts + 1
            /\ OnTheWay("delta")' = OnTheWay("delta") + 1
            /\ OnTheWay("done")' = OnTheWay("done")
         \/ /\ FinalTurn /\ UNCHANGED <<consumer, parts>>
            /\ OnTheWay("delta")' = OnTheWay("delta")
            /\ OnTheWay("done")' = OnTheWay("done") + 1
         \/ /\ CancelledInPut /\ UNCHANGED <<consumer, parts>>
            /\ OnTheWay("delta")' \in Nat /\ OnTheWay("delta")' <= OnTheWay("delta")
            /\ OnTheWay("done")' \in Nat /\ OnTheWay("done")' <= OnTheWay("done")
         \/ ~Chunk /\ ~FinalTurn /\ ~CancelledInPut /\ Steady
<1> USE DEF call, At, Delivered
<1>a. "delta" \in Frames /\ "done" \in Frames
  BY DEF Frames
<1>1. CASE Chunk
  <2>1. /\ UNCHANGED consumer /\ parts' = parts + 1 /\ out = <<>>
        /\ PutThen(IF parts = 0 THEN <<"ttft", "delta">> ELSE <<"delta">>, "provider")
    BY <1>1 DEF Chunk
  <2>2. PICK s \in {<<"ttft", "delta">>, <<"delta">>} : PutThen(s, "provider")
    BY <2>1
  <2>3. s \in Seq(Frames)
    BY <2>2, FramesTyped
  <2>4. Count(s, "delta") = 1 /\ Count(s, "done") = 0
    <3>1. <<"ttft">> \in Seq(Frames) /\ <<"ttft", "delta">> = <<"ttft">> \o <<"delta">>
      BY DEF Frames
    <3>2. ASSUME NEW r \in Seq(Frames), NEW t \in Seq(Frames), NEW u, u = r \o t
          PROVE  /\ Count(u, "delta") = Count(r, "delta") + Count(t, "delta")
                 /\ Count(u, "done") = Count(r, "done") + Count(t, "done")
      BY <3>2, CountConcat
    <3>4. /\ Count(<<"ttft", "delta">>, "delta") = Count(<<"ttft">>, "delta") + Count(<<"delta">>, "delta")
          /\ Count(<<"ttft", "delta">>, "done") = Count(<<"ttft">>, "done") + Count(<<"delta">>, "done")
      BY <3>1, <3>2, FramesTyped
    <3>3. /\ Count(<<"ttft">>, "delta") = 0 /\ Count(<<"ttft">>, "done") = 0
          /\ Count(<<"delta">>, "delta") = 1 /\ Count(<<"delta">>, "done") = 0
      BY CountShort
    <3> QED
      BY <2>2, <3>3, <3>4
  <2>5. OnTheWay("delta") \in Nat /\ OnTheWay("done") \in Nat
    BY WayType
  <2>6. /\ OnTheWay("delta")' = OnTheWay("delta") + Count(s, "delta")
        /\ OnTheWay("done")' = OnTheWay("done") + Count(s, "done")
    BY <1>a, <2>1, <2>2, <2>3, PutThenWay
  <2> QED
    BY <1>1, <2>1, <2>4, <2>5, <2>6
<1>2. CASE FinalTurn
  <2>1. /\ UNCHANGED <<consumer, parts>> /\ out = <<>> /\ PutThen(<<"done">>, "finish")
    BY <1>2 DEF FinalTurn
  <2>2. Count(<<"done">>, "delta") = 0 /\ Count(<<"done">>, "done") = 1
    BY CountShort
  <2>3. OnTheWay("delta") \in Nat /\ OnTheWay("done") \in Nat
    BY WayType
  <2>4. /\ OnTheWay("delta")' = OnTheWay("delta") + Count(<<"done">>, "delta")
        /\ OnTheWay("done")' = OnTheWay("done") + Count(<<"done">>, "done")
    BY <1>a, <2>1, PutThenWay, FramesTyped
  <2> QED
    BY <1>2, <2>1, <2>2, <2>3, <2>4
<1>3. CASE CancelledInPut
  <2>1. UNCHANGED <<consumer, parts>> /\ EndTask
    BY <1>3 DEF CancelledInPut
  <2> QED
    BY <1>3, <1>a, <2>1, EndTaskWay
<1>4. CASE ~Chunk /\ ~FinalTurn /\ ~CancelledInPut
  <2> SUFFICES Steady
    BY <1>4
  <2>1. CASE UserTurn \/ UserTurnRejected
    BY <2>1, FrameWay DEF UserTurn, UserTurnRejected
  <2>2. CASE PutRest
    <3>1. UNCHANGED <<consumer, parts>> /\ PutThen(out, ppc) /\ out \in Seq(Frames)
      BY <2>2 DEF PutRest, TypeOK
    <3> QED
      BY <1>a, <3>1, PutThenWay DEF Steady
  <2>3. CASE UserTurnFails \/ EventRefused \/ AfterPartialFailed \/ FinalTurnFails
    BY <2>3, EndWay DEF UserTurnFails, EventRefused, AfterPartialFailed, FinalTurnFails
  <2>4. CASE CancelledInUserTurn \/ CancelledInFinalTurn
    BY <2>4, EndWay DEF CancelledInUserTurn, CancelledInFinalTurn
  <2>5. CASE ProviderEnds \/ ProviderFails \/ CancelledInProvider
    <3>1. UNCHANGED <<queue, out, consumer, parts>>
      BY <2>5 DEF ProviderEnds, ProviderFails, CancelledInProvider
    <3> QED
      BY <3>1 DEF Steady, OnTheWay, consumer
  <2>6. CASE AfterPublish
    <3>1. /\ UNCHANGED <<consumer, parts>> /\ out = <<>>
          /\ UNCHANGED <<out, queue>> \/ EndTask \/ PersistPartial
      BY <2>6 DEF AfterPublish
    <3>2. CASE UNCHANGED <<out, queue>>
      BY <3>1, <3>2 DEF Steady, OnTheWay, consumer
    <3> QED
      BY <3>1, <3>2, EndWay, PersistWay
  <2>7. CASE CancelledInPublish
    BY <2>7, PersistWay DEF CancelledInPublish
  <2>8. CASE AfterPartial \/ CancelledInPartial
    BY <2>8, LeaveWay DEF AfterPartial, CancelledInPartial
  <2> QED
    BY <1>4, <2>1, <2>2, <2>3, <2>4, <2>5, <2>6, <2>7, <2>8 DEF ProducerStep, Cancellation
<1> QED
  BY <1>1, <1>2, <1>3, <1>4

\* The producer decides by how the call ended.
LEMMA ProducerDeciding == ASSUME TypeOK, Turn, Deciding, ProducerStep PROVE Deciding'
<1> USE DEF call, At, Delivered
<1>1. CASE UserTurn
  BY <1>1, PutThenTyped, FramesTyped DEF UserTurn, Waits, Deciding
<1>2. CASE UserTurnRejected
  BY <1>2, PutThenTyped, FramesTyped DEF UserTurnRejected, Waits, Deciding
<1>3. CASE PutRest
  BY <1>3, PutThenTyped DEF PutRest, Waits, Deciding, TypeOK
<1>4. CASE Chunk
  BY <1>4, PutThenTyped, FramesTyped DEF Chunk, Waits, Deciding
<1>5. CASE FinalTurn
  BY <1>5, PutThenTyped, FramesTyped DEF FinalTurn, Waits, Deciding
<1>6. CASE UserTurnFails \/ EventRefused \/ AfterPartialFailed \/ FinalTurnFails
  BY <1>6, EndTaskTyped
     DEF UserTurnFails, EventRefused, AfterPartialFailed, FinalTurnFails, Deciding
<1>7. CASE CancelledInUserTurn \/ CancelledInFinalTurn \/ CancelledInPut
  BY <1>7, EndTaskTyped DEF CancelledInUserTurn, CancelledInFinalTurn, CancelledInPut, Deciding
<1>8. CASE ProviderEnds \/ ProviderFails \/ CancelledInProvider
  BY <1>8 DEF ProviderEnds, ProviderFails, CancelledInProvider, PublishEvent, Deciding
<1>9. CASE AfterPublish
  BY <1>9, EndTaskTyped, PersistTyped DEF AfterPublish, Deciding
<1>10. CASE CancelledInPublish
  BY <1>10, PersistTyped DEF CancelledInPublish, Deciding
<1>11. CASE AfterPartial \/ CancelledInPartial
  BY <1>11, LeaveTyped DEF AfterPartial, CancelledInPartial, Deciding
<1> QED
  BY <1>1, <1>2, <1>3, <1>4, <1>5, <1>6, <1>7, <1>8, <1>9, <1>10, <1>11
     DEF ProducerStep, Cancellation

\* A producer that has ended takes no step.
LEMMA EndedIsOver == ASSUME out = <<>>, ProducerEnded PROVE ~ProducerStep
BY DEF ProducerEnded, ProducerStep, Cancellation, UserTurn, UserTurnRejected, UserTurnFails,
       PutRest, Chunk, ProviderEnds, ProviderFails, EventRefused, AfterPublish, AfterPartial,
       AfterPartialFailed, FinalTurn, FinalTurnFails, CancelledInUserTurn,
       CancelledInFinalTurn, CancelledInPut, CancelledInProvider, CancelledInPublish,
       CancelledInPartial, At

\* Where the producer is and what it stores, by its step.
LEMMA ProducerStores ==
  ASSUME TypeOK, Replying, ProducerStep
  PROVE  /\ UNCHANGED conv
         /\ \/ UNCHANGED replies
            \/ /\ FinalTurn \/ CancelledInFinalTurn
               /\ replies = <<>> /\ replies' = Append(replies, parts) /\ parts' = parts
         /\ Chunk => ppc = "provider" /\ replies = <<>>
         /\ FinalTurn => /\ ppc = "final" /\ ppc' \in {"finish", "ended", "mute"}
                         /\ replies' = Append(replies, parts) /\ saving' = "none"
                         /\ UNCHANGED status
         /\ ppc \in {"finish", "ended", "mute"} =>
              /\ ppc' \in {"finish", "ended", "mute"}
              /\ UNCHANGED <<saving, status, replies, parts>>
<1> USE DEF world, stored, call, tasks, At, Delivered
<1>1. UNCHANGED conv
  BY DEF ProducerStep, Cancellation, UserTurn, UserTurnRejected, UserTurnFails, PutRest, Chunk,
     ProviderEnds, ProviderFails, EventRefused, AfterPublish, AfterPartial, AfterPartialFailed,
     FinalTurn, FinalTurnFails, CancelledInUserTurn, CancelledInFinalTurn, CancelledInPut,
     CancelledInProvider, CancelledInPublish, CancelledInPartial
<1>2. CASE FinalTurn
  <2>1. ppc' \in {"finish", "ended", "mute"}
    BY <1>2, PutThenTyped, FramesTyped DEF FinalTurn, Waits
  <2> QED
    BY <1>1, <1>2, <2>1 DEF FinalTurn, Replying, Chunk
<1>3. CASE CancelledInFinalTurn
  BY <1>1, <1>3 DEF CancelledInFinalTurn, Replying, Chunk, FinalTurn
<1>4. CASE PutRest
  <2>1. ppc = "finish" => ppc' \in {"finish", "ended", "mute"}
    BY <1>4, PutThenTyped DEF PutRest, Waits, TypeOK
  <2>2. ppc \in {"ended", "mute"} => ppc' = ppc
    BY <1>4 DEF PutRest, PutThen
  <2> QED
    BY <1>1, <1>4, <2>1, <2>2 DEF PutRest, Chunk, FinalTurn
<1>5. CASE CancelledInPut
  BY <1>1, <1>5, EndTaskTyped DEF CancelledInPut, Chunk, FinalTurn
<1>6. CASE Chunk
  BY <1>1, <1>6 DEF Chunk, FinalTurn, Replying
<1>7. CASE ~FinalTurn /\ ~CancelledInFinalTurn /\ ~PutRest /\ ~CancelledInPut /\ ~Chunk
  <2>1. UNCHANGED replies /\ ppc \notin {"finish", "ended", "mute"}
    BY <1>7 DEF ProducerStep, Cancellation, UserTurn, UserTurnRejected, UserTurnFails,
       ProviderEnds, ProviderFails, EventRefused, AfterPublish, AfterPartial,
       AfterPartialFailed, FinalTurnFails, CancelledInUserTurn, CancelledInProvider,
       CancelledInPublish, CancelledInPartial
  <2> QED
    BY <1>1, <1>7, <2>1
<1> QED
  BY <1>2, <1>3, <1>4, <1>5, <1>6, <1>7

Truth == Protocol /\ Deciding /\ Covering /\ Staying

\* A first reply holds the text there is.
LEMMA FirstReply ==
  ASSUME TypeOK, replies = <<>>
  PROVE  /\ Append(replies, parts) # <<>>
         /\ \A i \in 1 .. Len(Append(replies, parts)) : Append(replies, parts)[i] = parts
<1>1. parts \in 0 .. MaxChunks /\ replies \in Seq(0 .. MaxChunks) /\ Len(replies) = 0
  BY DEF TypeOK
<1>2. Len(Append(replies, parts)) = 1 /\ Append(replies, parts)[1] = parts
  BY <1>1, AppendProperties
<1> QED
  BY <1>2

\* The producer stores what it put, and reports what it stored.
LEMMA ProducerCovering == ASSUME Truth, ProducerStep PROVE Covering'
<1> USE DEF Truth, Protocol, Turn
<1>1. /\ OnTheWay("delta") \in Nat /\ OnTheWay("done") \in Nat /\ parts \in Nat
      /\ OnTheWay("delta")' \in Nat /\ OnTheWay("done")' \in Nat
  <2>1. OnTheWay("delta") \in Nat /\ OnTheWay("done") \in Nat /\ parts \in Nat
    BY WayType DEF TypeOK
  <2> QED
    BY <2>1, ProducerWay DEF Steady
<1>2. /\ UNCHANGED received
      /\ OnTheWay("delta")' <= parts'
      /\ OnTheWay("done")' <= OnTheWay("done") \/ FinalTurn
      /\ parts' = parts \/ Chunk
  BY <1>1, ProducerWay DEF Covering, Steady, consumer
<1>3. \A i \in 1 .. Len(replies') : replies'[i] = parts'
  <2>1. CASE UNCHANGED replies /\ parts' = parts
    BY <2>1 DEF Covering
  <2>2. CASE replies = <<>> /\ replies' = Append(replies, parts) /\ parts' = parts
    BY <2>2, FirstReply
  <2>3. CASE UNCHANGED replies /\ Chunk
    <3>1. Len(replies') = 0
      BY <2>3, ProducerStores
    <3> QED
      BY <3>1
  <2> QED
    BY <1>2, <2>1, <2>2, <2>3, ProducerStores
<1>4. OnTheWay("done")' > 0 =>
        /\ ppc' \in {"finish", "ended", "mute"} /\ saving' = "none" /\ status' = "success"
        /\ conv' => replies' # <<>>
  <2>1. CASE FinalTurn
    <3>1. /\ ppc' \in {"finish", "ended", "mute"} /\ saving' = "none" /\ status' = "success"
          /\ replies = <<>> \/ replies' # <<>>
      BY <2>1, ProducerStores DEF Deciding
    <3>2. replies = <<>> /\ replies' = Append(replies, parts)
      BY <2>1 DEF FinalTurn, At, Replying
    <3> QED
      BY <3>1, <3>2, FirstReply
  <2>2. CASE ~FinalTurn
    <3>1. OnTheWay("done")' > 0 => OnTheWay("done") > 0
      BY <1>1, <1>2, <2>2
    <3> QED
      BY <3>1, ProducerStores DEF Covering
  <2> QED
    BY <2>1, <2>2
<1>5. Got("done")' => Deltas' = parts'
  <2>1. Got("done")' = Got("done") /\ Deltas' = Deltas
    BY <1>2 DEF Got, Deltas
  <2>2. Got("done") => OnTheWay("done") > 0
    BY <1>1, WayType
  <2>3. Got("done") => ppc \in {"finish", "ended", "mute"}
    BY <2>2 DEF Covering
  <2> QED
    BY <1>2, <2>1, <2>3, ProducerStores DEF Covering
<1> QED
  BY <1>2, <1>3, <1>4, <1>5 DEF Covering

\* Nobody cancels the producer of a client that stays.
LEMMA ProducerStaying == ASSUME Truth, ProducerStep PROVE Staying'
<1> USE DEF Truth, Protocol, Turn
<1>1. UNCHANGED <<client, cpc>>
  BY ProducerWay DEF ProducerStep, Cancellation, UserTurn, UserTurnRejected, UserTurnFails,
     PutRest, Chunk, ProviderEnds, ProviderFails, EventRefused, AfterPublish, AfterPartial,
     AfterPartialFailed, FinalTurn, FinalTurnFails, CancelledInUserTurn, CancelledInFinalTurn,
     CancelledInPut, CancelledInProvider, CancelledInPublish, CancelledInPartial, world,
     consumer
<1> SUFFICES ASSUME client = "connected" PROVE Staying'
  BY <1>1 DEF Staying
<1>2. /\ ~cancel /\ ~abandoned /\ cpc # "unwind"
      /\ status # "cancelled" /\ why # "CancelledError"
      /\ saving # "none" \/ ppc = "partial" => status # "success"
      /\ OnTheWay("delta") = parts
      /\ status = "success" /\ replies # <<>> => OnTheWay("done") > 0
      /\ cpc \notin {"close", "ended"}
  BY EndedIsOver DEF Staying
<1>3. ~Cancellation
  BY <1>2 DEF Cancellation, CancelledInUserTurn, CancelledInFinalTurn,
     CancelledInPut, CancelledInProvider, CancelledInPublish, CancelledInPartial, Delivered
<1>4. ~cancel' /\ ~abandoned' /\ status' # "cancelled" /\ why' # "CancelledError"
  BY <1>2, <1>3 DEF ProducerStep, UserTurn, UserTurnRejected, UserTurnFails,
     PutRest, Chunk, ProviderEnds, ProviderFails, EventRefused, AfterPublish, AfterPartial,
     AfterPartialFailed, FinalTurn, FinalTurnFails, PublishEvent, call
<1>5. OnTheWay("delta")' = parts'
  BY <1>2, <1>3, ProducerWay DEF Steady, Cancellation
<1>6. /\ saving' # "none" \/ ppc' = "partial" => status' # "success"
      /\ status' = "success" => status = "success" \/ replies' = <<>>
  <2> USE <1>2 DEF call, tasks, stored, At
  <2>1. CASE UserTurn \/ UserTurnRejected \/ PutRest \/ Chunk
    <3>1. UNCHANGED <<saving, status>> /\ (ppc' = "partial" => ppc = "partial")
      BY <2>1, PutThenTyped, FramesTyped
         DEF UserTurn, UserTurnRejected, PutRest, Chunk, Waits, TypeOK
    <3> QED
      BY <3>1
  <2>2. CASE UserTurnFails \/ AfterPartialFailed \/ FinalTurnFails
    BY <2>2, EndTaskTyped DEF UserTurnFails, AfterPartialFailed, FinalTurnFails
  <2>3. CASE EventRefused
    BY <2>3 DEF EventRefused
  <2>4. CASE ProviderEnds \/ ProviderFails
    BY <2>4 DEF ProviderEnds, ProviderFails, PublishEvent, Replying
  <2>5. CASE AfterPublish
    <3>1. CASE why = "none"
      BY <2>5, <3>1 DEF AfterPublish
    <3>2. CASE why # "none"
      BY <2>5, <3>2 DEF AfterPublish, Deciding
    <3> QED
      BY <3>1, <3>2
  <2>6. CASE AfterPartial
    BY <2>6, LeaveTyped DEF AfterPartial
  <2>7. CASE FinalTurn
    BY <2>7, ProducerStores DEF FinalTurn
  <2> QED
    BY <1>3, <2>1, <2>2, <2>3, <2>4, <2>5, <2>6, <2>7 DEF ProducerStep
<1>7. status' = "success" /\ replies' # <<>> => OnTheWay("done")' > 0
  <2>1. OnTheWay("done") \in Nat
    BY WayType
  <2>2. CASE FinalTurn
    <3>1. OnTheWay("done")' = OnTheWay("done") + 1
      BY <2>2, <1>3, ProducerWay DEF Cancellation, Chunk, FinalTurn, At
    <3> QED
      BY <2>1, <3>1
  <2>3. CASE ~FinalTurn
    <3>1. OnTheWay("done")' = OnTheWay("done")
      BY <2>3, <1>3, ProducerWay DEF Steady, Cancellation
    <3>2. UNCHANGED replies
      BY <2>3, <1>3, ProducerStores DEF Cancellation
    <3> QED
      BY <1>2, <1>6, <3>1, <3>2
  <2> QED
    BY <2>2, <2>3
<1> QED
  BY <1>1, <1>2, <1>4, <1>5, <1>6, <1>7 DEF Staying

\* What the consumer takes off the queue is on its way still.
LEMMA GetWay ==
  ASSUME TypeOK, Get, NEW f \in Frames
  PROVE  OnTheWay(f)' = OnTheWay(f)
<1>0. /\ cpc = "get" /\ queue # <<>> /\ queue \in Seq(Slots) /\ queue' = Tail(queue)
      /\ UNCHANGED <<out, received>>
  BY DEF Get, TypeOK, Slots
<1>1. Count(queue, f) = Count(queue', f) + (IF Head(queue) = f THEN 1 ELSE 0)
  BY <1>0, CountEnds
<1>2. Tail(queue) \in Seq(Slots)
  BY <1>0, HeadTailProperties
<1>3. /\ Count(received, f) \in Nat /\ Count(queue', f) \in Nat /\ Count(out, f) \in Nat
  BY <1>0, <1>2, WayType, CountType
<1>4. f # Eos
  BY DEF Frames, Eos
<1>5. CASE Head(queue) = Eos
  <2>1. cpc' = "close"
    BY <1>5 DEF Get
  <2> QED
    BY <1>0, <1>1, <1>3, <1>4, <1>5, <2>1 DEF OnTheWay
<1>6. CASE Head(queue) # Eos
  <2>1. cpc' = "send" /\ frame' = Head(queue)
    BY <1>6 DEF Get
  <2> QED
    BY <1>0, <1>1, <1>3, <2>1 DEF OnTheWay
<1> QED
  BY <1>5, <1>6

\* The consumer takes a frame off the queue, or finds the end of it.
LEMMA GetTruth == ASSUME Truth, Get PROVE Deciding' /\ Covering' /\ Staying'
<1> USE DEF Truth, Protocol, Turn, world, stored, call, tasks
<1>1. /\ cpc = "get" /\ queue # <<>> /\ queue \in Seq(Slots) /\ queue' = Tail(queue)
      /\ UNCHANGED <<client, conv, replies, ppc, out, cancel, why, parts, status, saving,
                     abandoned, received>>
  BY DEF Get, TypeOK, Slots
<1>2. ASSUME NEW f \in Frames
      PROVE  OnTheWay(f)' = OnTheWay(f)
  BY GetWay
<1>3. OnTheWay("delta")' = OnTheWay("delta") /\ OnTheWay("done")' = OnTheWay("done")
  BY <1>2 DEF Frames
<1>4. Deciding'
  BY <1>1 DEF Deciding
<1>5. Covering'
  BY <1>1, <1>3 DEF Covering, Got, Deltas
<1>6. Staying'
  <2> SUFFICES ASSUME client = "connected" PROVE Staying'
    BY <1>1 DEF Staying
  <2>1. CASE Head(queue) # Eos
    <3>1. cpc' = "send"
      BY <2>1 DEF Get
    <3> QED
      BY <1>1, <1>3, <3>1 DEF Staying
  <2>2. CASE Head(queue) = Eos
    <3>1. Path(Current, queue) /\ Path(End(Current, queue), out) /\ (~ProducerEnded => Ahead # Eos)
      BY <1>1 DEF Ordered
    <3>2. Path(Eos, Tail(queue)) /\ End(Eos, Tail(queue)) = End(Current, queue)
      BY <1>1, <2>2, <3>1, PathTail
    <3>3. Tail(queue) = <<>>
      <4>1. Tail(queue) \in Seq(Slots)
        BY <1>1, HeadTailProperties
      <4>2. CASE Tail(queue) # <<>>
        <5>1. Head(Tail(queue)) \in Leads(Eos)
          BY <3>2, <4>1, <4>2, PathTail
        <5> QED
          BY <5>1, LeadsOn
      <4> QED
        BY <4>2
    <3>4. End(Current, queue) = Eos
      BY <3>2, <3>3, ShortPaths
    <3>5. out = <<>>
      <4>1. out \in Seq(Frames)
        BY DEF TypeOK
      <4>2. CASE out # <<>>
        <5>1. Head(out) \in Leads(Eos)
          BY <3>1, <3>4, <4>1, <4>2, PathTail
        <5> QED
          BY <5>1, LeadsOn
      <4> QED
        BY <4>2
    <3>6. ProducerEnded
      BY <3>1, <3>4, <3>5, ShortPaths DEF Ahead
    <3> QED
      BY <1>1, <1>3, <2>2, <3>3, <3>5, <3>6 DEF Staying, Get, ProducerEnded
  <2> QED
    BY <2>1, <2>2
<1> QED
  BY <1>4, <1>5, <1>6

\* Behind "done" nothing but the sentinel is on its way.
LEMMA DoneIsLast ==
  ASSUME Truth, client = "connected", cpc = "send", frame = "done"
  PROVE  Count(queue, "delta") = 0 /\ Count(out, "delta") = 0
<1> USE DEF Truth, Protocol, Turn
<1>1. Path("done", queue) /\ Path(End("done", queue), out) /\ queue \in Seq(Slots) /\ out \in Seq(Frames)
  BY DEF Ordered, Current, TypeOK, Slots
<1>2. Leads("done") = {Eos} /\ Leads(Eos) = {}
  BY DEF Leads, P!Successors, Eos
<1>3. queue = <<>> \/ queue = <<Eos>>
  <2>1. CASE queue # <<>>
    <3>1. Head(queue) = Eos /\ Path(Eos, Tail(queue)) /\ Tail(queue) \in Seq(Slots)
      BY <1>1, <1>2, <2>1, PathTail, HeadTailProperties
    <3>2. Tail(queue) = <<>>
      <4>1. CASE Tail(queue) # <<>>
        BY <1>2, <3>1, <4>1, PathTail
      <4> QED
        BY <4>1
    <3>3. queue = <<Head(queue)>> \o Tail(queue) /\ <<Head(queue)>> \in Seq(Slots)
      BY <1>1, <2>1, HeadTailProperties
    <3>4. <<Head(queue)>> \o <<>> = <<Head(queue)>>
      BY <3>3, ConcatEmptySeq
    <3> QED
      BY <3>1, <3>2, <3>3, <3>4
  <2> QED
    BY <2>1
<1>4. out = <<>>
  <2>1. End("done", queue) \in {"done", Eos}
    BY <1>3, ShortPaths
  <2>2. CASE out # <<>>
    <3>1. Head(out) \in Leads(End("done", queue)) /\ Head(out) \in Frames
      BY <1>1, <2>2, PathTail, HeadTailProperties
    <3>2. Head(out) # Eos
      BY <3>1 DEF Frames, Eos
    <3> QED
      BY <1>2, <2>1, <3>1, <3>2
  <2> QED
    BY <2>2
<1>5. Eos # "delta"
  BY DEF Eos
<1> QED
  BY <1>3, <1>4, <1>5, CountShort

\* What is sent reaches a client that is there, and is lost on one that is gone.
LEMMA SendWay ==
  ASSUME TypeOK, Sending, Send, NEW f \in Frames
  PROVE  /\ Count(received, f) \in Nat /\ OnTheWay(f) \in Nat /\ OnTheWay(f)' \in Nat
         /\ OnTheWay(f)' <= OnTheWay(f)
         /\ Count(received, f)' <= OnTheWay(f)'
         /\ client = "connected" =>
              /\ OnTheWay(f)' = OnTheWay(f)
              /\ Count(received, f)' = Count(received, f) + (IF frame = f THEN 1 ELSE 0)
         /\ Count(received, f) <= Count(received, f)'
         /\ Got(f)' <=> Count(received, f)' > 0
<1>0. /\ cpc = "send" /\ cpc' = "get" /\ frame \in Frames /\ received \in Seq(Frames)
      /\ UNCHANGED <<client, out, queue>>
      /\ received' = IF client = "connected" THEN Append(received, frame) ELSE received
  BY DEF Send, Sending, TypeOK, world
<1>1. Count(Append(received, frame), f) = Count(received, f) + (IF frame = f THEN 1 ELSE 0)
  BY <1>0, CountEnds
<1>2. /\ Count(received, f) \in Nat /\ Count(queue, f) \in Nat /\ Count(out, f) \in Nat
      /\ OnTheWay(f) \in Nat
  BY WayType
<1>3. Append(received, frame) \in Seq(Frames)
  BY <1>0, AppendProperties
<1>4. Got(f)' <=> Count(received', f) > 0
  BY <1>0, <1>3, CountType DEF Got
<1> QED
  BY <1>0, <1>1, <1>2, <1>4 DEF OnTheWay

\* The consumer sends a frame, to a client that is there or not.
LEMMA SendTruth == ASSUME Truth, Send PROVE Deciding' /\ Covering' /\ Staying'
<1> USE DEF Truth, Protocol, Turn, world, stored, call, tasks
<1>1. /\ cpc = "send" /\ cpc' = "get" /\ frame \in Frames /\ received \in Seq(Frames)
      /\ UNCHANGED <<client, conv, replies, ppc, out, cancel, why, parts, status, saving,
                     abandoned, queue>>
      /\ received' = IF client = "connected" THEN Append(received, frame) ELSE received
  BY DEF Send, Sending, TypeOK
<1>2. ASSUME NEW f \in Frames
      PROVE  /\ Count(received, f) \in Nat /\ OnTheWay(f) \in Nat /\ OnTheWay(f)' \in Nat
             /\ OnTheWay(f)' <= OnTheWay(f)
             /\ Count(received, f)' <= OnTheWay(f)'
             /\ client = "connected" =>
                  /\ OnTheWay(f)' = OnTheWay(f)
                  /\ Count(received, f)' = Count(received, f) + (IF frame = f THEN 1 ELSE 0)
             /\ Count(received, f) <= Count(received, f)'
             /\ Got(f)' <=> Count(received, f)' > 0
  BY SendWay
<1>3. "delta" \in Frames /\ "done" \in Frames
  BY DEF Frames
<1>4. Deltas = Count(received, "delta") /\ Deltas' = Count(received, "delta")'
  BY DEF Deltas, Count
<1>5. Deciding'
  BY <1>1 DEF Deciding
<1>6. Got("done")' => Deltas' = parts'
  <2>1. CASE Got("done")
    <3>1. Count(received, "delta") = parts /\ Count(received, "delta")' <= OnTheWay("delta")'
      BY <1>2, <1>3, <1>4, <2>1 DEF Covering
    <3>2. OnTheWay("delta")' <= parts /\ Count(received, "delta") <= Count(received, "delta")'
      BY <1>2, <1>3 DEF Covering, TypeOK
    <3>3. Count(received, "delta") \in Nat /\ OnTheWay("delta")' \in Nat
      BY <1>2, <1>3
    <3>4. Count(received, "delta")' \in Nat
      <4>1. Count(received, "delta")' = Count(received, "delta") \/ client = "connected"
        BY <1>1
      <4> QED
        BY <1>2, <1>3, <4>1
    <3> QED
      BY <1>1, <1>4, <3>1, <3>2, <3>3, <3>4
  <2>2. CASE Got("done")' /\ ~Got("done")
    <3>1. client = "connected" /\ frame = "done"
      <4>1. client = "connected"
        BY <1>1, <2>2 DEF Got
      <4>2. Count(received, "done") = 0 /\ Count(received, "done")' > 0
        BY <1>2, <1>3, <2>2, WayType
      <4> QED
        BY <1>2, <1>3, <4>1, <4>2
    <3>2. Count(queue, "delta") = 0 /\ Count(out, "delta") = 0
      BY <1>1, <3>1, DoneIsLast
    <3>3. OnTheWay("delta") = Count(received, "delta") /\ OnTheWay("delta") = parts
      BY <1>2, <1>3, <3>1, <3>2 DEF OnTheWay, Staying
    <3>4. Count(received, "delta")' = Count(received, "delta")
      BY <1>2, <1>3, <3>1
    <3> QED
      BY <1>1, <1>4, <3>3, <3>4
  <2> QED
    BY <2>1, <2>2
<1>7. Covering'
  <2>1. OnTheWay("delta")' <= parts'
    BY <1>1, <1>2, <1>3 DEF Covering, TypeOK
  <2>2. OnTheWay("done")' > 0 => OnTheWay("done") > 0
    BY <1>2, <1>3
  <2> QED
    BY <1>1, <1>6, <2>1, <2>2 DEF Covering
<1>8. Staying'
  BY <1>1, <1>2, <1>3 DEF Staying
<1> QED
  BY <1>5, <1>7, <1>8

\* The other tasks put nothing, and stop no turn of a client that stays.
LEMMA OtherTruth ==
  ASSUME Truth,
         \/ PublishEnds \/ SaveEnds \/ CloseAbandoned \/ ConsumerStep \/ CancelAgain \/ Watch
         \/ Disconnect \/ DeleteConversation
  PROVE  Deciding' /\ Covering' /\ Staying'
<1> USE DEF Truth, Protocol, Turn, world, stored, call, tasks, consumer
<1>1. CASE Get
  BY <1>1, GetTruth
<1>2. CASE Send
  BY <1>2, SendTruth
<1>3. CASE EndResponse
  <2>1. /\ client = "gone" /\ cpc \in {"get", "send"} /\ cpc' \in {"unwind", "close"}
        /\ UNCHANGED <<client, conv, replies, ppc, out, why, parts, status, saving,
                       abandoned, queue, frame, received>>
    BY <1>3 DEF EndResponse, Leave
  <2>2. ASSUME NEW f \in Frames
        PROVE  /\ OnTheWay(f)' <= OnTheWay(f) /\ OnTheWay(f)' \in Nat /\ OnTheWay(f) \in Nat
    BY <2>1, WayType DEF OnTheWay
  <2>3. /\ OnTheWay("delta")' <= OnTheWay("delta") /\ OnTheWay("delta")' \in Nat
        /\ OnTheWay("done")' <= OnTheWay("done") /\ OnTheWay("done")' \in Nat
        /\ OnTheWay("delta") \in Nat /\ OnTheWay("done") \in Nat
    BY <2>2 DEF Frames
  <2>4. OnTheWay("delta")' <= parts' /\ (OnTheWay("done")' > 0 => OnTheWay("done") > 0)
    BY <2>1, <2>3 DEF Covering, TypeOK
  <2>5. Got("done")' = Got("done") /\ Deltas' = Deltas
    BY <2>1 DEF Got, Deltas
  <2> QED
    BY <2>1, <2>4, <2>5 DEF Deciding, Covering, Staying
<1>4. CASE ~Get /\ ~Send /\ ~EndResponse
  <2>1. /\ UNCHANGED <<received, frame, queue, out, parts, ppc, why>>
        /\ cpc' = cpc \/ TearDown
    BY <1>4 DEF PublishEnds, SaveEnds, CloseAbandoned, ConsumerStep, TearDown, CancelAgain,
       Watch, Disconnect, DeleteConversation
  <2>2. cpc' = "send" <=> cpc = "send"
    BY <2>1 DEF TearDown
  <2>3. /\ OnTheWay("delta")' = OnTheWay("delta") /\ OnTheWay("done")' = OnTheWay("done")
        /\ Got("done")' = Got("done") /\ Deltas' = Deltas
    BY <2>1, <2>2 DEF OnTheWay, Got, Deltas
  <2>4. CASE PublishEnds
    BY <2>1, <2>3, <2>4 DEF PublishEnds, Deciding, Covering, Staying, ProducerEnded
  <2>5. CASE SaveEnds
    <3>1. /\ UNCHANGED <<client, conv, status, cancel, abandoned, cpc>>
          /\ saving = "running" /\ saving' # "none"
          /\ replies' = Append(replies, parts) \/ UNCHANGED replies
      BY <2>5 DEF SaveEnds
    <3>2. ~(OnTheWay("done") > 0) /\ replies = <<>>
      BY <3>1 DEF Covering, Replying
    <3>3. \A i \in 1 .. Len(replies') : replies'[i] = parts
      BY <3>1, <3>2, FirstReply
    <3>4. client = "connected" => status # "success"
      BY <3>1 DEF Staying
    <3> QED
      BY <2>1, <2>3, <3>1, <3>2, <3>3, <3>4 DEF Deciding, Covering, Staying, ProducerEnded
  <2>6. CASE CloseAbandoned
    <3>1. /\ UNCHANGED <<client, conv, replies, saving, cancel, cpc>>
          /\ abandoned
      BY <2>6 DEF CloseAbandoned
    <3>2. client # "connected" /\ ProducerEnded /\ status = "none"
      BY <3>1 DEF Staying, Calling
    <3>3. ~(OnTheWay("done") > 0)
      BY <3>2 DEF Covering
    <3> QED
      BY <2>1, <2>3, <3>1, <3>2, <3>3 DEF Deciding, Covering, Staying, ProducerEnded
  <2>7. CASE TearDown
    <3>1. /\ UNCHANGED <<client, conv, replies, saving, cancel, abandoned, status>>
          /\ cpc \in {"unwind", "close"} /\ cpc' = "ended" /\ ProducerEnded
      BY <2>7 DEF TearDown
    <3> QED
      BY <2>1, <2>3, <3>1 DEF Deciding, Covering, Staying, ProducerEnded
  <2>8. CASE CancelAgain
    BY <2>1, <2>3, <2>8 DEF CancelAgain, Deciding, Covering, Staying, ProducerEnded
  <2>9. CASE Watch
    <3>1. client = "connected" => cancel' = cancel
      BY <2>9 DEF Watch, TypeOK
    <3> QED
      BY <2>1, <2>3, <2>9, <3>1 DEF Watch, Deciding, Covering, Staying, ProducerEnded
  <2>10. CASE Disconnect
    BY <2>1, <2>3, <2>10 DEF Disconnect, Deciding, Covering, Staying, ProducerEnded
  <2>11. CASE DeleteConversation
    <3>1. replies' = <<>> /\ Len(replies') = 0 /\ conv' = FALSE
      BY <2>11 DEF DeleteConversation
    <3>2. UNCHANGED <<client, saving, cancel, abandoned, status, cpc>>
      BY <2>11 DEF DeleteConversation
    <3> QED
      BY <2>1, <2>3, <3>1, <3>2 DEF Deciding, Covering, Staying, ProducerEnded
  <2> QED
    BY <1>4, <2>4, <2>5, <2>6, <2>7, <2>8, <2>9, <2>10, <2>11 DEF ConsumerStep
<1> QED
  BY <1>1, <1>2, <1>3, <1>4

\* Before the turn nothing is stored and nothing is told.
LEMMA InitTruth == Init => Truth
<1> SUFFICES ASSUME Init PROVE Truth
  OBVIOUS
<1>1. OnTheWay("delta") = 0 /\ OnTheWay("done") = 0
  BY CountShort DEF Init, OnTheWay
<1>2. Deciding /\ ~Got("done")
  BY DEF Init, Deciding, Got
<1>3. Covering
  BY <1>1, <1>2 DEF Init, Covering
<1>4. Staying
  BY <1>1 DEF Init, Staying
<1> QED
  BY <1>2, <1>3, <1>4, InitProtocol DEF Truth

\* Every step keeps the invariant of what is told and stored.
LEMMA NextTruth == Truth /\ [Next]_vars => Truth'
<1> SUFFICES ASSUME Truth, [Next]_vars PROVE Truth'
  OBVIOUS
<1>1. Protocol'
  BY NextProtocol DEF Truth
<1>2. CASE ProducerStep
  BY <1>1, <1>2, ProducerDeciding, ProducerCovering, ProducerStaying DEF Truth, Protocol, Turn
<1>3. CASE \/ PublishEnds \/ SaveEnds \/ CloseAbandoned \/ ConsumerStep \/ CancelAgain
           \/ Watch \/ Disconnect \/ DeleteConversation
  BY <1>1, <1>3, OtherTruth DEF Truth
<1>4. CASE UNCHANGED vars
  <2>1. UNCHANGED <<client, conv, replies, ppc, out, cancel, why, parts, status, saving,
                    abandoned, queue, cpc, frame, received>>
    BY <1>4 DEF vars, world, stored, call, tasks, consumer
  <2>2. /\ OnTheWay("delta")' = OnTheWay("delta") /\ OnTheWay("done")' = OnTheWay("done")
        /\ Got("done")' = Got("done") /\ Deltas' = Deltas
    BY <2>1 DEF OnTheWay, Got, Deltas
  <2>3. Deciding' /\ Covering' /\ Staying'
    BY <2>1, <2>2 DEF Truth, Deciding, Covering, Staying, ProducerEnded
  <2> QED
    BY <1>1, <2>3 DEF Truth
<1> QED
  BY <1>2, <1>3, <1>4 DEF Next, Stop

\* The invariant of what is told and stored always holds.
LEMMA TruthInvariance == Spec => []Truth
BY InitTruth, NextTruth, PTL DEF Spec

----------------------------------------------------------------------------
(* What a failed call leaves behind *)

\* A call that failed or was cancelled has its text in a partial save that was
\* at least begun, and that succeeds only by storing it.
Keeping ==
  /\ ppc = "final" => why = "none"
  /\ why \in {"ProviderError", "CancelledError"} /\ parts > 0 /\ ppc # "publish" =>
       saving # "none"
  /\ saving = "done" /\ conv => replies # <<>>

\* The end of a call the provider failed is announced to a client that stays.
Reporting ==
  /\ client = "connected" /\ why = "ProviderError" /\ saving # "failed"
  /\ ppc \in {"finish", "ended", "mute"}
  => OnTheWay("failed") > 0

\* With text there is a partial save, and without it the failure is put.
LEMMA PersistLeaves ==
  ASSUME Truth, UNCHANGED <<consumer, parts>>, out = <<>>, PersistPartial,
         why' \in {why, "CancelledError"}
  PROVE  /\ parts > 0 => saving' = "running" /\ ppc' = "partial"
         /\ ~(parts > 0) => saving' = saving
         /\ why' = "ProviderError" /\ ppc' \in {"finish", "ended", "mute"} =>
              OnTheWay("failed")' > 0
         /\ ppc' # "final"
<1> USE DEF Truth, Protocol, Turn
<1>1. CASE parts > 0
  BY <1>1 DEF PersistPartial
<1>2. CASE ~(parts > 0)
  <2>1. saving' = saving /\ ppc' \in {"finish", "ended", "mute"} \cup {"partial"}
    BY <1>2, PersistTyped DEF PersistPartial
  <2>2. CASE why' = "ProviderError"
    <3>1. /\ PutThen(<<"failed">>, "finish") /\ <<"failed">> \in Seq(Frames)
          /\ "failed" \in Frames /\ UNCHANGED consumer
      BY <1>2, <2>2, FramesTyped DEF PersistPartial, Frames
    <3>2. OnTheWay("failed")' = OnTheWay("failed") + Count(<<"failed">>, "failed")
      BY <3>1, PutThenWay
    <3>3. OnTheWay("failed") \in Nat /\ Count(<<"failed">>, "failed") = 1
      BY WayType, CountShort
    <3> QED
      BY <1>2, <2>1, <3>2, <3>3
  <2> QED
    BY <1>2, <2>1, <2>2
<1> QED
  BY <1>1, <1>2

\* Behind a partial save the failure of the provider is put.
LEMMA LeaveReports ==
  ASSUME Truth, UNCHANGED <<consumer, parts>>, out = <<>>, LeavePartial, UNCHANGED why
  PROVE  why' = "ProviderError" => OnTheWay("failed")' > 0
<1> USE DEF Truth, Protocol, Turn
<1> SUFFICES ASSUME why = "ProviderError" PROVE OnTheWay("failed")' > 0
  OBVIOUS
<1>1. /\ PutThen(<<"failed">>, "finish") /\ <<"failed">> \in Seq(Frames)
      /\ "failed" \in Frames /\ UNCHANGED consumer
  BY FramesTyped DEF LeavePartial, Frames
<1>2. OnTheWay("failed")' = OnTheWay("failed") + Count(<<"failed">>, "failed")
  BY <1>1, PutThenWay
<1>3. OnTheWay("failed") \in Nat /\ Count(<<"failed">>, "failed") = 1
  BY WayType, CountShort
<1> QED
  BY <1>2, <1>3

\* A step of the producer that leaves why and what was saved as they are.
LEMMA QuietKeeping ==
  ASSUME Truth, Keeping, UNCHANGED <<conv, why, saving>>,
         replies = <<>> \/ replies' # <<>>, parts' = parts \/ why = "none",
         ppc' # "publish" => ppc # "publish" \/ why = "none",
         ppc' = "final" => ppc = "final" \/ why = "none"
  PROVE  Keeping'
BY DEF Keeping

\* The producer saves the text of a failed or cancelled call.
LEMMA ProducerKeeping == ASSUME Truth, Keeping, ProducerStep PROVE Keeping'
<1> USE DEF Truth, Protocol, Turn, world, stored, call, tasks, At, Delivered
<1>1. replies = <<>> \/ replies' # <<>>
  BY ProducerStores, FirstReply
<1>2. CASE UserTurn \/ UserTurnRejected \/ Chunk
  <2>1. /\ ppc \in {"turn", "provider"} /\ UNCHANGED <<conv, why, saving>>
        /\ why = "none"
    BY <1>2 DEF UserTurn, UserTurnRejected, Chunk, Deciding
  <2> QED
    BY <1>1, <2>1, QuietKeeping
<1>3. CASE UserTurnFails \/ EventRefused \/ AfterPartialFailed \/ FinalTurnFails
  <2>1. /\ ppc # "publish" /\ UNCHANGED <<conv, why, saving, parts>>
        /\ ppc' \in {"ended", "mute"}
    BY <1>3, EndTaskTyped DEF UserTurnFails, EventRefused, AfterPartialFailed, FinalTurnFails
  <2> QED
    BY <1>1, <2>1, QuietKeeping
<1>4. CASE CancelledInUserTurn \/ CancelledInFinalTurn \/ CancelledInPut
  <2>1. /\ ppc # "publish" /\ UNCHANGED <<conv, why, saving, parts>>
        /\ ppc' \in {"ended", "mute"}
    BY <1>4, EndTaskTyped
       DEF CancelledInUserTurn, CancelledInFinalTurn, CancelledInPut, Putting
  <2> QED
    BY <1>1, <2>1, QuietKeeping
<1>5. CASE PutRest
  <2>1. /\ ppc \in {"provider", "finish"} /\ UNCHANGED <<conv, why, saving, parts>>
        /\ ppc' \in {"provider", "finish", "ended", "mute"}
    BY <1>5, PutThenTyped DEF PutRest, Putting, Waits, TypeOK
  <2> QED
    BY <1>1, <2>1, QuietKeeping
<1>6. CASE ProviderEnds \/ ProviderFails \/ CancelledInProvider
  BY <1>6 DEF ProviderEnds, ProviderFails, CancelledInProvider, PublishEvent, Keeping
<1>7. CASE AfterPublish
  <2>1. /\ ppc = "publish" /\ out = <<>> /\ UNCHANGED <<conv, why, parts, consumer>>
        /\ replies' = replies
    BY <1>7 DEF AfterPublish
  <2>2. CASE why = "none"
    <3>1. UNCHANGED saving
      BY <1>7, <2>2 DEF AfterPublish
    <3> QED
      BY <1>1, <2>1, <2>2, <3>1, QuietKeeping
  <2>3. CASE why = "Exception"
    <3>1. UNCHANGED saving /\ ppc' \in {"ended", "mute"}
      BY <1>7, <2>3, EndTaskTyped DEF AfterPublish
    <3> QED
      BY <2>1, <2>3, <3>1 DEF Keeping
  <2>4. CASE why \notin {"none", "Exception"}
    <3>1. PersistPartial
      BY <1>7, <2>4 DEF AfterPublish
    <3>2. parts > 0 => saving' = "running"
      BY <2>1, <3>1, PersistLeaves
    <3>3. /\ ~(parts > 0) => saving' = saving
          /\ ppc' # "final"
      BY <2>1, <3>1, PersistLeaves
    <3> QED
      BY <2>1, <3>2, <3>3 DEF Keeping
  <2> QED
    BY <2>2, <2>3, <2>4
<1>8. CASE CancelledInPublish
  <2>1. /\ PersistPartial /\ out = <<>> /\ UNCHANGED <<conv, parts, consumer, replies>>
        /\ why' = "CancelledError"
    BY <1>8 DEF CancelledInPublish
  <2>2. /\ parts > 0 => saving' = "running"
        /\ ~(parts > 0) => saving' = saving
        /\ ppc' # "final"
    BY <2>1, PersistLeaves
  <2> QED
    BY <2>1, <2>2 DEF Keeping
<1>9. CASE AfterPartial \/ CancelledInPartial
  <2>1. /\ ppc = "partial" /\ UNCHANGED <<conv, why, saving, parts>>
        /\ ppc' \in {"finish", "ended", "mute"}
    BY <1>9, LeaveTyped DEF AfterPartial, CancelledInPartial
  <2> QED
    BY <1>1, <2>1, QuietKeeping
<1>10. CASE FinalTurn
  <2>1. /\ ppc = "final" /\ UNCHANGED <<conv, why, saving, parts>>
        /\ ppc' \in {"finish", "ended", "mute"}
    BY <1>10, ProducerStores DEF FinalTurn
  <2> QED
    BY <1>1, <2>1, QuietKeeping
<1> QED
  BY <1>2, <1>3, <1>4, <1>5, <1>6, <1>7, <1>8, <1>9, <1>10 DEF ProducerStep, Cancellation

\* The producer announces the failure of the provider.
LEMMA ProducerReporting == ASSUME Truth, Keeping, Reporting, ProducerStep PROVE Reporting'
<1> USE DEF Truth, Protocol, Turn, world, stored, call, tasks, At
<1>1. UNCHANGED <<client, cpc>>
  BY ProducerWay DEF ProducerStep, Cancellation, UserTurn, UserTurnRejected, UserTurnFails,
     PutRest, Chunk, ProviderEnds, ProviderFails, EventRefused, AfterPublish, AfterPartial,
     AfterPartialFailed, FinalTurn, FinalTurnFails, CancelledInUserTurn, CancelledInFinalTurn,
     CancelledInPut, CancelledInProvider, CancelledInPublish, CancelledInPartial, consumer
<1> SUFFICES ASSUME client = "connected" PROVE Reporting'
  BY <1>1 DEF Reporting
<1>2. ~Cancellation
  BY DEF Staying, Cancellation, CancelledInUserTurn, CancelledInFinalTurn,
     CancelledInPut, CancelledInProvider, CancelledInPublish, CancelledInPartial, Delivered
<1>3. CASE UserTurn \/ UserTurnRejected \/ UserTurnFails \/ Chunk \/ EventRefused
  BY <1>3 DEF UserTurn, UserTurnRejected, UserTurnFails, Chunk, EventRefused, Deciding, Reporting
<1>4. CASE FinalTurn \/ FinalTurnFails
  BY <1>4 DEF FinalTurn, FinalTurnFails, Keeping, Reporting
<1>5. CASE ProviderEnds \/ ProviderFails
  BY <1>5 DEF ProviderEnds, ProviderFails, PublishEvent, Reporting
<1>6. CASE PutRest
  <2>1. /\ PutThen(out, ppc) /\ out \in Seq(Frames) /\ UNCHANGED <<why, saving, consumer>>
        /\ ppc \in {"provider", "finish"} /\ "failed" \in Frames
    BY <1>6 DEF PutRest, Putting, TypeOK, Frames
  <2>2. OnTheWay("failed")' = OnTheWay("failed")
    BY <2>1, PutThenWay
  <2> QED
    BY <2>1, <2>2 DEF Reporting, Deciding
<1>7. CASE AfterPublish
  <2>1. out = <<>> /\ UNCHANGED <<why, parts, consumer>>
    BY <1>7 DEF AfterPublish
  <2>2. CASE why = "ProviderError"
    <3>1. PersistPartial
      BY <1>7, <2>2 DEF AfterPublish
    <3> QED
      BY <2>1, <2>2, <3>1, PersistLeaves DEF Reporting
  <2> QED
    BY <2>1, <2>2 DEF Reporting
<1>8. CASE AfterPartial
  <2>1. LeavePartial /\ out = <<>> /\ UNCHANGED <<why, parts, consumer>>
    BY <1>8 DEF AfterPartial
  <2> QED
    BY <2>1, LeaveReports DEF Reporting
<1>9. CASE AfterPartialFailed
  BY <1>9 DEF AfterPartialFailed, Reporting
<1> QED
  BY <1>2, <1>3, <1>4, <1>5, <1>6, <1>7, <1>8, <1>9 DEF ProducerStep

\* Nothing else takes a frame from a client that stays.
LEMMA OtherWay ==
  ASSUME Truth, client' = "connected",
         \/ PublishEnds \/ SaveEnds \/ CloseAbandoned \/ ConsumerStep \/ CancelAgain \/ Watch
         \/ Disconnect \/ DeleteConversation,
         NEW f \in Frames
  PROVE  OnTheWay(f)' = OnTheWay(f) /\ client = "connected"
<1> USE DEF Truth, Protocol, Turn, world, consumer
<1>1. client = "connected"
  BY DEF PublishEnds, SaveEnds, CloseAbandoned, ConsumerStep, Get, Send, EndResponse, TearDown,
     CancelAgain, Watch, Disconnect, DeleteConversation
<1>2. CASE Get
  BY <1>1, <1>2, GetWay
<1>3. CASE Send
  BY <1>1, <1>3, SendWay
<1>4. CASE ~Get /\ ~Send
  <2>1. UNCHANGED <<received, frame, queue, out>> /\ (cpc' = "send" <=> cpc = "send")
    BY <1>1, <1>4 DEF PublishEnds, SaveEnds, CloseAbandoned, ConsumerStep, EndResponse, TearDown,
       CancelAgain, Watch, Disconnect, DeleteConversation
  <2> QED
    BY <1>1, <2>1 DEF OnTheWay
<1> QED
  BY <1>2, <1>3, <1>4

\* The other tasks store the text, and lose no announcement.
LEMMA OtherOutcome ==
  ASSUME Truth, Keeping, Reporting,
         \/ PublishEnds \/ SaveEnds \/ CloseAbandoned \/ ConsumerStep \/ CancelAgain \/ Watch
         \/ Disconnect \/ DeleteConversation
  PROVE  Keeping' /\ Reporting'
<1> USE DEF Truth, Protocol, Turn, world, stored, call, tasks, consumer
<1>1. UNCHANGED <<ppc, why, parts>>
  BY DEF PublishEnds, SaveEnds, CloseAbandoned, ConsumerStep, Get, Send, EndResponse, TearDown,
     CancelAgain, Watch, Disconnect, DeleteConversation
<1>2. Keeping'
  <2>1. CASE SaveEnds
    BY <1>1, <2>1, FirstReply DEF SaveEnds, Keeping, Replying
  <2>2. CASE DeleteConversation
    BY <1>1, <2>2 DEF DeleteConversation, Keeping
  <2>3. CASE ~SaveEnds /\ ~DeleteConversation
    <3>1. UNCHANGED <<saving, conv, replies>>
      BY <2>3 DEF PublishEnds, CloseAbandoned, ConsumerStep, Get, Send, EndResponse, TearDown,
         CancelAgain, Watch, Disconnect
    <3> QED
      BY <1>1, <3>1 DEF Keeping
  <2> QED
    BY <2>1, <2>2, <2>3
<1>3. Reporting'
  <2> SUFFICES ASSUME client' = "connected" PROVE Reporting'
    BY DEF Reporting
  <2>1. OnTheWay("failed")' = OnTheWay("failed") /\ client = "connected"
    BY OtherWay DEF Frames
  <2>2. saving' # "failed" => saving # "failed"
    BY DEF PublishEnds, SaveEnds, CloseAbandoned, ConsumerStep, Get, Send, EndResponse, TearDown,
       CancelAgain, Watch, Disconnect, DeleteConversation
  <2> QED
    BY <1>1, <2>1, <2>2 DEF Reporting
<1> QED
  BY <1>2, <1>3

Outcome == Truth /\ Keeping /\ Reporting

\* What a failed call leaves behind is saved and announced, always.
LEMMA OutcomeInvariance == Spec => []Outcome
<1>1. Init => Outcome
  BY InitTruth DEF Init, Outcome, Keeping, Reporting
<1>2. Outcome /\ [Next]_vars => Outcome'
  <2> SUFFICES ASSUME Outcome, [Next]_vars PROVE Outcome'
    OBVIOUS
  <2>1. Truth'
    BY NextTruth DEF Outcome
  <2>2. CASE ProducerStep
    BY <2>1, <2>2, ProducerKeeping, ProducerReporting DEF Outcome
  <2>3. CASE \/ PublishEnds \/ SaveEnds \/ CloseAbandoned \/ ConsumerStep \/ CancelAgain
             \/ Watch \/ Disconnect \/ DeleteConversation
    BY <2>1, <2>3, OtherOutcome DEF Outcome
  <2>4. CASE UNCHANGED vars
    BY <2>1, <2>4 DEF vars, world, stored, call, tasks, consumer, Outcome, Keeping, Reporting,
       OnTheWay
  <2> QED
    BY <2>2, <2>3, <2>4 DEF Next, Stop
<1> QED
  BY <1>1, <1>2, PTL DEF Spec

\* A stored reply covers the text the client saw, a client that was told "done"
\* has seen all of the stored reply, and text seen before a failure or before a
\* hang-up reached the turn is stored unless the database refuses it.
THEOREM ScreenIsCovered == Spec => []TranscriptCoversScreen
<1>1. Outcome => TranscriptCoversScreen
  <2> SUFFICES ASSUME Outcome PROVE TranscriptCoversScreen
    OBVIOUS
  <2> USE DEF Outcome
  <2>1. TypeOK /\ Len(replies) <= 1
    BY DEF Truth, Protocol, Turn, Replying
  <2>2. Deltas = Count(received, "delta")
    BY DEF Deltas, Count
  <2>3. Deltas <= parts
    <3>1. OnTheWay("delta") <= parts /\ parts \in Nat
      BY <2>1 DEF Truth, Covering, TypeOK
    <3> QED
      BY <2>1, <2>2, <3>1, WayType
  <2>4. \A i \in 1 .. Len(replies) : replies[i] = parts
    BY DEF Truth, Covering
  <2>5. ASSUME Got("done"), conv
        PROVE  replies = <<Deltas>>
    <3>1. Count(received, "done") \in Nat /\ Count(received, "done") > 0
          /\ Count(received, "done") <= OnTheWay("done") /\ OnTheWay("done") \in Nat
      BY <2>1, <2>5, WayType
    <3>2. replies # <<>> /\ Deltas = parts
      BY <2>5, <3>1 DEF Truth, Covering
    <3>3. replies \in Seq(0 .. MaxChunks) /\ Len(replies) = 1
      <4>1. replies \in Seq(0 .. MaxChunks) /\ Len(replies) \in Nat
        BY <2>1, LenProperties DEF TypeOK
      <4>2. Len(replies) # 0
        BY <3>2, <4>1, EmptySeq
      <4>3. \A n \in Nat : n <= 1 /\ n # 0 => n = 1
        OBVIOUS
      <4>4. Len(replies) = 1
        BY <2>1, <4>1, <4>2, <4>3
      <4> QED
        BY <4>1, <4>4
    <3>4. replies[1] = Deltas
      BY <2>4, <3>2, <3>3
    <3> QED
      BY <3>3, <3>4
  <2>6. ASSUME Over, conv, Deltas > 0, why \in {"ProviderError", "CancelledError"}
        PROVE  replies # <<>> \/ saving = "failed"
    <3>1. parts > 0
      <4>1. Deltas \in Nat /\ parts \in Nat
        BY <2>1, <2>2, WayType DEF TypeOK
      <4> QED
        BY <2>3, <2>6, <4>1
    <3>2. ppc # "publish" /\ saving # "running"
      BY <2>6 DEF Over, Truth, Protocol, Turn, Calling, ProducerEnded
    <3>3. saving \in {"done", "failed"}
      BY <2>1, <2>6, <3>1, <3>2 DEF Keeping, TypeOK, Savings
    <3> QED
      BY <2>6, <3>3 DEF Keeping
  <2> QED
    BY <2>3, <2>4, <2>5, <2>6 DEF TranscriptCoversScreen
<1> QED
  BY <1>1, OutcomeInvariance, PTL

\* A client that stays to the end is told "done" exactly when its reply is
\* stored complete, is told when the provider fails, and its call is not
\* recorded as cancelled.
THEOREM ToldTheTruth == Spec => []ClientIsToldTheTruth
<1>1. Outcome => ClientIsToldTheTruth
  <2> SUFFICES ASSUME Outcome, cpc = "ended", client = "connected"
               PROVE  /\ status # "cancelled"
                      /\ conv => (Got("done") <=> status = "success" /\ replies # <<>>)
                      /\ why = "ProviderError" /\ saving # "failed" => Got("failed")
    BY DEF ClientIsToldTheTruth, Over
  <2> USE DEF Outcome
  <2>1. TypeOK /\ queue = <<>> /\ out = <<>> /\ status # "cancelled" /\ ProducerEnded
    BY DEF Truth, Protocol, Turn, Staying
  <2>2. ASSUME NEW f \in Frames
        PROVE  Got(f) <=> OnTheWay(f) > 0
    <3>1. Count(received, f) \in Nat /\ (Got(f) <=> Count(received, f) > 0)
      BY <2>1, WayType
    <3>2. OnTheWay(f) = Count(received, f)
      BY <2>1, <3>1, CountShort DEF OnTheWay
    <3> QED
      BY <3>1, <3>2
  <2>3. (Got("done") <=> OnTheWay("done") > 0) /\ (Got("failed") <=> OnTheWay("failed") > 0)
    BY <2>2 DEF Frames
  <2> QED
    BY <2>1, <2>3 DEF Truth, Covering, Staying, Reporting, ProducerEnded
<1> QED
  BY <1>1, OutcomeInvariance, PTL

----------------------------------------------------------------------------
(* The end of a turn *)

\* What is left to do: how far the producer has to go, the frames on their way
\* to the client, and what the other tasks and the world can still do.
ToGo ==
  CASE ppc = "turn"                 -> 100 + 20 * MaxChunks
    [] ppc = "provider"             -> 80 + 20 * (MaxChunks - parts)
    [] ppc = "publish"              -> 60
    [] ppc \in {"final", "partial"} -> 40
    [] ppc = "finish"               -> 20
    [] ppc \in {"ended", "mute"}    -> 0

Places == 5 * Len(out) + 4 * Len(queue)

Reading ==
  CASE cpc = "send"   -> 6
    [] cpc = "get"    -> 4
    [] cpc = "unwind" -> 2
    [] cpc = "close"  -> 1
    [] cpc = "ended"  -> 0

One(b) == IF b THEN 1 ELSE 0

Around ==
  One(~cancel) + 2 * One(abandoned) + (begun - published) + One(saving = "running")

Outside == One(watcher = "watching") + One(client = "connected") + One(conv)

Effort == ToGo + Places + Reading + Around + Outside

\* Each part of the effort is a number.
Counted ==
  /\ ToGo \in Nat /\ Places \in Nat /\ Reading \in Nat /\ Around \in Nat
  /\ Outside \in Nat

\* So is the effort of every state with the right types.
LEMMA EffortType == TypeOK => Counted
<1> SUFFICES ASSUME TypeOK PROVE Counted
  OBVIOUS
<1>1. MaxChunks \in Nat /\ parts \in Nat /\ MaxChunks - parts \in Nat
  BY StreamAssumption DEF TypeOK
<1>2. ToGo \in Nat
  BY <1>1 DEF ToGo, TypeOK, Waits
<1>3. Places \in Nat
  BY LenProperties DEF Places, TypeOK
<1>4. Reading \in Nat
  BY DEF Reading, TypeOK, ConsumerPoints
<1>5. Around \in Nat
  BY DEF Around, One, TypeOK
<1>6. Outside \in Nat
  BY DEF Outside, One
<1> QED
  BY <1>2, <1>3, <1>4, <1>5, <1>6 DEF Counted

\* The sentinel is one more place.
LEMMA EndWithSpends ==
  ASSUME NEW q \in Seq(Slots), EndWith(q)
  PROVE  /\ Len(q) \in Nat /\ Len(queue') \in Nat /\ Len(queue') <= Len(q) + 1
         /\ ppc' \in {"ended", "mute"}
<1>1. Len(q) \in Nat /\ Len(Append(q, Eos)) = Len(q) + 1
  BY AppendProperties, LenProperties DEF Slots
<1> QED
  BY <1>1 DEF EndWith, WithEos

\* Frames that are put take no more room than they had, and less if one of
\* them gets through.
LEMMA PutThenSpends ==
  ASSUME TypeOK, NEW s \in Seq(Frames), NEW next \in Waits, PutThen(s, next)
  PROVE  /\ Places' \in Nat /\ Len(s) \in Nat /\ Len(queue) \in Nat
         /\ \/ /\ ppc' = next /\ Places' <= 5 * Len(s) + 4 * Len(queue)
               /\ Room > 0 /\ s # <<>> => Places' < 5 * Len(s) + 4 * Len(queue)
            \/ /\ next = "finish" /\ ppc' \in {"ended", "mute"}
               /\ Places' <= 4 * Len(s) + 4 * Len(queue) + 4
<1> DEFINE q == queue \o Fits(s)
<1>1. /\ out' = Rest(s) /\ Rest(s) \in Seq(Frames)
      /\ Fits(s) \in Seq(Frames) /\ Len(Rest(s)) = Len(s) - Len(Fits(s))
      /\ Len(Fits(s)) <= Len(s)
  BY FitsRest DEF PutThen
<1>2. /\ Len(s) \in Nat /\ Len(Fits(s)) \in Nat /\ Len(queue) \in Nat
      /\ Len(out') \in Nat
  BY <1>1, LenProperties DEF TypeOK
<1>3. q \in Seq(Slots) /\ Len(q) = Len(queue) + Len(Fits(s))
  <2>1. Fits(s) \in Seq(Slots)
    BY <1>1, SeqMonotonic DEF Slots
  <2>2. queue \in Seq(Slots)
    BY DEF TypeOK, Slots
  <2> QED
    BY <2>1, <2>2, ConcatProperties
<1>4. Room > 0 /\ s # <<>> => Len(Fits(s)) > 0
  <2> SUFFICES ASSUME Room > 0, s # <<>> PROVE Len(Fits(s)) > 0
    OBVIOUS
  <2>1. Len(s) > 0 /\ Room \in Int
    <3>1. Len(s) # 0
      BY EmptySeq
    <3>2. QueueSize \in Nat
      BY StreamAssumption
    <3> QED
      BY <1>2, <3>1, <3>2 DEF Room
  <2>2. Fits(s) = SubSeq(s, 1, IF Len(s) < Room THEN Len(s) ELSE Room)
    BY DEF Fits
  <2>3. PICK n \in 1 .. Len(s) : Fits(s) = SubSeq(s, 1, n)
    BY <1>2, <2>1, <2>2
  <2>4. n \in Int /\ 1 \in Int /\ \A i \in 1 .. n : s[i] \in Frames
    BY <1>2, LenProperties
  <2>5. Len(SubSeq(s, 1, n)) = IF 1 <= n THEN n - 1 + 1 ELSE 0
    BY <2>4, SubSeqProperties
  <2> QED
    BY <2>3, <2>5
<1> HIDE DEF q
<1>5. \/ next = "finish" /\ out' = <<>> /\ EndWith(q)
      \/ ppc' = next /\ queue' = q
  BY DEF PutThen, q
<1>6. CASE ppc' = next /\ queue' = q
  BY <1>1, <1>2, <1>3, <1>4, <1>6 DEF Places
<1>7. CASE next = "finish" /\ out' = <<>> /\ EndWith(q)
  <2>1. /\ Len(queue') \in Nat /\ Len(queue') <= Len(q) + 1 /\ Len(out') = 0
        /\ ppc' \in {"ended", "mute"}
    BY <1>3, <1>7, EndWithSpends, EmptySeq
  <2> QED
    BY <1>1, <1>2, <1>3, <1>7, <2>1 DEF Places
<1> QED
  BY <1>5, <1>6, <1>7

\* A task that ends with an exception leaves the frames it had to put.
LEMMA EndTaskSpends ==
  ASSUME TypeOK, EndTask
  PROVE  /\ ppc' \in {"ended", "mute"} /\ Places' \in Nat /\ Places \in Nat
         /\ Places' <= Places + 4
<1>1. out' = <<>> /\ Len(out') = 0 /\ Len(out) \in Nat /\ queue \in Seq(Slots)
  BY EmptySeq, LenProperties DEF EndTask, TypeOK, Slots
<1>2. /\ Len(queue) \in Nat /\ Len(queue') \in Nat /\ Len(queue') <= Len(queue) + 1
      /\ ppc' \in {"ended", "mute"}
  BY <1>1, EndWithSpends DEF EndTask
<1> QED
  BY <1>1, <1>2 DEF Places

\* A step of the producer that takes it to another place pays for the frames
\* it adds, and for a cancellation it takes; one that only puts frames has
\* them nearer to the client.
Advances ==
  \/ ToGo' + Places' + 5 < ToGo + Places
  \/ /\ ToGo' = ToGo /\ Places' < Places
     /\ UNCHANGED <<cancel, abandoned, begun, published, saving>>

\* What is put at once.
Bunches == {<<"start">>, <<"failed">>, <<"done">>, <<"delta">>, <<"ttft", "delta">>}

\* At most two frames are put at once.
LEMMA BunchSize == \A s \in Bunches : Len(s) \in Nat /\ Len(s) <= 2
<1>1. /\ Len(<<"start">>) = 1 /\ Len(<<"failed">>) = 1 /\ Len(<<"done">>) = 1
      /\ Len(<<"delta">>) = 1 /\ Len(<<"ttft", "delta">>) = 2
  OBVIOUS
<1> QED
  BY <1>1 DEF Bunches

\* Frames that are put one after the other when nothing was left to put.
LEMMA BunchSpends ==
  ASSUME TypeOK, out = <<>>, NEW s \in Bunches, NEW next \in Waits, PutThen(s, next)
  PROVE  /\ Places' \in Nat /\ Places' <= Places + 12
         /\ \/ ppc' = next
            \/ next = "finish" /\ ppc' \in {"ended", "mute"}
<1>1. s \in Seq(Frames)
  BY FramesTyped DEF Bunches
<1>2. Places = 4 * Len(queue)
  BY EmptySeq DEF Places, TypeOK
<1>3. Len(s) \in Nat /\ Len(s) <= 2
  BY BunchSize
<1>4. /\ Places' \in Nat /\ Len(queue) \in Nat
      /\ \/ ppc' = next /\ Places' <= 5 * Len(s) + 4 * Len(queue)
         \/ /\ next = "finish" /\ ppc' \in {"ended", "mute"}
            /\ Places' <= 4 * Len(s) + 4 * Len(queue) + 4
  BY <1>1, PutThenSpends
<1>5. PICK p \in Nat : p = Places'
  BY <1>4
<1>6. \/ ppc' = next /\ p <= 5 * Len(s) + 4 * Len(queue)
      \/ /\ next = "finish" /\ ppc' \in {"ended", "mute"}
         /\ p <= 4 * Len(s) + 4 * Len(queue) + 4
  BY <1>4, <1>5
<1>7. p <= Places + 12
  <2>1. PICK n \in Nat, k \in Nat : n = Len(s) /\ k = Len(queue) /\ n <= 2
    BY <1>3, <1>4
  <2>2. p <= 5 * n + 4 * k \/ p <= 4 * n + 4 * k + 4
    BY <1>6, <2>1
  <2>3. Places = 4 * k
    BY <1>2, <2>1
  <2> QED
    BY <2>1, <2>2, <2>3
<1> QED
  BY <1>4, <1>5, <1>7

\* The end of a failed or cancelled call comes nearer.
LEMMA LeaveSpends ==
  ASSUME TypeOK, LeavePartial, out = <<>>
  PROVE  /\ Places' <= Places + 12 /\ Places' \in Nat
         /\ ppc' \in {"finish", "ended", "mute"}
<1>1. CASE why = "ProviderError"
  <2>1. PutThen(<<"failed">>, "finish") /\ "finish" \in Waits
    BY <1>1 DEF LeavePartial, Waits
  <2> QED
    BY <2>1, BunchSpends DEF Bunches
<1>2. CASE why # "ProviderError"
  <2>1. EndTask
    BY <1>2 DEF LeavePartial
  <2> QED
    BY <2>1, EndTaskSpends
<1> QED
  BY <1>1, <1>2

\* So does it where there may be something to save.
LEMMA PersistSpends ==
  ASSUME TypeOK, PersistPartial, out = <<>>
  PROVE  /\ Places' <= Places + 12 /\ Places' \in Nat
         /\ ppc' \in {"partial", "finish", "ended", "mute"}
<1>1. CASE parts > 0
  BY <1>1, EffortType DEF PersistPartial, Places, Counted
<1>2. CASE ~(parts > 0) /\ why' = "ProviderError"
  <2>1. PutThen(<<"failed">>, "finish") /\ "finish" \in Waits
    BY <1>2 DEF PersistPartial, Waits
  <2> QED
    BY <2>1, BunchSpends DEF Bunches
<1>3. CASE ~(parts > 0) /\ why' # "ProviderError"
  <2>1. EndTask
    BY <1>3 DEF PersistPartial
  <2> QED
    BY <2>1, EndTaskSpends
<1> QED
  BY <1>1, <1>2, <1>3

\* A place of the producer is worth more than two frames and a cancellation.
LEMMA Pays ==
  ASSUME NEW a \in Nat, NEW b \in Nat, NEW c \in Nat, NEW d \in Nat,
         b + 20 <= a, d <= c + 12
  PROVE  b + d + 5 < a + c
OBVIOUS

\* A step that takes the producer to another place is such an advance.
LEMMA PlacePays ==
  ASSUME ToGo \in Nat, ToGo' \in Nat, Places \in Nat, Places' \in Nat,
         ToGo' + 20 <= ToGo, Places' <= Places + 12
  PROVE  Advances
<1>1. ToGo' + Places' + 5 < ToGo + Places
  BY Pays
<1> QED
  BY <1>1 DEF Advances

\* Every step of the producer takes it nearer to its end.
LEMMA ProducerAdvances == ASSUME TypeOK, Putting, ProducerStep PROVE Advances
<1>0. /\ MaxChunks \in Nat /\ parts \in Nat /\ MaxChunks - parts \in Nat
      /\ ToGo \in Nat /\ Places \in Nat
  BY EffortType, StreamAssumption DEF TypeOK, Counted
<1>1. CASE UserTurn
  <2>1. /\ PutThen(<<"start">>, "provider") /\ "provider" \in Waits
        /\ ppc = "turn" /\ out = <<>> /\ parts' = parts
    BY <1>1 DEF UserTurn, At, Waits
  <2>2. ppc' = "provider" /\ Places' <= Places + 12 /\ Places' \in Nat
    BY <2>1, BunchSpends DEF Bunches
  <2>3. ToGo = 100 + 20 * MaxChunks /\ ToGo' = 80 + 20 * (MaxChunks - parts)
    BY <2>1, <2>2 DEF ToGo
  <2>4. ToGo' \in Nat /\ ToGo' + 20 <= ToGo
    BY <1>0, <2>3
  <2> QED
    BY <1>0, <2>2, <2>4, PlacePays
<1>2. CASE UserTurnRejected
  <2>1. /\ PutThen(<<"failed">>, "finish") /\ "finish" \in Waits
        /\ ppc = "turn" /\ out = <<>>
    BY <1>2 DEF UserTurnRejected, At, Waits
  <2>2. /\ ppc' \in {"finish", "ended", "mute"} /\ Places' <= Places + 12 /\ Places' \in Nat
    BY <2>1, BunchSpends DEF Bunches
  <2>3. ToGo = 100 + 20 * MaxChunks /\ (ToGo' = 0 \/ ToGo' = 20)
    BY <2>1, <2>2 DEF ToGo
  <2>4. ToGo' \in Nat /\ ToGo' + 20 <= ToGo
    BY <1>0, <2>3
  <2> QED
    BY <1>0, <2>2, <2>4, PlacePays
<1>3. CASE UserTurnFails \/ CancelledInUserTurn
  <2>1. EndTask /\ ppc = "turn"
    BY <1>3 DEF UserTurnFails, CancelledInUserTurn, At
  <2>2. ppc' \in {"ended", "mute"} /\ Places' <= Places + 4 /\ Places' \in Nat
    BY <2>1, EndTaskSpends
  <2>3. ToGo = 100 + 20 * MaxChunks /\ ToGo' = 0
    BY <2>1, <2>2 DEF ToGo
  <2>4. ToGo' \in Nat /\ ToGo' + 20 <= ToGo
    BY <1>0, <2>3
  <2> QED
    BY <1>0, <2>2, <2>4, PlacePays
<1>4. CASE PutRest
  <2>1. /\ PutThen(out, ppc) /\ out \in Seq(Frames) /\ ppc \in Waits
        /\ out # <<>> /\ Room > 0
        /\ UNCHANGED <<parts, cancel, abandoned, begun, published, saving>>
    BY <1>4 DEF PutRest, TypeOK, tasks
  <2>2. Len(out) \in Nat /\ Len(queue) \in Nat /\ Places = 5 * Len(out) + 4 * Len(queue)
    BY LenProperties DEF Places, TypeOK
  <2>3. CASE ppc' = ppc /\ Places' < Places
    <3>1. ToGo' = ToGo
      BY <2>1, <2>3 DEF ToGo
    <3> QED
      BY <2>1, <2>3, <3>1 DEF Advances
  <2>4. CASE ppc = "finish" /\ ppc' \in {"ended", "mute"} /\ Places' <= Places + 4
    <3>1. ToGo = 20 /\ ToGo' = 0 /\ Places' \in Nat
      BY <2>1, <2>4, PutThenSpends DEF ToGo
    <3> QED
      BY <1>0, <2>4, <3>1, PlacePays
  <2> QED
    BY <2>1, <2>2, <2>3, <2>4, PutThenSpends
<1>5. CASE Chunk
  <2>1. /\ parts < MaxChunks /\ parts' = parts + 1 /\ ppc = "provider" /\ out = <<>>
        /\ "provider" \in Waits
        /\ \/ PutThen(<<"ttft", "delta">>, "provider")
           \/ PutThen(<<"delta">>, "provider")
    BY <1>5, Zenon DEF Chunk, At, Waits
  <2>2. ppc' = "provider" /\ Places' <= Places + 12 /\ Places' \in Nat
    BY <2>1, BunchSpends DEF Bunches
  <2>3. ToGo = 80 + 20 * (MaxChunks - parts) /\ ToGo' = 80 + 20 * (MaxChunks - (parts + 1))
    BY <2>1, <2>2 DEF ToGo
  <2>4. ToGo' \in Nat /\ ToGo' + 20 <= ToGo
    BY <1>0, <2>1, <2>3
  <2> QED
    BY <1>0, <2>2, <2>4, PlacePays
<1>6. CASE ProviderEnds \/ ProviderFails \/ CancelledInProvider
  <2>1. ppc = "provider" /\ ppc' = "publish" /\ UNCHANGED <<out, queue>>
    BY <1>6 DEF ProviderEnds, ProviderFails, CancelledInProvider, PublishEvent, At
  <2>2. ToGo = 80 + 20 * (MaxChunks - parts) /\ ToGo' = 60 /\ Places' = Places
    BY <2>1 DEF ToGo, Places
  <2>3. ToGo' \in Nat /\ ToGo' + 20 <= ToGo /\ Places' \in Nat /\ Places' <= Places + 12
    BY <1>0, <2>2
  <2> QED
    BY <1>0, <2>3, PlacePays
<1>7. CASE EventRefused
  <2>1. EndTask /\ ppc = "provider"
    BY <1>7 DEF EventRefused
  <2>2. ppc' \in {"ended", "mute"} /\ Places' <= Places + 4 /\ Places' \in Nat
    BY <2>1, EndTaskSpends
  <2>3. ToGo = 80 + 20 * (MaxChunks - parts) /\ ToGo' = 0
    BY <2>1, <2>2 DEF ToGo
  <2>4. ToGo' \in Nat /\ ToGo' + 20 <= ToGo
    BY <1>0, <2>3
  <2> QED
    BY <1>0, <2>2, <2>4, PlacePays
<1>8. CASE AfterPublish \/ CancelledInPublish
  <2>1. /\ ppc = "publish" /\ out = <<>>
        /\ \/ ppc' = "final" /\ UNCHANGED <<out, queue>>
           \/ EndTask
           \/ PersistPartial
    BY <1>8 DEF AfterPublish, CancelledInPublish, At
  <2>2. /\ ppc' \in {"final", "partial", "finish", "ended", "mute"}
        /\ Places' <= Places + 12 /\ Places' \in Nat
    <3>1. CASE ppc' = "final" /\ UNCHANGED <<out, queue>>
      BY <1>0, <3>1 DEF Places
    <3>2. CASE EndTask
      BY <3>2, EndTaskSpends
    <3>3. CASE PersistPartial
      BY <2>1, <3>3, PersistSpends
    <3> QED
      BY <2>1, <3>1, <3>2, <3>3
  <2>3. ToGo = 60 /\ (ToGo' = 0 \/ ToGo' = 20 \/ ToGo' = 40)
    BY <2>1, <2>2 DEF ToGo
  <2>4. ToGo' \in Nat /\ ToGo' + 20 <= ToGo
    BY <1>0, <2>3
  <2> QED
    BY <1>0, <2>2, <2>4, PlacePays
<1>9. CASE AfterPartial \/ CancelledInPartial
  <2>1. LeavePartial /\ ppc = "partial" /\ out = <<>>
    BY <1>9 DEF AfterPartial, CancelledInPartial, At
  <2>2. ppc' \in {"finish", "ended", "mute"} /\ Places' <= Places + 12 /\ Places' \in Nat
    BY <2>1, LeaveSpends
  <2>3. ToGo = 40 /\ (ToGo' = 0 \/ ToGo' = 20)
    BY <2>1, <2>2 DEF ToGo
  <2>4. ToGo' \in Nat /\ ToGo' + 20 <= ToGo
    BY <1>0, <2>3
  <2> QED
    BY <1>0, <2>2, <2>4, PlacePays
<1>10. CASE FinalTurn
  <2>1. /\ PutThen(<<"done">>, "finish") /\ "finish" \in Waits
        /\ ppc = "final" /\ out = <<>>
    BY <1>10 DEF FinalTurn, At, Waits
  <2>2. /\ ppc' \in {"finish", "ended", "mute"} /\ Places' <= Places + 12 /\ Places' \in Nat
    BY <2>1, BunchSpends DEF Bunches
  <2>3. ToGo = 40 /\ (ToGo' = 0 \/ ToGo' = 20)
    BY <2>1, <2>2 DEF ToGo
  <2>4. ToGo' \in Nat /\ ToGo' + 20 <= ToGo
    BY <1>0, <2>3
  <2> QED
    BY <1>0, <2>2, <2>4, PlacePays
<1>11. CASE AfterPartialFailed \/ FinalTurnFails \/ CancelledInFinalTurn
  <2>1. EndTask /\ ppc \in {"partial", "final"}
    BY <1>11 DEF AfterPartialFailed, FinalTurnFails, CancelledInFinalTurn, At
  <2>2. ppc' \in {"ended", "mute"} /\ Places' <= Places + 4 /\ Places' \in Nat
    BY <2>1, EndTaskSpends
  <2>3. ToGo = 40 /\ ToGo' = 0
    BY <2>1, <2>2 DEF ToGo
  <2>4. ToGo' \in Nat /\ ToGo' + 20 <= ToGo
    BY <1>0, <2>3
  <2> QED
    BY <1>0, <2>2, <2>4, PlacePays
<1>12. CASE CancelledInPut
  <2>1. EndTask /\ ppc \in {"provider", "finish"}
    BY <1>12 DEF CancelledInPut, Putting
  <2>2. ppc' \in {"ended", "mute"} /\ Places' <= Places + 4 /\ Places' \in Nat
    BY <2>1, EndTaskSpends
  <2>3. (ToGo = 20 \/ ToGo = 80 + 20 * (MaxChunks - parts)) /\ ToGo' = 0
    BY <2>1, <2>2 DEF ToGo
  <2>4. ToGo' \in Nat /\ ToGo' + 20 <= ToGo
    BY <1>0, <2>3
  <2> QED
    BY <1>0, <2>2, <2>4, PlacePays
<1> QED
  BY <1>1, <1>2, <1>3, <1>4, <1>5, <1>6, <1>7, <1>8, <1>9, <1>10, <1>11, <1>12
     DEF ProducerStep, Cancellation
\* Meanwhile it may take a cancellation, leave the generators suspended, hand
\* an event to the bus and start the partial save.
LEMMA ProducerAround ==
  ASSUME TypeOK, ProducerStep
  PROVE  Reading' = Reading /\ Outside' = Outside /\ Around' \in Nat /\ Around' <= Around + 5
<1> USE DEF world, stored, call, tasks, consumer
<1>1. UNCHANGED <<cpc, watcher, client, conv, published>>
  BY DEF ProducerStep, Cancellation, UserTurn, UserTurnRejected, UserTurnFails, PutRest, Chunk,
         ProviderEnds, ProviderFails, EventRefused, AfterPublish, AfterPartial,
         AfterPartialFailed, FinalTurn, FinalTurnFails, CancelledInUserTurn,
         CancelledInFinalTurn, CancelledInPut, CancelledInProvider, CancelledInPublish,
         CancelledInPartial
<1>2. begun' = begun \/ begun' = begun + 1
  BY DEF ProducerStep, Cancellation, UserTurn, UserTurnRejected, UserTurnFails, PutRest, Chunk,
         ProviderEnds, ProviderFails, EventRefused, AfterPublish, AfterPartial,
         AfterPartialFailed, FinalTurn, FinalTurnFails, CancelledInUserTurn,
         CancelledInFinalTurn, CancelledInPut, CancelledInProvider, CancelledInPublish,
         CancelledInPartial, PublishEvent
<1>3. Reading' = Reading /\ Outside' = Outside
  BY <1>1 DEF Reading, Outside, One
<1>4. begun \in Nat /\ published \in Nat /\ published <= begun /\ published' = published
  BY <1>1 DEF TypeOK
<1>5. Around' \in Nat /\ Around' <= Around + 5
  BY <1>2, <1>4 DEF Around, One
<1> QED
  BY <1>3, <1>5

\* A step of the producer spends more than it gains around it.
LEMMA ProducerSpends == ASSUME Protocol, ProducerStep PROVE Effort' < Effort
<1>1. TypeOK /\ Putting /\ TypeOK'
  BY ProducerTypeOK DEF Protocol, Turn
<1>2. Counted
  BY <1>1, EffortType
<1>3. Counted'
  BY <1>1, EffortType, PTL
<1>4. /\ Reading' = Reading /\ Outside' = Outside /\ Around' \in Nat
      /\ Around' <= Around + 5
  BY <1>1, ProducerAround
<1>5. CASE ToGo' + Places' + 5 < ToGo + Places
  <2>1. PICK g \in Nat, p \in Nat, a \in Nat : g = ToGo' /\ p = Places' /\ a = Around'
    BY <1>3 DEF Counted
  <2>2. g + p + 5 < ToGo + Places /\ a <= Around + 5
    BY <1>4, <1>5, <2>1
  <2>3. g + p + Reading + a + Outside < Effort
    BY <1>2, <2>2 DEF Effort, Counted
  <2>4. Effort' = g + p + Reading + a + Outside
    BY <1>4, <2>1 DEF Effort
  <2> QED
    BY <2>3, <2>4
<1>6. CASE /\ ToGo' = ToGo /\ Places' < Places
           /\ UNCHANGED <<cancel, abandoned, begun, published, saving>>
  <2>1. Around' = Around
    BY <1>6 DEF Around
  <2> QED
    <3>1. PICK p \in Nat : p = Places'
      BY <1>3 DEF Counted
    <3>2. p < Places
      BY <1>6, <3>1
    <3>3. ToGo + p + Reading + Around + Outside < Effort
      BY <1>2, <3>2 DEF Effort, Counted
    <3> QED
      BY <1>4, <1>6, <2>1, <3>1, <3>3 DEF Effort
<1> QED
  BY <1>1, <1>5, <1>6, ProducerAdvances DEF Advances

\* The other steps leave the producer where it is.
LEMMA OtherSpends ==
  ASSUME Protocol,
         \/ PublishEnds \/ SaveEnds \/ CloseAbandoned \/ ConsumerStep \/ CancelAgain \/ Watch
         \/ Disconnect \/ DeleteConversation
  PROVE  Effort' < Effort \/ UNCHANGED vars
<1> USE DEF world, stored, call, tasks, consumer
<1>0. TypeOK
  BY DEF Protocol, Turn
<1>1. /\ ToGo \in Nat /\ Places \in Nat /\ Reading \in Nat /\ Around \in Nat
      /\ Outside \in Nat /\ begun \in Nat /\ published \in Nat /\ published <= begun
  BY <1>0, EffortType DEF TypeOK, Counted
<1>2. UNCHANGED <<ppc, parts, out>> => ToGo' = ToGo
  BY DEF ToGo
<1>3. UNCHANGED <<out, queue>> => Places' = Places
  BY DEF Places
<1>4. UNCHANGED cpc => Reading' = Reading
  BY DEF Reading
<1>5. UNCHANGED <<watcher, client, conv>> => Outside' = Outside
  BY DEF Outside
<1>6. CASE PublishEnds
  <2>1. UNCHANGED <<ppc, parts, out, queue, cpc, watcher, client, conv>>
    BY <1>6 DEF PublishEnds
  <2>2. Around' = Around - 1
    BY <1>1, <1>6 DEF PublishEnds, Around, One
  <2> QED
    BY <1>1, <1>2, <1>3, <1>4, <1>5, <2>1, <2>2 DEF Effort
<1>7. CASE SaveEnds
  <2>1. UNCHANGED <<ppc, parts, out, queue, cpc, watcher, client, conv>>
    BY <1>7 DEF SaveEnds
  <2>2. Around' = Around - 1
    BY <1>1, <1>7 DEF SaveEnds, Around, One
  <2> QED
    BY <1>1, <1>2, <1>3, <1>4, <1>5, <2>1, <2>2 DEF Effort
<1>8. CASE CloseAbandoned
  <2>1. UNCHANGED <<ppc, parts, out, queue, cpc, watcher, client, conv>>
    BY <1>8 DEF CloseAbandoned
  <2>2. Around' <= Around - 1 /\ Around' \in Int
    BY <1>1, <1>8 DEF CloseAbandoned, Around, One
  <2>3. PICK a \in Int : a = Around'
    BY <2>2
  <2>4. a <= Around - 1
    BY <2>2, <2>3
  <2>5. ToGo + Places + Reading + a + Outside < Effort
    BY <1>1, <2>4 DEF Effort
  <2> QED
    BY <1>2, <1>3, <1>4, <1>5, <2>1, <2>3, <2>5 DEF Effort
<1>9. CASE Get
  <2>1. /\ UNCHANGED <<ppc, parts, out, watcher, client, conv>>
        /\ UNCHANGED <<cancel, abandoned, begun, published, saving>>
    BY <1>9 DEF Get
  <2>2. Around' = Around
    BY <2>1 DEF Around
  <2>3. Places' = Places - 4
    <3>1. queue \in Seq(Slots) /\ queue # <<>> /\ queue' = Tail(queue)
      BY <1>0, <1>9 DEF Get, TypeOK, Slots
    <3>2. Len(queue') = Len(queue) - 1 /\ Len(queue) \in Nat
      BY <3>1, HeadTailProperties, LenProperties
    <3>3. Len(out) \in Nat /\ out' = out
      BY <1>0, <2>1, LenProperties DEF TypeOK
    <3> QED
      BY <3>2, <3>3 DEF Places
  <2>4. Reading = 4 /\ (Reading' = 6 \/ Reading' = 1)
    BY <1>9 DEF Get, Reading
  <2> QED
    BY <1>1, <1>2, <1>5, <2>1, <2>2, <2>3, <2>4 DEF Effort
<1>10. CASE Send
  <2>1. /\ UNCHANGED <<ppc, parts, out, queue, watcher, client, conv>>
        /\ UNCHANGED <<cancel, abandoned, begun, published, saving>>
    BY <1>10 DEF Send
  <2>2. Around' = Around
    BY <2>1 DEF Around
  <2>3. Reading = 6 /\ Reading' = 4
    BY <1>10 DEF Send, Reading
  <2> QED
    BY <1>1, <1>2, <1>3, <1>5, <2>1, <2>2, <2>3 DEF Effort
<1>11. CASE EndResponse
  <2>1. UNCHANGED <<ppc, parts, out, queue, client, conv, abandoned, begun, published, saving>>
    BY <1>11 DEF EndResponse
  <2>2. Around' <= Around + 1 /\ Around' \in Int
    BY <1>1, <2>1 DEF Around, One
  <2>3. Reading' + 2 <= Reading /\ Reading' \in Nat
    BY <1>11 DEF EndResponse, Leave, Reading
  <2>4. Outside' <= Outside /\ Outside' \in Nat
    BY <1>11, <2>1 DEF EndResponse, Outside, One
  <2>5. PICK r \in Nat, a \in Int, w \in Nat : r = Reading' /\ a = Around' /\ w = Outside'
    BY <2>2, <2>3, <2>4
  <2>6. r + 2 <= Reading /\ a <= Around + 1 /\ w <= Outside
    BY <2>2, <2>3, <2>4, <2>5
  <2>7. ToGo + Places + r + a + w < Effort
    BY <1>1, <2>6 DEF Effort
  <2> QED
    BY <1>2, <1>3, <2>1, <2>5, <2>7 DEF Effort
<1>12. CASE TearDown
  <2>1. /\ UNCHANGED <<ppc, parts, out, queue, client, conv>>
        /\ UNCHANGED <<cancel, abandoned, begun, published, saving>>
    BY <1>12 DEF TearDown
  <2>2. Around' = Around
    BY <2>1 DEF Around
  <2>3. Reading' < Reading /\ Reading' \in Nat
    BY <1>12 DEF TearDown, Reading
  <2>4. Outside' <= Outside /\ Outside' \in Nat
    BY <1>12, <2>1 DEF TearDown, Outside, One
  <2>5. PICK r \in Nat, w \in Nat : r = Reading' /\ w = Outside'
    BY <2>3, <2>4
  <2>6. r < Reading /\ w <= Outside
    BY <2>3, <2>4, <2>5
  <2>7. ToGo + Places + r + Around + w < Effort
    BY <1>1, <2>6 DEF Effort
  <2> QED
    BY <1>2, <1>3, <2>1, <2>2, <2>5, <2>7 DEF Effort
<1>13. CASE CancelAgain
  <2>1. /\ UNCHANGED <<ppc, parts, out, queue, cpc, watcher, client, conv>>
        /\ UNCHANGED <<abandoned, begun, published, saving>> /\ cancel' = TRUE
    BY <1>13 DEF CancelAgain
  <2>2. CASE cancel = TRUE
    BY <1>13, <2>1, <2>2 DEF CancelAgain, vars
  <2>3. CASE cancel = FALSE
    <3>1. Around' = Around - 1
      BY <1>1, <2>1, <2>3 DEF Around, One
    <3> QED
      BY <1>1, <1>2, <1>3, <1>4, <1>5, <2>1, <3>1 DEF Effort
  <2> QED
    BY <1>0, <2>2, <2>3 DEF TypeOK
<1>14. CASE Watch
  <2>1. /\ UNCHANGED <<ppc, parts, out, queue, cpc, client, conv>>
        /\ UNCHANGED <<abandoned, begun, published, saving>>
    BY <1>14 DEF Watch
  <2>2. Around' <= Around /\ Around' \in Int
    BY <1>0, <1>1, <1>14, <2>1 DEF Watch, Around, One, TypeOK
  <2>3. Outside' = Outside - 1
    BY <1>14, <2>1 DEF Watch, Outside, One
  <2>4. PICK a \in Int : a = Around'
    BY <2>2
  <2>5. a <= Around
    BY <2>2, <2>4
  <2>6. ToGo + Places + Reading + a + (Outside - 1) < Effort
    BY <1>1, <2>5 DEF Effort
  <2> QED
    BY <1>2, <1>3, <1>4, <2>1, <2>3, <2>4, <2>6 DEF Effort
<1>15. CASE Disconnect \/ DeleteConversation
  <2>1. /\ UNCHANGED <<ppc, parts, out, queue, cpc, watcher>>
        /\ UNCHANGED <<cancel, abandoned, begun, published, saving>>
    BY <1>15 DEF Disconnect, DeleteConversation
  <2>2. Around' = Around
    BY <2>1 DEF Around
  <2>3. Outside' = Outside - 1
    BY <1>15 DEF Disconnect, DeleteConversation, Outside, One
  <2> QED
    BY <1>1, <1>2, <1>3, <1>4, <2>1, <2>2, <2>3 DEF Effort
<1> QED
  BY <1>6, <1>7, <1>8, <1>9, <1>10, <1>11, <1>12, <1>13, <1>14, <1>15 DEF ConsumerStep

\* A streamed turn comes to an end whatever the client, the provider, the
\* database and the cancellations do: every step that changes anything lowers
\* a number, so that a turn has at most 108 + 20 * MaxChunks of them.
THEOREM TurnComesToAnEnd ==
  Spec => /\ Effort = 108 + 20 * MaxChunks
          /\ [](Effort \in Nat)
          /\ [][Effort' < Effort]_vars
<1>1. Init => Effort = 108 + 20 * MaxChunks
  <2> SUFFICES ASSUME Init PROVE Effort = 108 + 20 * MaxChunks
    OBVIOUS
  <2>1. ToGo = 100 + 20 * MaxChunks /\ Reading = 4 /\ Around = 1 /\ Outside = 3
    BY DEF Init, ToGo, Reading, Around, Outside, One
  <2>2. Len(out) = 0 /\ Len(queue) = 0
    BY EmptySeq DEF Init
  <2> QED
    BY <2>1, <2>2, StreamAssumption DEF Effort, Places
<1>2. Protocol => Effort \in Nat
  <2> SUFFICES ASSUME Protocol PROVE Effort \in Nat
    OBVIOUS
  <2> QED
    BY EffortType DEF Effort, Protocol, Turn, Counted
<1>3. Protocol /\ [Next]_vars => [Effort' < Effort]_vars
  BY ProducerSpends, OtherSpends DEF Next, Stop
<1> QED
  BY <1>1, <1>2, <1>3, InitProtocol, NextProtocol, PTL DEF Spec
=============================================================================
