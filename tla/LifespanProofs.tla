--------------------------- MODULE LifespanProofs ---------------------------
(***************************************************************************)
(* Proofs about Lifespan, for any number of calls and any grace period,    *)
(* publish timeout and patience of the orchestrator.                       *)
(***************************************************************************)
EXTENDS Lifespan, TLAPS, FiniteSetTheorems

Accepting == {"serving", "stopping"}
Leaving == {"draining", "closing", "disposing", "exited"}

\* When the requests are over is known from then on; the process then lasts
\* for the grace period at most, and only a late publish was given more time
\* than its timeout from then.
Times ==
  /\ phase \in Accepting => leftAt = None
  /\ phase \in Leaving => leftAt # None
  /\ leftAt = None => \A c \in Calls : deadline[c] <= clock + timeout
  /\ leftAt # None => /\ clock <= leftAt + Grace
                      /\ \A c \in Calls \ late : deadline[c] <= leftAt + timeout

\* The requests are over before the drain, and the publishes that are not late
\* before the bus is closed.
Order ==
  /\ phase \in Leaving => \A c \in Calls : request[c] = "over"
  /\ phase = "draining" => \A c \in Calls : publish[c] = "running" => c \in draining \cup late
  /\ phase \in {"closing", "disposing"} => \A c \in Calls \ late : publish[c] # "running"
  /\ bus = "closed" => phase \notin Accepting \cup {"draining", "closing"}

\* A save is waited for by its request, unless that was cancelled; what is cut
\* without a kill was cut by the drain or by the end of the loop.
Saves ==
  \A c \in Calls :
    /\ request[c] \in {"calling", "publishing"} => save[c] = "none"
    /\ save[c] = "running" => request[c] = "saving" \/ c \in left
    /\ save[c] = "cut" => ~Alive
    /\ phase # "killed" /\ save[c] = "cut" => c \in left
    /\ phase # "killed" /\ publish[c] = "cut" => timeout >= Grace \/ c \in late

\* Who has not published is still calling, or is over and has left its
\* generators suspended; nobody is late before the requests are over.
Suspensions ==
  /\ \A c \in suspended : request[c] = "over"
  /\ leftAt = None => late = {}
  /\ \A c \in Calls : publish[c] = "none" <=> request[c] = "calling" \/ c \in suspended

IInv == TypeOK /\ Times /\ Order /\ Saves /\ Suspensions

\* What the assumptions say of the limits.
LEMMA Constants ==
  /\ Timeouts \subseteq Nat
  /\ Grace \in Nat /\ KillAfter \in Nat /\ MaxTime \in Nat
  /\ None \notin Nat
BY LifespanAssumption

\* In the beginning nothing is under way and nothing has ended.
LEMMA InitIInv == Init => IInv
<1> SUFFICES ASSUME Init PROVE IInv
  OBVIOUS
<1> USE Constants DEF Init, Running, Alive
<1>1. TypeOK
  BY DEF TypeOK
<1>2. Times
  BY DEF Times, Accepting, Leaving
<1>3. Order /\ Saves /\ Suspensions
  BY DEF Order, Saves, Suspensions, Accepting, Leaving
<1> QED
  BY <1>1, <1>2, <1>3 DEF IInv

----------------------------------------------------------------------------
(* The steps of a call *)

\* A publish that starts is stamped with the time and with its own limit.
LEMMA BeginTyped ==
  ASSUME TypeOK, NEW c \in Calls, BeginPublish(c)
  PROVE  /\ publish' \in [Calls -> {"none", "running", "accepted", "refused", "cut"}]
         /\ deadline' \in [Calls -> Nat] /\ deadline'[c] = clock + timeout
         /\ publish'[c] \in {"running", "accepted"}
         /\ \A d \in Calls \ {c} : publish'[d] = publish[d] /\ deadline'[d] = deadline[d]
BY Constants DEF TypeOK, BeginPublish, Begun

\* A request that publishes has not saved, and is not over.
LEMMA StartPublishIInv == ASSUME IInv, NEW c \in Calls, StartPublish(c) PROVE IInv'
<1> USE Constants, BeginTyped DEF IInv, StartPublish, settings, generators, shutdown, Alive
<1>1. phase \in Accepting /\ leftAt = None /\ clock \in Nat /\ timeout \in Nat
  BY DEF TypeOK, Order, Times, Accepting, Leaving
<1>2. TypeOK'
  BY <1>1 DEF TypeOK, Running
<1>3. Times'
  BY <1>1 DEF TypeOK, Times, Accepting, Leaving
<1>4. Order'
  BY <1>1 DEF TypeOK, Order, Accepting, Leaving
<1>5. Saves'
  BY DEF TypeOK, Saves
<1>6. Suspensions'
  BY DEF TypeOK, Suspensions
<1> QED
  BY <1>2, <1>3, <1>4, <1>5, <1>6

\* A cancellation in put() leaves the generators to be finalised.
LEMMA CancelledInPutIInv == ASSUME IInv, NEW c \in Calls, CancelledInPut(c) PROVE IInv'
<1> USE Constants DEF IInv, CancelledInPut, settings, shutdown, Alive
<1>1. TypeOK'
  BY DEF TypeOK, Running
<1>2. Times'
  BY DEF Times
<1>3. Order'
  BY DEF TypeOK, Order
<1>4. Saves'
  BY DEF TypeOK, Saves
<1>5. publish[c] = "none"
  BY DEF Suspensions
<1>6. Suspensions'
  BY <1>5 DEF TypeOK, Suspensions
<1> QED
  BY <1>1, <1>2, <1>3, <1>4, <1>6

\* Generators that are finalised publish, and are late once the requests are over.
LEMMA CloseGeneratorsIInv == ASSUME IInv, NEW c \in Calls, CloseGenerators(c) PROVE IInv'
<1> USE Constants, BeginTyped DEF IInv, CloseGenerators, settings, shutdown, Alive
<1>1. clock \in Nat /\ timeout \in Nat /\ leftAt \in Nat \cup {None} /\ c \notin suspended'
  BY DEF TypeOK
<1>2. TypeOK'
  BY <1>1 DEF TypeOK, Running
<1>3. Times'
  BY <1>1 DEF TypeOK, Times, Accepting, Leaving
<1>4. Order'
  BY <1>1 DEF TypeOK, Order, Times, Accepting, Leaving
<1>5. Saves'
  BY DEF TypeOK, Saves
<1>6. Suspensions'
  BY DEF TypeOK, Suspensions
<1> QED
  BY <1>2, <1>3, <1>4, <1>5, <1>6

\* A publish ends within its limit, one way or the other.
LEMMA EndPublishIInv ==
  ASSUME IInv, NEW c \in Calls, EndPublish(c) \/ PublishTimesOut(c)
  PROVE  IInv'
<1> USE Constants DEF IInv, settings, generators, shutdown, Alive
<1>1. PICK outcome \in {"accepted", "refused"} : publish' = [publish EXCEPT ![c] = outcome]
  BY DEF EndPublish, PublishTimesOut
<1>2. /\ UNCHANGED <<backend, timeout, clock, phase, request, left, suspended, late, deadline, save,
                     killAt, leftAt, draining, bus, database, reported>>
      /\ Alive
  BY DEF EndPublish, PublishTimesOut
<1>3. TypeOK'
  BY <1>1, <1>2 DEF TypeOK, Running
<1>4. Times'
  BY <1>2 DEF Times
<1>5. Order'
  BY <1>1, <1>2 DEF TypeOK, Order
<1>6. Saves'
  BY <1>1, <1>2 DEF TypeOK, Saves
<1>7. Suspensions'
  BY <1>1, <1>2 DEF TypeOK, Suspensions, EndPublish, PublishTimesOut
<1> QED
  BY <1>3, <1>4, <1>5, <1>6, <1>7

\* After its publish, or when it is cancelled there, a request is over or
\* saves its partial reply.
LEMMA SaveOrEndIInv ==
  ASSUME IInv, NEW c \in Calls, AfterPublish(c) \/ CancelledInPublish(c)
  PROVE  IInv'
<1> USE Constants DEF IInv, settings, generators, shutdown, Alive
<1>1. /\ UNCHANGED <<backend, timeout, clock, phase, left, suspended, late, publish, deadline,
                     killAt, leftAt, draining, bus, database, reported>>
      /\ Alive /\ request[c] = "publishing" /\ SaveOrEnd(c)
  BY DEF AfterPublish, CancelledInPublish
<1>2. TypeOK'
  BY <1>1 DEF TypeOK, Running, SaveOrEnd
<1>3. Times'
  BY <1>1 DEF Times
<1>4. Order'
  BY <1>1 DEF TypeOK, Order, SaveOrEnd
<1>5. Saves'
  BY <1>1 DEF TypeOK, Saves, SaveOrEnd
<1>6. Suspensions'
  BY <1>1 DEF TypeOK, Suspensions, SaveOrEnd
<1> QED
  BY <1>2, <1>3, <1>4, <1>5, <1>6

\* A request ends with its save, or leaves it behind when it is cancelled.
LEMMA EndSaveIInv ==
  ASSUME IInv, NEW c \in Calls, EndSave(c) \/ CancelledInSave(c)
  PROVE  IInv'
<1> USE Constants DEF IInv, settings, generators, shutdown, Alive
<1>1. /\ UNCHANGED <<backend, timeout, clock, phase, suspended, late, publish, deadline,
                     killAt, leftAt, draining, bus, database, reported>>
      /\ Alive
      /\ request' = [request EXCEPT ![c] = "over"]
  BY DEF EndSave, CancelledInSave
<1>2. \/ save' = [save EXCEPT ![c] = "saved"] /\ left' = left
      \/ save' = save /\ left' = left \cup {c}
  BY DEF EndSave, CancelledInSave
<1>3. TypeOK'
  BY <1>1, <1>2 DEF TypeOK, Running
<1>4. Times'
  BY <1>1 DEF Times
<1>5. Order'
  BY <1>1 DEF TypeOK, Order
<1>6. Saves'
  BY <1>1, <1>2 DEF TypeOK, Saves
<1>7. Suspensions'
  BY <1>1, <1>2 DEF TypeOK, Suspensions, Saves, EndSave, CancelledInSave
<1> QED
  BY <1>3, <1>4, <1>5, <1>6, <1>7

----------------------------------------------------------------------------
(* The steps of the shutdown *)

\* The signal comes while bus and database are open.
LEMMA SigtermIInv == ASSUME IInv, Sigterm PROVE IInv'
<1> USE Constants DEF IInv, Sigterm, settings, generators, tasks, Alive
<1>1. TypeOK'
  BY DEF TypeOK, Running
<1>2. Times' /\ Order'
  BY DEF Times, Order, Accepting, Leaving
<1>3. Saves'
  BY DEF Saves
<1>4. Suspensions'
  BY DEF Suspensions
<1> QED
  BY <1>1, <1>2, <1>3, <1>4

\* The drain takes every publish that runs.
LEMMA ServerStopsIInv == ASSUME IInv, ServerStops PROVE IInv'
<1> USE Constants DEF IInv, ServerStops, settings, generators, tasks, Alive
<1>1. leftAt = None /\ phase' \in {"draining", "closing"}
  BY DEF Times, Accepting
<1>2. TypeOK'
  BY <1>1 DEF TypeOK, Running
<1>3. Times'
  BY <1>1 DEF TypeOK, Times, Accepting, Leaving
<1>4. Order'
  BY <1>1 DEF TypeOK, Order, Running, Accepting, Leaving
<1>5. Saves'
  BY <1>1 DEF Saves
<1>6. Suspensions'
  BY <1>1 DEF Suspensions
<1> QED
  BY <1>2, <1>3, <1>4, <1>5, <1>6

\* The drain ends within the grace period, with no publish left.
LEMMA DrainEndsIInv == ASSUME IInv, DrainEnds PROVE IInv'
<1> USE Constants DEF IInv, DrainEnds, Drains, settings, generators, tasks, Alive
<1>1. TypeOK'
  BY DEF TypeOK, Running
<1>2. Times'
  BY DEF Times, Accepting, Leaving
<1>3. Order'
  BY DEF TypeOK, Order, Running, Accepting, Leaving
<1>4. Saves'
  BY DEF Saves
<1>5. Suspensions'
  BY DEF Suspensions
<1> QED
  BY <1>1, <1>2, <1>3, <1>4, <1>5

\* What the grace period cuts still ran at its end, and began before its
\* beginning: its timeout is not shorter.
LEMMA GraceEndsIInv == ASSUME IInv, GraceEnds PROVE IInv'
<1> USE Constants DEF IInv, GraceEnds, Drains, settings, generators, Alive
<1>1. leftAt \in Nat /\ clock = leftAt + Grace
  BY DEF TypeOK, Times, DrainDue, Leaving
<1>2. \A c \in Calls \ late : publish[c] = "running" => timeout >= Grace
  BY <1>1 DEF TypeOK, Times, Running
<1>3. \A c \in Calls : \/ publish'[c] = publish[c] /\ (publish[c] = "running" => c \notin draining)
                       \/ publish'[c] = "cut" /\ publish[c] = "running" /\ c \in draining
  BY DEF Running
<1>4. \A c \in Calls \ late : publish'[c] # "running"
  BY <1>3 DEF Order
<1>5. reported' = 0
  <2>1. {c \in draining : publish'[c] = "running"} = {}
    BY <1>3 DEF TypeOK
  <2> QED
    BY <2>1, FS_EmptySet
<1>6. TypeOK'
  <2>1. publish' \in [Calls -> {"none", "running", "accepted", "refused", "cut"}]
    BY DEF TypeOK
  <2> QED
    BY <1>3, <1>5, <2>1 DEF TypeOK, Running
<1>7. Times'
  BY DEF Times, Accepting, Leaving
<1>8. Order'
  BY <1>4 DEF Order, Accepting, Leaving
<1>9. Saves'
  BY <1>2, <1>3 DEF Saves
<1>10. Suspensions'
  BY <1>3 DEF Suspensions
<1> QED
  BY <1>6, <1>7, <1>8, <1>9, <1>10

\* The bus is closed after the drain and the database after the bus.
LEMMA CloseIInv == ASSUME IInv, CloseBus \/ DisposeDatabase PROVE IInv'
<1> USE Constants DEF IInv, settings, generators, tasks, Alive
<1>1. /\ UNCHANGED <<backend, timeout, clock, request, left, suspended, late, publish, deadline, save,
                     killAt, leftAt, draining, reported>>
      /\ phase \in {"closing", "disposing"} /\ phase' = "disposing"
      /\ bus' \in {bus, "closed"} /\ database' \in {database, "disposed"}
  BY DEF CloseBus, DisposeDatabase
<1>2. TypeOK'
  BY <1>1 DEF TypeOK, Running
<1>3. Times' /\ Order'
  BY <1>1 DEF Times, Order, Accepting, Leaving
<1>4. Saves'
  BY <1>1 DEF Saves
<1>5. Suspensions'
  BY <1>1 DEF Suspensions
<1> QED
  BY <1>2, <1>3, <1>4, <1>5

\* Cutting leaves nothing running and cuts nothing else.
LEMMA CutOne ==
  ASSUME NEW task, NEW c \in Calls
  PROVE  /\ task[c] = "running" => Cut(task)[c] = "cut"
         /\ task[c] # "running" => Cut(task)[c] = task[c]
BY DEF Cut

\* The loop ends once all is closed, or the process is killed.
LEMMA EndIInv == ASSUME IInv, LoopEnds \/ Kill PROVE IInv'
<1> USE Constants DEF IInv, settings, generators, shutdown, Alive
<1>1. /\ UNCHANGED <<backend, timeout, clock, request, left, suspended, late, deadline,
                     killAt, leftAt, draining, bus, database, reported>>
      /\ publish' = Cut(publish) /\ save' = Cut(save)
      /\ phase' \in {"exited", "killed"} /\ (phase' = "exited" => phase = "disposing")
  BY DEF LoopEnds, Kill
<1>2. \A c \in Calls : publish'[c] # "running" /\ save'[c] # "running"
  BY <1>1, CutOne
<1>3. TypeOK'
  <2>1. /\ publish' \in [Calls -> {"none", "running", "accepted", "refused", "cut"}]
        /\ save' \in [Calls -> {"none", "running", "saved", "cut"}]
    BY <1>1 DEF TypeOK, Cut
  <2> QED
    BY <1>1, <1>2, <2>1 DEF TypeOK, Running
<1>4. Times'
  BY <1>1 DEF Times, Accepting, Leaving
<1>5. Order'
  BY <1>1, <1>2 DEF Order, Accepting, Leaving
<1>6. Saves'
  <2>1. SUFFICES ASSUME NEW c \in Calls
        PROVE /\ request[c] \in {"calling", "publishing"} => save'[c] = "none"
              /\ phase' = "exited" /\ save'[c] = "cut" => c \in left
              /\ phase' = "exited" /\ publish'[c] = "cut" => timeout >= Grace \/ c \in late
    BY <1>1, <1>2 DEF Saves
  <2>2. request[c] \in {"calling", "publishing"} => save'[c] = "none"
    BY <1>1, CutOne DEF Saves
  <2>3. phase' = "exited" =>
          (publish[c] # "running" \/ c \in late) /\ request[c] = "over" /\ save[c] # "cut"
    BY <1>1 DEF Order, Leaving, Saves
  <2>4. phase' = "exited" => publish'[c] = publish[c] \/ c \in late
    BY <1>1, <2>3, CutOne
  <2>5. phase' = "exited" /\ save'[c] = "cut" => save[c] = "running"
    BY <1>1, <2>3, CutOne
  <2> QED
    BY <1>1, <2>2, <2>3, <2>4, <2>5 DEF Saves
<1>7. Suspensions'
  BY <1>1, CutOne DEF Suspensions
<1> QED
  BY <1>3, <1>4, <1>5, <1>6, <1>7

\* The clock stops at every timer that is due.
LEMMA TickIInv == ASSUME IInv, Tick PROVE IInv'
<1> USE Constants DEF IInv, Tick, settings, generators, tasks, shutdown, Alive
<1>1. clock \in Nat /\ clock' = clock + 1 /\ clock' \in 0 .. MaxTime
  BY DEF TypeOK
<1>2. TypeOK'
  BY <1>1 DEF TypeOK, Running
<1>3. Times'
  <2>1. leftAt \in Nat \cup {None} /\ deadline \in [Calls -> Nat] /\ timeout \in Nat
    BY DEF TypeOK
  <2>2. leftAt # None => phase = "draining" /\ leftAt + Grace > clock
    BY DEF Times, Accepting, Drains, DrainDue
  <2> QED
    BY <1>1, <2>1, <2>2 DEF Times
<1>4. Order' /\ Saves' /\ Suspensions'
  BY DEF Order, Saves, Suspensions
<1> QED
  BY <1>2, <1>3, <1>4

\* Nothing happens.
LEMMA StutterIInv == ASSUME IInv, UNCHANGED vars PROVE IInv'
BY DEF IInv, TypeOK, Times, Order, Saves, Suspensions, Running, Alive, vars, settings, generators, tasks, shutdown

\* Every step keeps the invariant.
LEMMA NextIInv == IInv /\ [Next]_vars => IInv'
<1> SUFFICES ASSUME IInv, [Next]_vars PROVE IInv'
  OBVIOUS
<1>1. CASE \E c \in Calls : Step(c) \/ Cancellation(c)
  <2>1. PICK c \in Calls : Step(c) \/ Cancellation(c)
    BY <1>1
  <2> QED
    BY <2>1, StartPublishIInv, CloseGeneratorsIInv, CancelledInPutIInv, EndPublishIInv,
       SaveOrEndIInv, EndSaveIInv DEF Step, Cancellation
<1>2. CASE Sigterm \/ Shutdown \/ Kill
  BY <1>2, SigtermIInv, ServerStopsIInv, DrainEndsIInv, GraceEndsIInv, CloseIInv,
     EndIInv DEF Shutdown
<1>3. CASE Tick
  BY <1>3, TickIInv
<1>4. CASE UNCHANGED vars
  BY <1>4, StutterIInv
<1> QED
  BY <1>1, <1>2, <1>3, <1>4 DEF Next

\* The invariant always holds.
LEMMA Invariance == Spec => []IInv
BY InitIInv, NextIInv, PTL DEF Spec

\* Every variable keeps its type, no publish outlives its timeout, and nothing
\* runs in a process that has ended.
THEOREM TypeCorrect == Spec => []TypeOK
<1>1. IInv => TypeOK
  BY DEF IInv
<1> QED
  BY <1>1, Invariance, PTL

\* The bus outlives the publishes that began before the requests were over, and
\* a deploy costs an event or a partial reply only as NothingAwaitedIsCut says.
THEOREM NothingIsCut == Spec => []NothingAwaitedIsCut
<1>1. IInv => NothingAwaitedIsCut
  BY DEF IInv, Order, Saves, Suspensions, NothingAwaitedIsCut, TypeOK, Running, Alive,
         Accepting, Leaving
<1> QED
  BY <1>1, Invariance, PTL

\* Whoever is killed had a request under way, or was within the grace period.
THEOREM Prompt == Spec => []ShutdownIsPrompt
<1>1. IInv => ShutdownIsPrompt
  BY DEF IInv, Times, ShutdownIsPrompt
<1> QED
  BY <1>1, Invariance, PTL
=============================================================================
