------------------------------ MODULE Lifespan ------------------------------
(***************************************************************************)
(* The end of an API process: a rolling deploy sends SIGTERM while calls   *)
(* end, their events are being published and partial replies saved.  The   *)
(* server waits for the requests, lifespan() drains the publishes that     *)
(* outlived theirs, closes the bus and then the database, and the process  *)
(* takes with it whatever is left.  A call whose turn was cancelled in     *)
(* queue.put() publishes when its generators are finalised, which no       *)
(* request and no shutdown waits for.  The orchestrator kills the process  *)
(* when it takes too long.                                                 *)
(*                                                                         *)
(* Timers of the event loop fire when they are due: the clock does not go  *)
(* past one.                                                               *)
(***************************************************************************)
EXTENDS Integers, FiniteSets

CONSTANTS
  Calls,      \* model calls under way
  Grace,      \* grace_seconds
  Timeouts,   \* event_publish_timeout_ms, in the unit of the clock
  KillAfter,  \* the orchestrator's patience after SIGTERM
  MaxTime,    \* the clock stops here
  None

ASSUME LifespanAssumption ==
  /\ Timeouts \subseteq Nat \ {0}
  /\ {Grace, KillAfter, MaxTime} \subseteq Nat
  /\ None \notin Nat

VARIABLES
  backend, timeout,   \* settings
  clock,
  phase,     \* serving, stopping, draining, closing, disposing, exited, killed
  request,   \* what the request of a call is doing
  left,      \* requests cancelled while they waited for the save
  suspended, \* calls whose generators a cancellation in put() left behind
  late,      \* history: calls that published when the requests were over
  publish,   \* the publish task of a call's event
  deadline,  \* when its timeout expires
  save,      \* the task that saves its partial reply
  killAt,    \* when the orchestrator loses patience
  leftAt,    \* history: when the last request was over
  draining,  \* the publishes the drain waits for
  bus, database,
  reported   \* what drain_pending_publishes() returned

settings == <<backend, timeout>>
generators == <<suspended, late>>
tasks == <<request, left, generators, publish, deadline, save>>
shutdown == <<killAt, leftAt, draining, bus, database, reported>>
vars == <<settings, clock, phase, tasks, shutdown>>

Running(task) == {c \in Calls : task[c] = "running"}
Alive == phase \notin {"exited", "killed"}
Drains == phase = "draining"

----------------------------------------------------------------------------
(* Calls that end: _publish_resiliently() and _persist_partial() *)

\* publish() of the two buses: in memory the event is there at once.
Begun == IF backend = "memory" THEN "accepted" ELSE "running"

\* The event is published in a task of its own.
BeginPublish(c) ==
  /\ publish' = [publish EXCEPT ![c] = Begun]
  /\ deadline' = [deadline EXCEPT ![c] = clock + timeout]

StartPublish(c) ==
  /\ Alive /\ request[c] = "calling"
  /\ request' = [request EXCEPT ![c] = "publishing"]
  /\ BeginPublish(c)
  /\ UNCHANGED <<settings, clock, phase, left, generators, save, shutdown>>

\* Cancelled in queue.put(), produce() ends and with it the request, and the
\* generators stay suspended where they yielded.
CancelledInPut(c) ==
  /\ Alive /\ request[c] = "calling"
  /\ request' = [request EXCEPT ![c] = "over"]
  /\ suspended' = suspended \cup {c}
  /\ UNCHANGED <<settings, clock, phase, left, late, publish, deadline, save, shutdown>>

\* They are finalised at any time, in tasks of the event loop: the wrapper gets
\* GeneratorExit and publishes.
CloseGenerators(c) ==
  /\ Alive /\ c \in suspended
  /\ suspended' = suspended \ {c}
  /\ late' = IF leftAt = None THEN late ELSE late \cup {c}
  /\ BeginPublish(c)
  /\ UNCHANGED <<settings, clock, phase, request, left, save, shutdown>>

\* XADD succeeds, or fails, or takes too long and is given up.
EndPublish(c) ==
  /\ Alive /\ publish[c] = "running"
  /\ \E outcome \in {"accepted", "refused"} : publish' = [publish EXCEPT ![c] = outcome]
  /\ UNCHANGED <<settings, clock, phase, request, left, generators, deadline, save, shutdown>>

PublishTimesOut(c) ==
  /\ Alive /\ publish[c] = "running" /\ clock = deadline[c]
  /\ publish' = [publish EXCEPT ![c] = "refused"]
  /\ UNCHANGED <<settings, clock, phase, request, left, generators, deadline, save, shutdown>>

\* The request is over, or first saves what the user has read.
SaveOrEnd(c) ==
  \/ request' = [request EXCEPT ![c] = "over"] /\ UNCHANGED save
  \/ /\ request' = [request EXCEPT ![c] = "saving"]
     /\ save' = [save EXCEPT ![c] = "running"]

AfterPublish(c) ==
  /\ Alive /\ request[c] = "publishing" /\ publish[c] # "running"
  /\ SaveOrEnd(c)
  /\ UNCHANGED <<settings, clock, phase, left, generators, publish, deadline, shutdown>>

\* The save ends, and with it the request that waits for it.
EndSave(c) ==
  /\ Alive /\ save[c] = "running"
  /\ save' = [save EXCEPT ![c] = "saved"]
  /\ request' = [request EXCEPT ![c] = "over"]
  /\ UNCHANGED <<settings, clock, phase, left, generators, publish, deadline, shutdown>>

\* A cancellation ends the wait, and the shielded task goes on.
CancelledInPublish(c) ==
  /\ Alive /\ request[c] = "publishing" /\ publish[c] = "running"
  /\ SaveOrEnd(c)
  /\ UNCHANGED <<settings, clock, phase, left, generators, publish, deadline, shutdown>>

CancelledInSave(c) ==
  /\ Alive /\ request[c] = "saving"
  /\ request' = [request EXCEPT ![c] = "over"]
  /\ left' = left \cup {c}
  /\ UNCHANGED <<settings, clock, phase, generators, publish, deadline, save, shutdown>>

----------------------------------------------------------------------------
(* Shutdown *)

Sigterm ==
  /\ phase = "serving"
  /\ phase' = "stopping"
  /\ killAt' = clock + KillAfter
  /\ UNCHANGED <<settings, clock, tasks, leftAt, draining, bus, database, reported>>

\* Mutant: the bus is closed first.
ServerStopsUndrained ==
  /\ phase = "stopping" /\ \A c \in Calls : request[c] = "over"
  /\ leftAt' = clock
  /\ phase' = "closing" /\ reported' = 0
  /\ UNCHANGED <<settings, clock, tasks, killAt, draining, bus, database>>

\* The server is done with its requests; the drain takes the publishes that
\* run then, and no later ones.
ServerStops ==
  /\ phase = "stopping" /\ \A c \in Calls : request[c] = "over"
  /\ leftAt' = clock
  /\ draining' = Running(publish)
  /\ IF draining' = {} THEN phase' = "closing" /\ reported' = 0
     ELSE phase' = "draining" /\ UNCHANGED reported
  /\ UNCHANGED <<settings, clock, tasks, killAt, bus, database>>

\* Mutant: gather() without a timeout.
NoGrace == MaxTime + 1

\* asyncio.timeout(grace_seconds)
DrainDue == leftAt + Grace

DrainEnds ==
  /\ Drains /\ draining \cap Running(publish) = {}
  /\ phase' = "closing" /\ reported' = 0
  /\ UNCHANGED <<settings, clock, tasks, killAt, leftAt, draining, bus, database>>

\* The timeout cancels gather(), which cancels what it gathers and waits for
\* it; then the tasks not yet done are counted.
GraceEnds ==
  /\ Drains /\ clock = DrainDue
  /\ publish' = [c \in Calls |-> IF c \in draining \cap Running(publish) THEN "cut" ELSE publish[c]]
  /\ reported' = Cardinality({c \in draining : publish'[c] = "running"})
  /\ phase' = "closing"
  /\ UNCHANGED <<settings, clock, request, left, generators, deadline, save, killAt, leftAt,
                 draining, bus, database>>

CloseBus ==
  /\ phase = "closing"
  /\ bus' = "closed" /\ phase' = "disposing"
  /\ UNCHANGED <<settings, clock, tasks, killAt, leftAt, draining, database, reported>>

\* dispose() leaves connections in use alone.
DisposeDatabase ==
  /\ phase = "disposing" /\ database = "open"
  /\ database' = "disposed"
  /\ UNCHANGED <<settings, clock, phase, tasks, killAt, leftAt, draining, bus, reported>>

\* Mutant: tasks are left running.
KeepRunning(task) == task

Cut(task) == [c \in Calls |-> IF task[c] = "running" THEN "cut" ELSE task[c]]

\* The process ends with every task there still is.
LoopEnds ==
  /\ database = "disposed" /\ phase = "disposing"
  /\ phase' = "exited"
  /\ publish' = Cut(publish) /\ save' = Cut(save)
  /\ UNCHANGED <<settings, clock, request, left, generators, deadline, shutdown>>

Kill ==
  /\ Alive /\ killAt # None /\ clock = killAt
  /\ phase' = "killed"
  /\ publish' = Cut(publish) /\ save' = Cut(save)
  /\ UNCHANGED <<settings, clock, request, left, generators, deadline, shutdown>>

----------------------------------------------------------------------------
(* Time *)

\* Closing takes no time.
Tick ==
  /\ phase \in {"serving", "stopping", "draining"} /\ clock < MaxTime
  /\ killAt # clock
  /\ \A c \in Running(publish) : deadline[c] > clock
  /\ Drains => DrainDue > clock
  /\ clock' = clock + 1
  /\ UNCHANGED <<settings, phase, tasks, shutdown>>

Init ==
  /\ backend \in {"redis", "memory"} /\ timeout \in Timeouts
  /\ clock = 0 /\ phase = "serving"
  /\ request = [c \in Calls |-> "calling"] /\ left = {}
  /\ suspended = {} /\ late = {}
  /\ publish = [c \in Calls |-> "none"] /\ deadline = [c \in Calls |-> 0]
  /\ save = [c \in Calls |-> "none"]
  /\ killAt = None /\ leftAt = None /\ draining = {}
  /\ bus = "open" /\ database = "open" /\ reported = None

Step(c) ==
  \/ StartPublish(c) \/ EndPublish(c) \/ PublishTimesOut(c)
  \/ AfterPublish(c) \/ EndSave(c) \/ CloseGenerators(c)

Cancellation(c) == CancelledInPut(c) \/ CancelledInPublish(c) \/ CancelledInSave(c)

Shutdown == ServerStops \/ DrainEnds \/ GraceEnds \/ CloseBus \/ DisposeDatabase \/ LoopEnds

Next ==
  \/ \E c \in Calls : Step(c) \/ Cancellation(c)
  \/ Sigterm \/ Shutdown \/ Kill
  \/ Tick

Spec == Init /\ [][Next]_vars

----------------------------------------------------------------------------
(* Properties *)

\* Every variable keeps its type; a publish runs for its timeout at most, and
\* nothing runs in a process that has ended.
TypeOK ==
  /\ backend \in {"redis", "memory"} /\ timeout \in Timeouts /\ clock \in 0 .. MaxTime
  /\ phase \in {"serving", "stopping", "draining", "closing", "disposing", "exited", "killed"}
  /\ request \in [Calls -> {"calling", "publishing", "saving", "over"}]
  /\ {left, suspended, late, draining} \subseteq SUBSET Calls
  /\ publish \in [Calls -> {"none", "running", "accepted", "refused", "cut"}]
  /\ save \in [Calls -> {"none", "running", "saved", "cut"}]
  /\ deadline \in [Calls -> Nat]
  /\ \A c \in Running(publish) : clock <= deadline[c]
  /\ {killAt, leftAt, reported} \subseteq Nat \cup {None}
  /\ bus \in {"open", "closed"} /\ database \in {"open", "disposed"}
  /\ ~Alive => Running(publish) \cup Running(save) = {}

\* "A shielded publish still in flight needs a live client to finish on": what
\* still runs when the bus is closed began after the requests were over.  Short
\* of a kill, the event of a call is lost only if a publish may take longer than
\* the grace period, or if its generators were left behind by a cancellation in
\* put() and finalised too late or never; a partial reply is lost only if its
\* request was cancelled while it was being saved (lifespan,
\* drain_pending_publishes, _persist_partial, produce).
NothingAwaitedIsCut ==
  /\ Alive /\ bus = "closed" => Running(publish) \subseteq late
  /\ phase # "killed" => \A c \in Calls :
       /\ publish[c] = "cut" => timeout >= Grace \/ c \in late
       /\ save[c] = "cut" => c \in left
  /\ phase = "exited" => \A c \in Calls : publish[c] = "none" => c \in suspended

\* "Bounded, because shutdown must not hang [...] until Kubernetes escalates to
\* SIGKILL": a process is killed only while a request is under way, or within
\* the grace period after the last one (drain_pending_publishes).
ShutdownIsPrompt == phase = "killed" => leftAt = None \/ clock <= leftAt + Grace

----------------------------------------------------------------------------
(* What the comments say, and the code does not do *)

\* "Returns how many were lost": the drain reports the publishes it gave up.
\* It cancels them itself, so none is ever counted.
DrainCountsLost ==
  phase \in {"closing", "disposing"} =>
    reported = Cardinality({c \in draining : publish[c] = "cut"})

\* "Awaited so the producer's own cleanup [...] actually runs before the
\* response is torn down" (api/sse.py), "before closing the bus" (main.py): a
\* publish that begins late finds the bus closed, or is still running then.
BusOutlivesPublishes == Alive /\ bus = "closed" => Running(publish) = {}

=============================================================================
