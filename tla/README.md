# LLM Inference Logger: TLA+ specifications

A verification development of the repository's own logic: the write path that
carries one event per model call from the API to Postgres, the call itself, the
streamed chat turn around it, the conversation store that turns share, the
dashboard's readers, and the end of an API process. Modules are checked with
TLC on small instances; theorems are proved with TLAPS for every value of the
constants.

    tlc -config IngestSafety.cfg MCIngestion     # a run
    tlapm IngestionProofs.tla                    # a proof module

## 1. The system

A browser sends `POST /chat/stream`. The API process records the user's
message, routes the call to a provider, streams the reply through an
instrumentation wrapper and a bounded queue as SSE frames, records it, and
publishes one `InferenceEvent` to a Redis stream. Worker processes read the
stream through one consumer group and write `events_raw` and `inference_logs`,
which the dashboard reads.

| Component | State it keeps | Operations | Talks to | What is hard |
|---|---|---|---|---|
| Worker (`worker/consumer.py`, `__main__.py`) | stop flag, current batch | `run`, `_handle`, `_extract_id`, start and stop | Redis, Postgres | crashes between commands, a batch dropped half-way |
| Redis stream (`events/redis_bus.py`) | stream, group, pending entries, dead letters | `publish`, `poll`, `ack`, `dead_letter`, `ensure_group` | API, workers | duplicates, trimming, lost replies, several replicas |
| Log tables (`raw_events.py`, `inference_logs.py`, `models.py`) | rows, unique and foreign keys, checks | idempotent inserts, `mark_processed`, `mark_failed`, `list_recent` | worker, dashboard, deletion of conversations | redelivery, concurrent deletion |
| Wrapper (`instrumentation/wrapper.py`) | usage, time to first token, outcome, publishes in flight | `stream_chat`, `_classify`, `_record`, `_publish_resiliently`, `drain_pending_publishes` | provider, bus | five ways a stream ends, repeated cancellation |
| Providers (`providers/*`) | clients, routing table | `resolve_model`, `clamp_output_tokens`, `stream_chat` of each adapter | vendor APIs | usage in halves, usage beside text, failures in the middle |
| Chat services (`services/chat.py`) | collected text | `send`, `stream`, both transactions, `_persist_partial`, `recent_window` | repository, wrapper | a hang-up at any await, partial replies |
| SSE layer (`api/sse.py`, `api/chat.py`) | queue, producer task, watcher task | produce, drain, watch, tear down | chat service, client | the bounded queue, two sources of cancellation |
| Conversations (`db/repositories/conversations.py`, `api/conversations.py`) | conversations, messages, title, updated_at | create, append, history, title, delete | chat services | concurrent turns, row locks |
| Metrics (`api/metrics.py`, `db/repositories/metrics.py`) | none | aggregates, keyset pages, inferred health | log tables, dashboard | reads of a growing log, two clocks |
| Lifecycle (`main.py`) | database, bus, registry | acquire, drain, release | all | shutdown against work in flight |
| Redaction (`instrumentation/redaction.py`), health probes | none | `redact`, `preview`; liveness, readiness | wrapper, Postgres | text patterns |
| Frontend (`stream.ts`, `useStreamingChat.ts`, `ChatWindow.tsx`, dashboard) | frame buffer, turn state, controller | parse, send, stop, reset | API | stale turns, split frames |

What makes each correct: an acknowledged event is accounted for, has one
outcome and one log row (worker, stream, tables); a call loses no text, reports
the last usage it was given, and leaves one event with the status of its ending
(providers, wrapper); at most one stored reply, which covers what was seen
(chat service); legal frame order and no waiting for ever (SSE); dense
transcripts, no conflicts between turns (conversations); pages that skip
nothing and figures that add up (metrics); a shutdown that cuts nothing it
waits for and ends in time (lifecycle). The hazards behind these statements are
listed with their lines in `PROJECT.json`.

## 2. Modules

| Module | Models | Notes |
|---|---|---|
| `Ingestion` | publishers, Redis, workers, log tables, deletion | one action per command sent to a store |
| `Ledger` | what the pipeline promises about one event | abstract, implemented by `Ingestion` |
| `StreamTurn` | one streamed turn: producer, consumer, watcher, wrapper | one action per run of a task between two real waits |
| `FrameProtocol` | order of SSE frames | abstract, implemented by `StreamTurn` |
| `Transcript` | the transcript of a conversation: question, reply, deletion | abstract, implemented by `Conversations` |
| `RecentWindow` | `recent_window()` | a fold, and the reference definition `IsLongestAllowed` |
| `Conversations` | several turns on shared conversations, both transactions | one action per SQL statement; uses `RecentWindow` |
| `Routing` | the registry: providers, models, budgets | operators over one record of settings |
| `ModelCall` | one call: routing, vendor, adapter, wrapper, event | one action per vendor event; extends `Routing` |
| `Dashboard` | readers of the logs while workers write | one action per SELECT |
| `Lifespan` | the end of an API process with calls under way | one action per await; a clock whose timers fire when due |
| `Queries` | `ORDER BY` | rows by the number of rows before them; used by `Conversations` and `Dashboard` |
| `MC*` | the instances TLC checks | constants only |
| `*Proofs` | theorems about the module of that name | see section 5; `QueriesProofs` holds lemmas for two of them |

### Ingestion

`stream`, `trimmed`, `group`, `cursor` and `pel` are the Redis stream: an
entry's delivery id is its index, trimmed entries are a prefix, `cursor` is the
group's last-delivered id and `pel` its pending entries. `raw` and `logs` are
the committed rows, per event id; `pc` and `batch` are the workers. A
transaction is the points `recorded`, `upserted`, `failed`, `commit`; what it
wrote becomes visible with `CommitEvent`, and rows it inserted block other
inserters of the same id until it ends. `poll()` decodes its whole reply before
returning anything, so entries that are not JSON are diverted first
(`GarbledIn`). An event's payload is one of five kinds, each taking a branch of
its own through `_decode`, `_extract_id` and the schema. Trimming is
approximate (`MAXLEN ~`), so `Add` may trim any number of entries down to the
bound. Faults: a publish that times out with the entry added never, once or
twice; a worker killed or asked to stop; a Redis command that fails, or is
applied with its reply lost; a failing statement or an uncertain commit; a lost
group; a lost stream; a deleted conversation.

### StreamTurn

asyncio runs one task at a time, so an action of a task is everything up to the
next place it really waits: `queue.put()` on a full queue, the provider, the
shielded publish, a transaction. `ppc` names that place, `out` holds frames
still to be put before it, `cancel` is a `cancel()` not delivered yet. The
watcher and the consumer's clean-up both cancel; a cancelled response scope
cancels again and again (`CancelAgain`). The shielded publish and the shielded
partial save are tasks of their own (`begun`/`published`, `saving`). A generator
left suspended by a cancellation in `put()` is `abandoned` until it is
collected, and then ends with `GeneratorExit`.

### Conversations

Every statement of `_record_user_turn` and `_record_assistant_turn` is an
action: `require()` or `create()`, `SELECT ... FOR UPDATE`, `max(seq)`, the
insert, the touch of `updated_at`, `ensure_title`, the history, the commit.
Statements see what is committed (READ COMMITTED) and what their transaction
wrote. `start` is `now()`, which stands still within a transaction.
`locked` is the row lock of the conversation; inserts of one number wait for
each other, and deletion waits for rows locked through the foreign key. The
mapping to `Transcript`: a conversation's log is its committed messages in
`ORDER BY seq` (`Lines`), and a turn's stage says which of its two transactions
has committed (`Stage`), so that only the commits and the deletion are steps of
the abstract specification.

### ModelCall and Routing

`Resolve` is `resolve_model()` with the clamped budget. From there the vendor
is the environment: `VendorEvents` are the events its protocol allows next
(Anthropic's `message_start`, text, pings and cumulative `message_delta`; the
chunks of the OpenAI family, where text, usage and finish reason come in any
combination; the mock's words, its failing and its endless model).
`AnthropicChunk` and `OpenAIChunk` are the adapters, `Receive` the loop of the
wrapper's `stream_chat()` with `MergeUsage` and the time to first token, and
`Publish` its `finally`: `Classify`, the event, and the validation that accepts
or refuses it. `Storable` is the other side of that contract, the columns and
checks of `inference_logs`. An event that an adapter skips is a chunk that
carries nothing, which leaves no trace in the wrapper either.

### Dashboard

A call has `started` and `completed` on the API's clock and `ingested`, the
start of the worker's transaction, on the database's; `skew` is the difference.
Workers begin, commit and roll back in any order. The reader's `pc` is its next
SELECT: the pages of `/metrics/logs` follow their cursor to the end
(`RecentLogs`), `/metrics/summary` runs totals, series, providers and the three
statements of the health panel one after the other (`ReadTotals` ...
`ReadLag`), each over the rows committed by then, and `/metrics/errors` is a
page of failures. `Percentile` interpolates as `percentile_cont()` does and
rounds as the cast does; ties are broken by the call, which changes no value.
`seen` is history: the rows there when the request
began.

### Lifespan

`request`, `publish` and `save` say what each call's request, shielded publish
and shielded save are doing; `phase` is where the process is between SIGTERM
and its end. A call cancelled in `queue.put()` ends its request at once
(`CancelledInPut`) and leaves its generators suspended, since `produce()` does
not close them; `CloseGenerators` is their finalisation, which publishes at any
later time. `ServerStops` needs all requests to be over, which says nothing of
those generators; the drain takes the publishes there are then and waits for
them, for `Grace`. One that begins afterwards is `late`: nobody waits for it, it
may find the bus closed, and the process may end without it.
 `GraceEnds` is `asyncio.timeout()`
cancelling `gather()`, which cancels what it gathers before it ends; then bus,
database, and the event loop with every task left. `Kill` is the orchestrator's
SIGKILL. The in-memory bus accepts at once.

### How the modules compose

`Conversations` extends `RecentWindow`, `ModelCall` extends `Routing`, and the
two modules with sorted queries extend `Queries`;
`Ingestion`, `StreamTurn` and `Conversations` instantiate their abstract
specifications. The others meet at what they exchange. `StreamTurn` hands one event per call to the
bus, `ModelCall` says what is in it, `Ingestion` starts from a published event
and `Dashboard` from its row. `StreamTurn` is one turn against one client,
`Conversations` many turns against one database, `Lifespan` many calls against
the end of the process.

## 3. Runs

| Run | Shows | Bounds |
|---|---|---|
| `ingest_safety` | types, `AckedIsAccounted`, `OutcomesAgree`, `NoDanglingConversation`, `ExclusiveDelivery`, `LogRowsAreFinal`, `AcceptedIsKept`, and that `Ingestion` implements `Ledger` (`OneOutcome`) | a good event, one the schema rejects and a JSON array; 2 workers, batch 2, stream bound 2, any 2 faults of 6 kinds |
| `ingest_live` | every event on the stream gets its outcome (`Ingested`) when the group or the whole stream is lost and everything is delivered again | a good event, one without an id and one that is not JSON; publish, stop, group and stream faults, no trimming |
| `stream_safety` | `OneEventPerCall`, `AtMostOneReply`, `TranscriptCoversScreen`, `ClientIsToldTheTruth`, that the frames follow `FrameProtocol`, and that a client that stays is answered (`Answered`) | queue of 2, up to 3 chunks, every kind of failure |
| `stream_live` | `CallIsLogged`, `HangUpEndsTurn`, where the provider does not fail by itself | queue of 1, 3 chunks |
| `conversations` | dense numbers, no conflict, titles, that the turns implement `Transcript` (`KeepsTranscript`), the question ends the prompt, the prompt is the longest end allowed, `updated_at` is that of the newest message, and turns wait for rows and inserts only, never all of them (`SomeoneGoesOn`) | 3 turns on one conversation, which exists or is created by any one of them; window of 3 messages and 2 characters, one question and every reply larger than that; rollbacks, provider failures, deletions |
| `model_call` | `TextReachesTheUser`, `UsageIsAsReported`, `EveryEndingIsLogged`, `OfferedIsServed` | up to 4 vendor events, a mock reply of 3 words, 4 deployments, requests that name nothing, a known or an unknown provider and model, and a name longer than the column; a clock set back |
| `dashboard` | `PagesListWhatWasThere`, `SummaryAddsUp`, `FiguresAreOfCalls`, `StalledMeansSilence` | 3 calls in 4 orders, with ties and unmeasured failures; clock to 2; pages of 1 and 2, buckets of 1 and 2, the API's clock in step or 2 ahead |
| `lifespan` | `NothingAwaitedIsCut`, `ShutdownIsPrompt` | 2 calls, each ended or cancelled anywhere, finalised early, late or never, a publish timeout of 1 and of 4 against a grace of 2 and a patience of 4, clock to 7, both buses |

Why the bounds are enough: two workers and two faults produce every pairwise
race (a crash of one against a delivery to the other, a duplicate against a
redelivery), and a stream bound of 2 with 3 events, each possibly published
twice, makes trimming reach unread, pending and acknowledged entries. The queue
bound is smaller than the number of frames, so every wait in `put()` and every
full queue at the end happens; the real bound only makes the same states rarer.
Three turns are one more than a lock needs, so that one waits while another is
overtaken. Four vendor events are one of each kind in a row, and enough for
usage in halves, a half that is revised, and text after usage. Three rows are
a page, a tie across its edge and a row behind it; a clock of two steps puts a
row into the window, out of it and at its edge. Two calls in `Lifespan` are one
that the drain waits for while the other is still in its request; its clock
reaches past the kill of a SIGTERM that comes as late as 3.

Symmetry is used over workers, over calls in `Lifespan`, and over those turns
of `Conversations` that say messages of one size, in runs without liveness.
Deadlock is checked except where the model really stops: `dashboard`,
`model_call`, `lifespan` and `lifespan_drain` end with the request, the call
and the process, and in `stream_safety` and `stream_hang` the turn that waits
for ever (see below) is a state with no successor.

### Disagreements between code and text

Each of these runs checks one sentence of the repository and TLC finds a run of
the program that breaks it. `PROJECT.json` quotes the sentences.

| Run | What happens |
|---|---|
| `ingest_redelivery` | entries a dead worker, a failed transaction or a failing entry of their batch left pending are never claimed: `poll()` asks only for new ones |
| `ingest_delete` | an event whose conversation is deleted first is never logged |
| `stream_hang` | a partial save swallows the only cancellation; producer and clean-up wait for ever |
| `lifespan_drain` | the drain cancels the publishes it gives up and then counts those still pending, so it always reports that none was lost |

Smaller ones, in the models without a run of their own:

- The end marker is dropped on a full queue, and a consumer that drains the
  queue afterwards waits for ever (`NeverLeftWaiting` in `StreamTurn`, checkable
  with one more line in `StreamSafety.cfg`; `Answered` names the exception).
- A hang-up outside the provider loop loses text the user has seen
  (`SeenIsKept`), and a database error in the user turn leaves no terminal
  frame (`FailureIsReported`); both are defined there too. What holds instead is
  in `TranscriptCoversScreen` (text seen before the provider failed, or before a
  hang-up reached `stream()`, is stored unless the database refuses it) and in
  `ClientIsToldTheTruth` (a client is told when the provider fails, unless saving
  its text fails as well).
- The producer's cleanup does not always run "before the response is torn down"
  (`api/sse.py:112-114`): a call cancelled in `queue.put()` publishes when its
  generators are finalised. At a shutdown that may be behind the drain's
  snapshot (`wrapper.py:167`), with the bus closed, or never. The comment at
  `main.py:55-56` promises a publish in flight a live client;
  `BusOutlivesPublishes` in `Lifespan` states it and TLC refutes it.
- A partial reply whose request is cancelled again while it is being saved is
  lost when the process ends under the save: no shutdown waits for that task
  (`NothingAwaitedIsCut` names the exception).
- A JSON payload that is no object raises outside the validation branch
  (`Choke` in `Ingestion`) and strands its batch, which `ingest_redelivery`
  counts among the entries never claimed.
- The event of a call is refused by its own validation, and lost, when the wall
  clock steps back, when a model's name is longer than 128 characters, and when
  a vendor's error has no text (`EveryEndingIsLogged` names the three).
- Of two overlapping turns the later commit can turn `updated_at` back, since
  each transaction writes its own start time (what does hold is
  `NewestTouchedLast`).
- `now()` is the start of the reader's transaction, so `lag_seconds` can be
  slightly negative when a row is ingested meanwhile (`ReadLag`).
- The resources of `lifespan()` are acquired before its `try`
  (`main.py:41-48`), so that a failure during start-up closes none of the
  earlier ones, which the comment at `main.py:53-54` says it does. Start-up is
  the initial state here.

## 4. Fairness

- `Ingestion`: weak fairness of each worker's own steps, starting again
  included: `run()` loops until it is stopped, every command has a time limit,
  and the deployment restarts a worker. Publishing, deleting and faults are not
  fair. Strong fairness is not needed: a lock a worker waits for is held by a
  worker that goes on or is killed (`NoWorkerDeadlock`), and no sequence of steps
  of workers alone goes on for ever (`WorkersWearOut`).
- `StreamTurn`: weak fairness of the producer, the consumer, the watcher, the
  shielded tasks and the repeated cancellation: the event loop runs every task
  that can run, provider clients have time limits, and a cancelled scope does
  not give up. A client that is there goes on reading; nothing makes it leave.
  A turn cannot run for ever without an end (`TurnComesToAnEnd`), so what the
  runs with fairness add is that it does not stop before its end, except where
  `Answered` and `HangUpEndsTurn` say it does.
- `Conversations` states no fairness. Every step of a turn takes it nearer to
  its end (`TurnsWearOut`), so that turns end follows from `SomeoneGoesOn`, which
  also says that turns under way need nobody who has not started.
- `Lifespan` bounds waiting by its clock and needs none: `ShutdownIsPrompt` is
  safety. `ModelCall` and `Dashboard` are single requests that may stop
  anywhere, and promise nothing about ending.

## 5. Proofs

All in TLAPS, for any constants that satisfy the named assumptions.

`IngestionProofs` proves for every number of events, workers, faults, every
batch size and stream bound:

- `TypeCorrect`: `Spec => []TypeOK`, with `BusyHasBatch` (a worker that handles
  an entry has one), from which `Current(w)` is an entry that exists. That a
  non-empty set of ids has a least member is `LeastIsMember`.
- `AckedIsSafe`, `OneStory`, `NoDangling`: `AckedIsAccounted`, `OutcomesAgree`
  and `NoDanglingConversation`. None is inductive. `SafeInv` adds `Phase` (what
  the committed tables say at each point of a worker's transaction: only the
  phase a worker is in justifies its acknowledgement), `HoldsConversation` (the
  foreign key check keeps the conversation until the commit) and `SortedByKind`
  (only payloads that cannot be ingested are diverted). The argument: an outcome
  is never undone (`SettledStays`), so what was acknowledged stays accounted;
  only `CommitStep`, `DivertStep`, `AckBooks` and `DeleteStep` touch both sides.
- `RowsAreFinal`: the action property `LogRowsAreFinal`. Of a worker's steps
  only a commit writes a log row (`WorkerLogs`), and only where there is none;
  a deletion takes out the name of the conversation it deletes.

`LedgerProofs`:

- `OneOutcomeHolds`: `Spec => OneOutcome`, the refinement of `Ledger`. The
  auxiliary invariant `Unheard` says an event not published has left no trace;
  `Traces` lists what a step may do to the traces of an event, and each step of
  `Ingestion` maps to an edge of the ledger or to a stutter (`EdgeStep`).
- `DeliveryIsExclusive`: where the group and the stream are not lost, no two
  workers hold one entry.
- `NothingAcceptedIsLost`: `AcceptedIsKept`, that an event `publish()` reported
  as accepted has its outcome on record, or has an entry that waits on the stream (unread or
  pending), or its entry was overrun: trimmed after as many newer ones as the
  stream may hold, or lost with the stream. `Kept` says trimming leaves the
  newest entries; that an entry which is read and no longer pending has its
  outcome is `AckedIsAccounted`.
- `NoWorkerDeadlock`, `WorkersWearOut`: the safety behind `Ingested`. Behind a
  worker that waits for a row is another in its transaction that does not wait:
  who has updated a row waits for nothing, and who has only inserted can wait
  only for one that has updated. Every step of a worker lowers the measure
  `13 * Backlog + Load(w)`, what nobody has read and what the worker holds, and
  raises the load of no other. Its invariant `Restarts` says that the group's
  cursor is at the beginning whenever the group is missing, so that creating it
  gives nobody more to read.

`StreamTurnProofs`, for any queue, any number of chunks and any failures:

- `TypeCorrect`, `OneEvent`, `OneReplyAtMost`: `TypeOK`, `OneEventPerCall`,
  `AtMostOneReply`. The invariant `Turn` adds `Sending` (the consumer sends a
  frame it got), `Calling` (where the producer is, given whether the call is
  started, ended and published: a call without a status is under way or its
  generator is abandoned) and `Replying` (a reply exists only past the place
  that stores it, and not while a save runs).
- `FrameOrder`: `Spec => FollowsProtocol`, the refinement of `FrameProtocol`.
  What a client that reads will receive is a path of the protocol through three
  places: the frame being sent, the queue, and the frames still to be put.
  `Path` and `End` say so of a sequence, with lemmas about concatenating
  (`PathConcat`), cutting at the room there is (`PathCut`) and taking the head
  (`PathTail`). `Ordered` ties the end of that path to where the producer is
  (`start` or `delta` before another chunk, neither the marker nor a terminal
  frame while it goes on), and `Putting` says where frames can be left over.
  `PutThenOrdered` is the step that matters: frames may be cut anywhere by a
  full queue, or dropped by a cancellation, and what is queued is still a path.
- `ScreenIsCovered`, `ToldTheTruth`: `TranscriptCoversScreen` and
  `ClientIsToldTheTruth`. `OnTheWay` counts the frames of a kind in the places
  of that path, those received included. `Covering`: the text frames on the way
  are never more than the chunks collected, a stored reply is all of these, and
  a `done` is on the way only behind a reply that was stored complete.
  `Keeping` says what a failed or cancelled call leaves behind: once its event is
  handed over, text that was collected is in a save that was begun, and a save
  that succeeds has stored it. `Reporting` says that behind it the frame which
  tells of a provider's failure is still to be put, queued or received.
  `Staying`: as long as the client stays nothing cancels its turn and nothing
  that was put is lost, so all of it arrives. `Deciding`: how the call ended
  decides which frames and which reply come next.

- `TurnComesToAnEnd`: a turn takes at most `108 + 20 * MaxChunks` steps, whatever
  client, provider, database and cancellations do. `Effort` adds up how far the
  producer has to go, the frames still to be put, queued and sent, the consumer's
  place, and what the other tasks and the world can still do. It gives the
  producer enough for the frames of every place it passes, and each step that
  changes anything lowers the sum: `ProducerSpends`, `PersistSpends`, and
  `OtherSpends` for the consumer, the watcher, the shielded tasks and a repeated
  cancellation.

`ConversationsProofs`, for any number of turns and conversations, any sizes of
messages and any bounds of the window:

- `Dense`, `NoTurnFailsAnother`, `TitledByOpening`, `TouchedLast`:
  `TranscriptIsDense`, `NoConflict`, `TitleIsOpening`, `NewestTouchedLast`; and
  `RepliesFollow`, that a stored reply has a greater number than its question. One invariant carries them:
  `Locking` (whoever has inserted holds the row, and one that found no row to
  lock will find none) gives `Numbering` (who has read the next number and
  holds the row still has it), which excludes conflicts and gaps; `Birth` keeps
  a conversation that is not committed to its creator; `Questioned` keeps the
  question of a turn that goes on. A deletion empties all of them at once.
- `TranscriptIsKept`: `Spec => KeepsTranscript`, the refinement of `Transcript`.
  `Locking` and `Numbering` make the number a commit writes the greatest of its
  conversation, so that the sorted rows grow by one line at their end
  (`InOrderGrows`, from `OrderByGrows`: ranks of the rows that were there stay);
  `Questioned` puts the question into the transcript a reply is added to; the
  other statements stutter (`StepKeeps`), rollbacks give up or stutter.
- `KeptIsLongest`: for every history, the loop of `recent_window()` keeps the
  longest end within both bounds (`IsLongestAllowed`), and never nothing.
  `FoldsExist` and `FoldSteps` turn the fold into a sequence of states of the
  loop, `Knows` is the loop's invariant, and `EndsGrow` says that a longer end
  is no smaller, so that the loop is right to stop at the first message that
  does not fit.
- `ConversationsAreTyped`, `QuestionComesLast`, `WindowIsTheLongest`: `TypeOK`,
  `QuestionIsLast`, `WindowIsLongest`. The invariant `Sending` rests on
  `Locking` and `Numbering`: the turn's own message has the greatest number of
  all it reads (`HistoryEnds`), so `ORDER BY seq` puts it last (`NewestIsLast`),
  and as the row stays locked the history is still the same at the commit.
- `NoDeadlock`: `Spec => []NeverAllWait`, the part of `SomeoneGoesOn` that needs
  no ENABLED. Who waits, waits for a holder of a row (`WaitsForHolder`), and a
  holder waits for nothing (`HolderGoesOn`).
- `TurnsWearOut`: every statement leaves a turn fewer of at most 17 steps.

`QueriesProofs` holds what two proof modules need: a sum over a set is one of
its values added to the sum of the others, in any order (`SumAdds`), sums are
monotone (`SumGrows`), a sum over groups is the sum over rows (`SumOfGroups`),
and a list made by `ORDER BY` has each row once and in order (`OrderByLists`).
The operators of the community modules behind a sum or a fold are recursive
functions chosen to satisfy an equation; that one exists is proved
(`SumsExist`), by a smallest set for which it would not. `ORDER BY` is defined
by the rank of a row, the number of rows before it, which needs no recursion;
that ranks are taken once each is `OneRowPerRank`. A row above all others is
added at the end of the list (`OrderByGrows`).

`DashboardProofs`, for any set of calls, any clocks, windows, widths and page
sizes:

- `DashboardIsTyped`, `PagesAreComplete`, `PanelsAddUp`, `FiguresAreTrue`,
  `StalledIsSilence`: `TypeOK`, `PagesListWhatWasThere`, `SummaryAddsUp`,
  `FiguresAreOfCalls`, `StalledMeansSilence`; `FiguresAreTrue` joins
  `BucketsAreOfCalls` and `PercentilesAreMeasured`, its two halves. Rows are written between any
  two SELECTs, so no figure equals what its query would say now. The invariant
  says of each figure that it is that of some set of rows between those that
  were there when the request began (`seen`) and those that are there now, and
  that the sets of later figures contain those of earlier ones; `Paging` says of
  the pages that what is listed is all that `seen` has before the cursor. The
  properties follow from monotone sums, from `SumOfGroups`, and from the order
  in which the rows of a percentile are listed.

`ModelCallProofs`, for any settings, requests and number of vendor events:

- `TypeCorrect`, `NoTextIsLost`, `UsageIsExact`: with `Stamped` (a text is told
  apart by its event) the invariant is inductive; `AdapterKeepsAll` says every
  adapter's chunk carries all that its event did.
- `PickerNeverLies`: `OfferedIsServed`, from `Routed`, which says in terms of
  the request what the routing decided. `EndingsAreLogged`:
  `EveryEndingIsLogged`, from `Caught`, the endings and exceptions there are.

`LifespanProofs`, for any number of calls and any limits:

- `TypeCorrect`, `NothingIsCut`, `Prompt`: `TypeOK`, `NothingAwaitedIsCut`,
  `ShutdownIsPrompt`. `Times` bounds the clock by the grace period, and every
  deadline by the time its request ended unless its publish is late; `Order`
  says requests are over before the drain, and publishes that are not late
  before the bus is closed; `Suspensions` says that a call which has not
  published when its request is over has generators left behind; `Saves` says
  which saves nobody waits for.

All invariants and safety action properties that a passing run checks are
proved, and the three refinements, with one exception. Only model-checked: the
properties under fairness (`Ingested`, `CallIsLogged`, `HangUpEndsTurn`,
`Answered`), and the part of `SomeoneGoesOn` that says a turn which does not wait
can go on, which is about ENABLED: the prover supports neither. What is proved of
them is the safety they rest on: measures that steps lower, and that somebody
among those who wait does not. `Ingested` speaks of every event on the stream;
that an accepted event gets to it and is not forgotten there is
`AcceptedIsKept`. Two definitions were put
differently to be reasoned about, with the same meaning: a sort is an `OrderBy`,
and the size of an end of the history a sum over its positions. A third was
wrong: the order of the rows of a percentile was not total where two calls took
the same time, and nothing said how the sort broke the tie.

## 6. Abstractions

- Text, ids and times are members of small sets; a message is its author's turn,
  its role and its number; a text in `ModelCall` is the event that brought it.
  Redaction, previews and provider metadata are left out.
- Redis and Postgres are the commands the code sends, with the answers they may
  give. A stream entry is never altered; memory limits and replication are not
  modelled.
- One streamed turn is modelled at a time; turns meet in `Conversations`, where
  a turn is its two transactions and a partial reply is a reply.
- The dead-letter stream keeps what is added to it; its cap of about 10,000
  entries, past which a payload without an id is kept nowhere, is not modelled.
- `"db"` in `StreamTurn` fails a whole transaction, in `Conversations` any
  statement of it. A failed commit that was applied is modelled in `Ingestion`
  only.
- In `Dashboard` the world stops when the request is answered: what is written
  later is for the next request. A log row stands for its raw row as well, and
  latency is computed as time to first token is, which stands for both.
- In `Lifespan` the end of the process is one step (`LoopEnds`) that cuts every
  task and leaves suspended generators unfinished. Which of them an event loop
  that shuts down in order would still cancel or finalise depends on how the
  server ends the process; after the bus is closed it makes no difference to
  what the properties promise.
- In `Lifespan` closing bus and database takes no time, so that a kill falls
  into a request, into the drain, or at their ends; a timer fires when it is due.
- Token counts have no upper limit: a count beyond the 32 bits of its column, and
  a NUL character in a text, which Postgres does not store, are not modelled.
- `complete()` of a provider joins the chunks of the same stream and keeps the
  last usage object whole, so that the input tokens of an Anthropic reply are
  lost in what it returns; nothing in the repository reads them there.

## 7. Not modelled, and what comes next

Not modelled, and why:

- The browser. Whether a late callback of one turn writes into another's screen,
  whether an echo is hidden and which effect consumes a guard are questions
  about when React flushes state and runs effects, which no line of the
  repository fixes. The frame parser appends and cuts at a delimiter; a model
  would restate that with bytes.
- Redaction: regular expressions over text. Health probes: one answers, one runs
  `SELECT 1`.
- The translation of messages to a vendor's form and the settings that reach no
  decision modelled here: data.
- Whether the session of a request commits before or after its response is sent
  (`api/deps.py`): decided by the version of the web framework.
- The list of conversations and `set_status`: one statement each.
- What the in-memory bus keeps: a list that only tests read.
- Deployment files, which only justify restarts and several replicas.

Written so far, in this order: `Ledger`, `Ingestion` and their proofs;
`FrameProtocol`, `StreamTurn`; `RecentWindow`, `Conversations`; `Dashboard`;
`Routing`, `ModelCall`; `Lifespan`; the proofs of `ModelCall`, `Lifespan`,
`Conversations` and `StreamTurn`; `Queries` and the proofs of `Dashboard`;
`Transcript` and its refinement, and the measures of workers and turns.

What could come next: how long a shutdown of several workers takes, as `Lifespan`
does for the API; a composition of `StreamTurn` with `Conversations`, so that the
partial save of one turn meets the locks of another; and a prover that takes
fairness, for which the measures above are the hard part.
