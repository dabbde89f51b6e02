--------------------------- MODULE Conversations ----------------------------
(***************************************************************************)
(* Chat turns of several requests on shared conversations.  A turn is two  *)
(* transactions with the provider call between them: the first records     *)
(* what the user said and reads back the history to send upstream, the     *)
(* second records the reply.  Both append through append_message().        *)
(*                                                                         *)
(* PostgreSQL runs at READ COMMITTED: every statement sees what is         *)
(* committed when it starts and what its own transaction wrote.  One       *)
(* action of a turn is one statement; what a transaction wrote reaches the *)
(* variables of the database when it commits.                              *)
(***************************************************************************)
EXTENDS RecentWindow, Queries

CONSTANTS
  Turns,     \* requests to POST /chat or POST /chat/stream
  Convs,     \* conversations
  ConvOf,    \* the conversation a turn belongs to
  NoTurn,    \* SQL NULL, and the owner of a lock nobody holds
  Length,    \* the size of what the user says and of what is replied
  Failures   \* which failures the environment has

Roles == {"user", "assistant"}
FailureKinds == {"db", "provider", "delete"}

ASSUME TurnAssumption ==
  /\ ConvOf \in [Turns -> Convs]
  /\ NoTurn \notin Turns
  /\ Length \in [Turns \X Roles -> Nat]
  /\ Failures \subseteq FailureKinds

VARIABLES
  opener,    \* the turn sent without a conversation id, which creates it
  exists,    \* conversations committed and not deleted
  messages,  \* committed messages of each conversation
  title,     \* the turn a conversation's title is derived from
  updated,   \* conversations.updated_at
  locked,    \* the turn whose transaction holds the conversation's row
  clock,     \* starts of transactions, in order
  pc,        \* the next statement of a turn
  role,      \* whose message the current transaction appends
  start,     \* now() of the current transaction
  seq,       \* next_seq, as read
  sent       \* the history sent upstream

database == <<exists, messages, title, updated>>
locals   == <<role, start, seq, sent>>
vars     == <<opener, database, locked, clock, pc, locals>>

Message == [seq : Nat, turn : Turns, role : Roles, at : Nat]

Conv(t) == ConvOf[t]
Own(t) == [seq |-> seq[t], turn |-> t, role |-> role[t], at |-> start[t]]
Goto(t, p) == pc' = [pc EXCEPT ![t] = p]

\* The points at which the transaction holds an uncommitted message.
HasInserted(t) == pc[t] \in {"touch", "title", "history", "commit"}
InTransaction(t) == HasInserted(t) \/ pc[t] \in {"lock", "seq", "insert"}

\* Mutant: ORDER BY created_at.
InStartOrder(S) == OrderBy(S, {p \in S \X S : p[1].at < p[2].at})

\* SELECT ... ORDER BY seq.
InOrder(S) == OrderBy(S, {p \in S \X S : p[1].seq < p[2].seq})
SizesOf(history) == [i \in DOMAIN history |-> Length[<<history[i].turn, history[i].role>>]]

\* recent_window() of the messages.
Window(history) == End(history, Kept(SizesOf(history)))

\* The start of a transaction: now() stands still from here on.
StartTransaction(t) ==
  /\ start' = [start EXCEPT ![t] = clock]
  /\ clock' = clock + 1

\* Mutant: connections go back to the pool with their transaction open.
KeepLocks(t) == UNCHANGED locked

\* The end of a transaction releases its locks.
ReleaseLocks(t) == locked' = [c \in Convs |-> IF locked[c] = t THEN NoTurn ELSE locked[c]]

----------------------------------------------------------------------------
(* The first transaction: _record_user_turn *)

\* require(): 404, or go on.
Require(t) ==
  /\ pc[t] = "idle" /\ opener[Conv(t)] # t
  /\ StartTransaction(t)
  /\ Goto(t, IF Conv(t) \in exists THEN "lock" ELSE "failed")
  /\ UNCHANGED <<opener, database, locked, role, seq, sent>>

\* create(): the new row is nobody else's to see before the commit.
Create(t) ==
  /\ pc[t] = "idle" /\ opener[Conv(t)] = t
  /\ StartTransaction(t)
  /\ locked' = [locked EXCEPT ![Conv(t)] = t]
  /\ Goto(t, "lock")
  /\ UNCHANGED <<opener, database, role, seq, sent>>

----------------------------------------------------------------------------
(* append_message *)

\* Mutant: no FOR UPDATE.
LockNothing(t) ==
  /\ pc[t] = "lock"
  /\ Goto(t, "seq")
  /\ UNCHANGED <<opener, database, locked, clock, locals>>

\* SELECT ... FOR UPDATE waits for the row, and finds none that was deleted.
Lock(t) ==
  /\ pc[t] = "lock"
  /\ locked[Conv(t)] \in {NoTurn, t}
  /\ locked' = IF Conv(t) \in exists THEN [locked EXCEPT ![Conv(t)] = t] ELSE locked
  /\ Goto(t, "seq")
  /\ UNCHANGED <<opener, database, clock, locals>>

\* Mutant: coalesce(max(seq), 0) + 1.
ReadSeqFromOne(t) ==
  LET taken == {m.seq : m \in messages[Conv(t)]} IN
  /\ pc[t] = "seq"
  /\ seq' = [seq EXCEPT ![t] = IF taken = {} THEN 1 ELSE Max(taken) + 1]
  /\ Goto(t, "insert")
  /\ UNCHANGED <<opener, database, locked, clock, role, start, sent>>

\* SELECT coalesce(max(seq), -1) + 1.
ReadSeq(t) ==
  LET taken == {m.seq : m \in messages[Conv(t)]} IN
  /\ pc[t] = "seq"
  /\ seq' = [seq EXCEPT ![t] = IF taken = {} THEN 0 ELSE Max(taken) + 1]
  /\ Goto(t, "insert")
  /\ UNCHANGED <<opener, database, locked, clock, role, start, sent>>

Taken(t) == \E m \in messages[Conv(t)] : m.seq = seq[t]
HasParent(t) == Conv(t) \in exists \/ locked[Conv(t)] = t

\* INSERT INTO messages waits for an uncommitted message with its seq.
Insert(t) ==
  /\ pc[t] = "insert"
  /\ HasParent(t) /\ ~Taken(t)
  /\ \A u \in Turns \ {t} : HasInserted(u) /\ Conv(u) = Conv(t) => seq[u] # seq[t]
  /\ Goto(t, "touch")
  /\ UNCHANGED <<opener, database, locked, clock, locals>>

\* The unique constraint, or the foreign key, fails: the transaction rolls
\* back and the request ends in an error.
InsertFails(t) ==
  /\ pc[t] = "insert"
  /\ ~HasParent(t) \/ Taken(t)
  /\ Goto(t, IF HasParent(t) THEN "conflict" ELSE "failed")
  /\ ReleaseLocks(t)
  /\ UNCHANGED <<opener, database, clock, locals>>

\* UPDATE conversations SET updated_at = now().
Touch(t) ==
  /\ pc[t] = "touch"
  /\ locked[Conv(t)] \in {NoTurn, t}
  /\ locked' = [locked EXCEPT ![Conv(t)] = t]
  /\ Goto(t, IF role[t] = "user" THEN "title" ELSE "commit")
  /\ UNCHANGED <<opener, database, clock, locals>>

----------------------------------------------------------------------------
(* The rest of the first transaction, and both commits *)

\* ensure_title(): UPDATE ... WHERE title IS NULL.
EnsureTitle(t) ==
  /\ pc[t] = "title"
  /\ Goto(t, "history")
  /\ UNCHANGED <<opener, database, locked, clock, locals>>

ReadHistory(t) ==
  /\ pc[t] = "history"
  /\ sent' = [sent EXCEPT ![t] = Window(InOrder(messages[Conv(t)] \cup {Own(t)}))]
  /\ Goto(t, "commit")
  /\ UNCHANGED <<opener, database, locked, clock, role, start, seq>>

\* Mutant: ensure_title() without its IS NULL.
Retitle(t) == title' = [title EXCEPT ![Conv(t)] = IF role[t] = "user" THEN t ELSE @]

SetTitle(t) ==
  title' = [title EXCEPT ![Conv(t)] = IF role[t] = "user" /\ @ = NoTurn THEN t ELSE @]

\* Mutant: a reply leaves updated_at alone.
CommitUntouched(t) ==
  /\ pc[t] = "commit"
  /\ exists' = exists \cup {Conv(t)}
  /\ messages' = [messages EXCEPT ![Conv(t)] = @ \cup {Own(t)}]
  /\ updated' = [updated EXCEPT ![Conv(t)] = IF role[t] = "user" THEN start[t] ELSE @]
  /\ SetTitle(t)
  /\ ReleaseLocks(t)
  /\ Goto(t, IF role[t] = "user" THEN "calling" ELSE "done")
  /\ UNCHANGED <<opener, clock, locals>>

Commit(t) ==
  /\ pc[t] = "commit"
  /\ exists' = exists \cup {Conv(t)}
  /\ messages' = [messages EXCEPT ![Conv(t)] = @ \cup {Own(t)}]
  /\ updated' = [updated EXCEPT ![Conv(t)] = start[t]]
  /\ SetTitle(t)
  /\ ReleaseLocks(t)
  /\ Goto(t, IF role[t] = "user" THEN "calling" ELSE "done")
  /\ UNCHANGED <<opener, clock, locals>>

----------------------------------------------------------------------------
(* The provider call, and the second transaction *)

\* Mutant: a turn goes on although its first transaction failed.
AnswerEarly(t) ==
  /\ pc[t] \in {"calling", "failed"} /\ role[t] = "user"
  /\ StartTransaction(t)
  /\ role' = [role EXCEPT ![t] = "assistant"]
  /\ Goto(t, "lock")
  /\ UNCHANGED <<opener, database, locked, seq, sent>>

\* A reply, whole or partial, is recorded.
Answer(t) ==
  /\ pc[t] = "calling"
  /\ StartTransaction(t)
  /\ role' = [role EXCEPT ![t] = "assistant"]
  /\ Goto(t, "lock")
  /\ UNCHANGED <<opener, database, locked, seq, sent>>

\* The provider fails, or the client hangs up, before there is any text.
NoAnswer(t) ==
  /\ pc[t] = "calling" /\ "provider" \in Failures
  /\ Goto(t, "failed")
  /\ UNCHANGED <<opener, database, locked, clock, locals>>

\* Any statement fails, or the process dies: the transaction rolls back.
Rollback(t) ==
  /\ InTransaction(t) /\ "db" \in Failures
  /\ Goto(t, "failed")
  /\ ReleaseLocks(t)
  /\ UNCHANGED <<opener, database, clock, locals>>

----------------------------------------------------------------------------
\* DELETE waits for transactions that hold the conversation's row, and takes
\* the messages with it.
DeleteConversation(c) ==
  /\ c \in exists /\ "delete" \in Failures
  /\ locked[c] = NoTurn
  /\ \A t \in Turns : Conv(t) = c => ~HasInserted(t)
  /\ exists' = exists \ {c}
  /\ messages' = [messages EXCEPT ![c] = {}]
  /\ title' = [title EXCEPT ![c] = NoTurn]
  /\ UNCHANGED <<opener, updated, locked, clock, pc, locals>>

----------------------------------------------------------------------------
Init ==
  /\ opener \in [Convs -> Turns \cup {NoTurn}]
  /\ \A c \in Convs : opener[c] \in Turns => Conv(opener[c]) = c
  /\ exists = {c \in Convs : opener[c] = NoTurn}
  /\ messages = [c \in Convs |-> {}]
  /\ title = [c \in Convs |-> NoTurn]
  /\ updated = [c \in Convs |-> 0]
  /\ locked = [c \in Convs |-> NoTurn]
  /\ clock = 1
  /\ pc = [t \in Turns |-> "idle"]
  /\ role = [t \in Turns |-> "user"]
  /\ start = [t \in Turns |-> 0]
  /\ seq = [t \in Turns |-> 0]
  /\ sent = [t \in Turns |-> <<>>]

TurnStep(t) ==
  \/ Require(t) \/ Create(t)
  \/ Lock(t) \/ ReadSeq(t) \/ Insert(t) \/ InsertFails(t) \/ Touch(t)
  \/ EnsureTitle(t) \/ ReadHistory(t) \/ Commit(t)
  \/ Answer(t) \/ NoAnswer(t)

Ended == {"done", "failed", "conflict"}

Stop == (\A t \in Turns : pc[t] \in Ended) /\ UNCHANGED vars

Next ==
  \/ \E t \in Turns : TurnStep(t) \/ Rollback(t)
  \/ \E c \in Convs : DeleteConversation(c)
  \/ Stop

Spec == Init /\ [][Next]_vars

----------------------------------------------------------------------------
(* Properties *)

Points == {"idle", "lock", "seq", "insert", "touch", "title", "history",
           "commit", "calling"} \cup Ended

\* Every variable keeps its type, and a lock is held from within the
\* transaction that took it (db/session.py Database.session).
TypeOK ==
  /\ opener \in [Convs -> Turns \cup {NoTurn}]
  /\ exists \subseteq Convs
  /\ messages \in [Convs -> SUBSET Message]
  /\ title \in [Convs -> Turns \cup {NoTurn}]
  /\ updated \in [Convs -> Nat]
  /\ locked \in [Convs -> Turns \cup {NoTurn}]
  /\ \A c \in Convs : locked[c] # NoTurn => InTransaction(locked[c])
  /\ clock \in Nat
  /\ pc \in [Turns -> Points]
  /\ role \in [Turns -> Roles]
  /\ start \in [Turns -> Nat]
  /\ seq \in [Turns -> Nat]
  /\ \A t \in Turns : sent[t] \in Seq(Message)

\* The messages of a conversation are numbered 0, 1, 2 and so on, each number
\* once (db/repositories/conversations.py append_message).
TranscriptIsDense ==
  \A c \in Convs :
    /\ \A m \in messages[c] : \A k \in 0 .. m.seq : \E n \in messages[c] : n.seq = k
    /\ \A m, n \in messages[c] : m.seq = n.seq => m = n

\* "Without it, [...] one insert would then violate the unique constraint and
\* fail the user's request": no turn ever fails because of another one.
NoConflict == \A t \in Turns : pc[t] # "conflict"

\* The title is derived from the message the conversation opens with, once
\* there is one (ensure_title).
TitleIsOpening ==
  \A c \in Convs :
    IF messages[c] = {} THEN title[c] = NoTurn
    ELSE \E m \in messages[c] : m.seq = 0 /\ m.role = "user" /\ m.turn = title[c]

\* Whatever the turns do, the transcripts are those of Transcript: they grow
\* at their end, a turn asks once and replies once, to a transcript that holds
\* its question, and a turn that fails adds nothing more (services/chat.py
\* send, stream; db/repositories/conversations.py append_message).
Lines(c) == LET rows == InOrder(messages[c]) IN
  [i \in DOMAIN rows |-> <<rows[i].turn, rows[i].role>>]
Stage(t) ==
  IF pc[t] \in Ended THEN "closed"
  ELSE IF pc[t] = "calling" \/ role[t] = "assistant" THEN "asked" ELSE "new"
T == INSTANCE Transcript WITH
  there <- exists,
  log   <- [c \in Convs |-> Lines(c)],
  stage <- [t \in Turns |-> Stage(t)]
KeepsTranscript == T!Spec

\* "The newest message [...] is the question being asked": what is sent
\* upstream ends with the turn's own message, however many turns are under
\* way in the conversation (services/chat.py _record_user_turn).
QuestionIsLast ==
  \A t \in Turns :
    sent[t] # <<>> => LET q == Last(sent[t]) IN q.turn = t /\ q.role = "user"

\* What is sent upstream is the longest end of the conversation within both
\* bounds, and never less than the question (services/chat.py recent_window).
WindowIsLongest ==
  \A t \in Turns :
    pc[t] = "commit" /\ role[t] = "user" =>
      LET history == InOrder(messages[Conv(t)] \cup {Own(t)}) IN
      /\ sent[t] = End(history, Len(sent[t]))
      /\ IsLongestAllowed(Len(sent[t]), SizesOf(history))

\* updated_at is the time of the newest message: the touch and the insert of
\* concurrent turns take effect in one order (_touch).
NewestTouchedLast ==
  \A c \in Convs : \A m \in messages[c] :
    (\A n \in messages[c] : n.seq <= m.seq) => updated[c] = m.at

UnderWay == {t \in Turns : pc[t] \notin Ended \cup {"idle"}}

\* What a statement can wait for: the row, or an uncommitted insert.
Waits(t) ==
  \/ pc[t] \in {"lock", "touch"} /\ locked[Conv(t)] \notin {NoTurn, t}
  \/ /\ pc[t] = "insert" /\ HasParent(t) /\ ~Taken(t)
     /\ \E u \in Turns \ {t} : HasInserted(u) /\ Conv(u) = Conv(t) /\ seq[u] = seq[t]

NeverAllWait == UnderWay # {} => \E t \in UnderWay : ~Waits(t)

\* Turns that have started never all wait for each other's rows, or for a row
\* that is held by nobody any more (db/session.py Database.session), and
\* nothing else holds one up.
SomeoneGoesOn == NeverAllWait /\ \A t \in UnderWay : Waits(t) \/ ENABLED TurnStep(t)

=============================================================================
