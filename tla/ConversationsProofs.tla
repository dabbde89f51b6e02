------------------------ MODULE ConversationsProofs -------------------------
(***************************************************************************)
(* Proofs about Conversations, for any number of turns, conversations and  *)
(* failures, any sizes and any bounds of the window.  The invariant is in  *)
(* two parts: IInv is about what is stored and who may write it, Sending   *)
(* about what a turn has read under the row that IInv says it holds.       *)
(* The refinement of Transcript, at the end, follows from both.            *)
(***************************************************************************)
EXTENDS Conversations, QueriesProofs

Typed ==
  /\ opener \in [Convs -> Turns \cup {NoTurn}]
  /\ \A c \in Convs : opener[c] \in Turns => Conv(opener[c]) = c
  /\ exists \subseteq Convs
  /\ messages \in [Convs -> SUBSET Message]
  /\ title \in [Convs -> Turns \cup {NoTurn}]
  /\ updated \in [Convs -> Nat]
  /\ locked \in [Convs -> Turns \cup {NoTurn}]
  /\ clock \in Nat
  /\ pc \in [Turns -> Points]
  /\ role \in [Turns -> Roles]
  /\ start \in [Turns -> Nat]
  /\ seq \in [Turns -> Nat]

\* The turn that creates the conversation has not committed it yet.
Fresh(c) ==
  /\ opener[c] \in Turns /\ role[opener[c]] = "user"
  /\ pc[opener[c]] = "idle" \/ InTransaction(opener[c])

\* A fresh conversation is nobody else's; once it is not, it never is again.
Birth ==
  /\ \A c \in exists : ~Fresh(c)
  /\ \A t \in Turns :
       (pc[t] \notin {"idle", "failed"} \/ role[t] = "assistant") /\ opener[Conv(t)] # t =>
         ~Fresh(Conv(t))
  /\ \A t \in Turns : pc[t] = "idle" => role[t] = "user"

\* The row is held by one of the conversation's transactions, and by every one
\* that has inserted; one that found no row to lock is not going to find one.
Locking ==
  /\ \A c \in Convs : locked[c] # NoTurn =>
       /\ Conv(locked[c]) = c /\ InTransaction(locked[c])
       /\ c \in exists \/ (Fresh(c) /\ opener[c] = locked[c])
  /\ \A t \in Turns : HasInserted(t) => locked[Conv(t)] = t
  /\ \A t \in Turns :
       pc[t] \in {"seq", "insert"} => locked[Conv(t)] = t \/ Conv(t) \notin exists

Seqs(c) == {m.seq : m \in messages[c]}
HasRead(t) == HasInserted(t) \/ (pc[t] = "insert" /\ locked[Conv(t)] = t)

\* Numbers are dense and taken once, and who read the next one and holds the
\* row still has it.
Numbering ==
  /\ \A c \in Convs : \E n \in Nat : Seqs(c) = 0 .. (n - 1)
  /\ \A c \in Convs : \A m, n \in messages[c] : m.seq = n.seq => m = n
  /\ \A t \in Turns : HasRead(t) => Seqs(Conv(t)) = 0 .. (seq[t] - 1)

\* The question of a turn that goes on is stored, unless all is deleted.
Questioned ==
  \A t \in Turns :
    (role[t] = "assistant" \/ pc[t] = "calling") /\ Conv(t) \in exists =>
      \E q \in messages[Conv(t)] : q.role = "user" /\ q.turn = t

\* A stored reply comes after the question it answers.
RepliesFollowQuestions ==
  \A c \in Convs : \A m \in messages[c] :
    m.role = "assistant" =>
      \E q \in messages[c] : q.role = "user" /\ q.turn = m.turn /\ q.seq < m.seq

Stored == RepliesFollowQuestions /\ TitleIsOpening /\ NewestTouchedLast

IInv == Typed /\ NoConflict /\ Birth /\ Locking /\ Numbering /\ Questioned /\ Stored

\* A turn belongs to a conversation, and nobody is a turn.
LEMMA TurnsBelong == (\A t \in Turns : Conv(t) \in Convs) /\ NoTurn \notin Turns
BY TurnAssumption DEF Conv

\* Fewer turns are to commit a conversation first after any step of a turn.
LEMMA FreshOnlyFades ==
  ASSUME Typed, UNCHANGED opener, NEW t \in Turns, NEW p,
         pc' = [pc EXCEPT ![t] = p],
         role' = role \/ role' = [role EXCEPT ![t] = "assistant"],
         role' # role \/ pc[t] = "idle" \/ InTransaction(t) \/ p \in Ended
  PROVE  \A c \in Convs : Fresh(c)' => Fresh(c)
<1> SUFFICES ASSUME NEW c \in Convs, Fresh(c)' PROVE Fresh(c)
  OBVIOUS
<1> DEFINE o == opener[c]
<1>1. /\ o \in Turns /\ role'[o] = "user"
      /\ pc'[o] \in {"idle", "lock", "seq", "insert", "touch", "title", "history", "commit"}
  BY DEF Fresh, InTransaction, HasInserted
<1>2. role[o] = "user"
  BY <1>1 DEF Typed, Roles
<1>3. CASE o # t
  BY <1>1, <1>2, <1>3 DEF Typed, Fresh, InTransaction, HasInserted
<1>4. CASE o = t
  <2>1. pc'[t] = p /\ p \notin Ended
    BY <1>1, <1>4 DEF Typed, Ended
  <2>2. role' = role
    BY <1>1, <1>2, <1>4 DEF Typed
  <2> QED
    BY <1>1, <1>2, <1>4, <2>1, <2>2 DEF Fresh
<1> QED
  BY <1>3, <1>4

\* In the beginning nothing is stored and nobody has started.
LEMMA InitIInv == Init => IInv
<1> SUFFICES ASSUME Init PROVE IInv
  OBVIOUS
<1> USE TurnsBelong DEF Init
<1>1. Typed /\ NoConflict
  BY DEF Typed, NoConflict, Points, Roles, Ended
<1>2. Birth /\ Locking
  BY DEF Birth, Locking, Fresh, HasInserted, InTransaction
<1>3. Numbering
  <2>1. \A c \in Convs : Seqs(c) = {} /\ messages[c] = {}
    BY DEF Seqs
  <2>2. 0 .. (0 - 1) = {}
    OBVIOUS
  <2>3. \A t \in Turns : ~HasRead(t)
    BY DEF HasRead, HasInserted
  <2> QED
    BY <2>1, <2>2, <2>3 DEF Numbering
<1>4. Questioned /\ Stored
  BY DEF Questioned, Stored, RepliesFollowQuestions, TitleIsOpening, NewestTouchedLast
<1> QED
  BY <1>1, <1>2, <1>3, <1>4 DEF IInv

----------------------------------------------------------------------------
(* Steps that leave the database alone *)

\* What is stored does not change, and a turn that goes on went on before.
LEMMA SameDatabase ==
  ASSUME Questioned, Stored, UNCHANGED database,
         \A t \in Turns : role'[t] = "assistant" \/ pc'[t] = "calling" =>
                            role[t] = "assistant" \/ pc[t] = "calling"
  PROVE  Questioned' /\ Stored'
BY DEF Questioned, Stored, RepliesFollowQuestions, TitleIsOpening, NewestTouchedLast, database

\* The numbers do not change: the turns that have read theirs must have it.
LEMMA SameNumbers ==
  ASSUME Numbering, UNCHANGED messages,
         \A t \in Turns : HasRead(t)' => \/ HasRead(t) /\ seq'[t] = seq[t]
                                         \/ Seqs(Conv(t)) = 0 .. (seq'[t] - 1)
  PROVE  Numbering'
BY DEF Numbering, Seqs

\* A turn on a known conversation starts from a row that is committed.
LEMMA RequireIInv == ASSUME IInv, NEW t \in Turns, Require(t) PROVE IInv'
<1> USE TurnsBelong DEF IInv, Require, Goto, database, StartTransaction
<1>1. PICK p \in {"lock", "failed"} :
        pc' = [pc EXCEPT ![t] = p] /\ (p = "lock" => Conv(t) \in exists)
  OBVIOUS
<1>2. Typed' /\ NoConflict'
  BY <1>1 DEF Typed, NoConflict, Points, Ended
<1>3. Birth'
  <2>1. \A c \in Convs : Fresh(c)' => Fresh(c)
    BY FreshOnlyFades
  <2>2. p = "lock" => ~Fresh(Conv(t))
    BY <1>1 DEF Birth
  <2> QED
    BY <1>1, <2>1, <2>2 DEF Birth, Typed
<1>4. Locking'
  BY <1>1 DEF Typed, Locking, HasInserted, InTransaction, Fresh, Birth
<1>5. Numbering' /\ Questioned' /\ Stored'
  BY <1>1, SameDatabase, SameNumbers DEF Typed, HasRead, HasInserted
<1> QED
  BY <1>2, <1>3, <1>4, <1>5

\* The creator of a conversation holds the row it makes, which nobody sees.
LEMMA CreateIInv == ASSUME IInv, NEW t \in Turns, Create(t) PROVE IInv'
<1> USE TurnsBelong DEF IInv, Create, Goto, database, StartTransaction
<1>1. pc' = [pc EXCEPT ![t] = "lock"] /\ opener[Conv(t)] = t
  OBVIOUS
<1>2. Typed' /\ NoConflict'
  BY <1>1 DEF Typed, NoConflict, Points, Ended
<1>3. Birth'
  <2>1. \A c \in Convs : Fresh(c)' => Fresh(c)
    BY <1>1, FreshOnlyFades
  <2> QED
    BY <1>1, <2>1 DEF Birth, Typed
<1>4. Locking'
  <2>1. Fresh(Conv(t)) /\ Conv(t) \notin exists
    BY <1>1 DEF Birth, Fresh
  <2>2. locked[Conv(t)] = NoTurn
    BY <1>1, <2>1 DEF Typed, Locking, InTransaction, HasInserted
  <2>3. Fresh(Conv(t))'
    BY <1>1, <2>1 DEF Typed, Fresh, InTransaction
  <2>4. ASSUME NEW c \in Convs, locked'[c] # NoTurn
        PROVE  /\ Conv(locked'[c]) = c /\ InTransaction(locked[c])'
               /\ c \in exists \/ (Fresh(c)' /\ opener[c] = locked'[c])
    <3>1. CASE c = Conv(t)
      BY <1>1, <2>3, <3>1 DEF Typed, InTransaction
    <3>2. CASE c # Conv(t)
      <4>1. locked'[c] = locked[c] /\ locked[c] \in Turns
        BY <2>4, <3>2 DEF Typed
      <4>2. locked[c] # t
        BY <3>2, <4>1 DEF Locking
      <4> QED
        BY <1>1, <2>4, <4>1, <4>2 DEF Typed, Locking, Fresh, InTransaction, HasInserted
    <3> QED
      BY <3>1, <3>2
  <2>5. \A u \in Turns : HasInserted(u)' => locked'[Conv(u)] = u
    BY <1>1, <2>2 DEF Typed, Locking, HasInserted
  <2>6. \A u \in Turns :
          pc'[u] \in {"seq", "insert"} => locked'[Conv(u)] = u \/ Conv(u) \notin exists
    BY <1>1, <2>1 DEF Typed, Locking
  <2> QED
    BY <2>4, <2>5, <2>6 DEF Locking
<1>5. Numbering' /\ Questioned' /\ Stored'
  BY <1>1, SameDatabase, SameNumbers DEF Typed, HasRead, HasInserted
<1> QED
  BY <1>2, <1>3, <1>4, <1>5

\* A statement of a transaction, which may take the row, keeps the invariant
\* if what the turn then relies on is so.
LEMMA StatementIInv ==
  ASSUME IInv, NEW t \in Turns, NEW p \in {"seq", "insert", "touch", "title", "history", "commit"},
         InTransaction(t), pc' = [pc EXCEPT ![t] = p],
         UNCHANGED <<opener, database, clock, role, start>>,
         seq' \in [Turns -> Nat], \A u \in Turns \ {t} : seq'[u] = seq[u],
         \/ locked' = locked
         \/ /\ locked' = [locked EXCEPT ![Conv(t)] = t]
            /\ locked[Conv(t)] \in {NoTurn, t} /\ Conv(t) \in exists,
         p \notin {"seq", "insert"} => locked'[Conv(t)] = t,
         p \in {"seq", "insert"} => locked'[Conv(t)] = t \/ Conv(t) \notin exists,
         p # "seq" => Seqs(Conv(t)) = 0 .. (seq'[t] - 1)
  PROVE  IInv'
<1> USE TurnsBelong DEF IInv, database
<1>1. Typed' /\ NoConflict'
  BY DEF Typed, NoConflict, Points, Ended
<1>2. Birth'
  <2>1. \A c \in Convs : Fresh(c)' => Fresh(c)
    BY FreshOnlyFades
  <2>2. pc[t] \notin {"idle", "failed"}
    BY DEF InTransaction, HasInserted
  <2> QED
    BY <2>1, <2>2 DEF Birth, Typed
<1>3. Locking'
  <2>1. ASSUME NEW c \in Convs, locked'[c] # NoTurn
        PROVE  /\ Conv(locked'[c]) = c /\ (InTransaction(locked[c]))'
               /\ c \in exists \/ (Fresh(c)' /\ opener[c] = locked'[c])
    <3>1. InTransaction(t)'
      BY DEF Typed, InTransaction, HasInserted
    <3>2. CASE locked'[c] = locked[c]
      <4>1. /\ locked[c] \in Turns /\ Conv(locked[c]) = c /\ InTransaction(locked[c])
            /\ c \in exists \/ (Fresh(c) /\ opener[c] = locked[c])
        BY <2>1, <3>2 DEF Locking, Typed
      <4>2. (InTransaction(locked[c]))'
        BY <3>1, <3>2, <4>1 DEF Typed, InTransaction, HasInserted
      <4>3. Fresh(c) /\ opener[c] = locked[c] => Fresh(c)'
        BY <3>2, <4>1, <4>2 DEF Fresh
      <4> QED
        BY <3>2, <4>1, <4>2, <4>3
    <3>3. CASE locked'[c] # locked[c]
      <4>1. c = Conv(t) /\ locked'[c] = t /\ c \in exists
        BY <3>3 DEF Typed
      <4> QED
        BY <3>1, <4>1
    <3> QED
      BY <3>2, <3>3
  <2>2. ASSUME NEW u \in Turns, HasInserted(u)' PROVE locked'[Conv(u)] = u
    <3>1. CASE u = t
      BY <2>2, <3>1 DEF Typed, HasInserted
    <3>2. CASE u # t
      BY <2>2, <3>2 DEF Typed, Locking, HasInserted
    <3> QED
      BY <3>1, <3>2
  <2>3. ASSUME NEW u \in Turns, pc'[u] \in {"seq", "insert"}
        PROVE  locked'[Conv(u)] = u \/ Conv(u) \notin exists
    <3>1. CASE u = t
      BY <2>3, <3>1 DEF Typed
    <3>2. CASE u # t
      BY <2>3, <3>2 DEF Typed, Locking
    <3> QED
      BY <3>1, <3>2
  <2> QED
    BY <2>1, <2>2, <2>3 DEF Locking
<1>4. Numbering'
  <2>1. ASSUME NEW u \in Turns, HasRead(u)'
        PROVE  (HasRead(u) /\ seq'[u] = seq[u]) \/ Seqs(Conv(u)) = 0 .. (seq'[u] - 1)
    <3>1. CASE u = t
      BY <2>1, <3>1 DEF Typed, HasRead, HasInserted
    <3>2. CASE u # t
      BY <2>1, <3>2 DEF Typed, HasRead, HasInserted
    <3> QED
      BY <3>1, <3>2
  <2> QED
    BY <2>1, SameNumbers
<1>5. Questioned' /\ Stored'
  BY SameDatabase DEF Typed
<1> QED
  BY <1>1, <1>2, <1>3, <1>4, <1>5

\* The lock is taken where there is a row to lock.
LEMMA LockIInv == ASSUME IInv, NEW t \in Turns, Lock(t) PROVE IInv'
<1>1. InTransaction(t) /\ pc' = [pc EXCEPT ![t] = "seq"]
  BY DEF Lock, Goto, InTransaction
<1>2. CASE Conv(t) \in exists
  <2>1. locked' = [locked EXCEPT ![Conv(t)] = t] /\ locked'[Conv(t)] = t
    BY <1>2, TurnsBelong DEF Lock, IInv, Typed
  <2> QED
    BY <1>1, <1>2, <2>1, StatementIInv DEF Lock, locals, IInv, Typed
<1>3. CASE Conv(t) \notin exists
  BY <1>1, <1>3, StatementIInv DEF Lock, locals, IInv, Typed
<1> QED
  BY <1>2, <1>3

\* The number read follows all there are.
LEMMA ReadSeqIInv == ASSUME IInv, NEW t \in Turns, ReadSeq(t) PROVE IInv'
<1> DEFINE next == IF Seqs(Conv(t)) = {} THEN 0 ELSE Max(Seqs(Conv(t))) + 1
<1>1. PICK n \in Nat : Seqs(Conv(t)) = 0 .. (n - 1)
  BY TurnsBelong DEF IInv, Numbering
<1>2. next = n
  <2>1. CASE n = 0
    BY <1>1, <2>1
  <2>2. CASE n # 0
    <3>1. n - 1 \in Seqs(Conv(t)) /\ \A k \in Seqs(Conv(t)) : n - 1 >= k
      BY <1>1, <2>2
    <3>2. \A x \in Seqs(Conv(t)) :
            (\A k \in Seqs(Conv(t)) : x >= k) => x = n - 1
      BY <1>1, <3>1
    <3>3. Max(Seqs(Conv(t))) = n - 1
      BY <3>1, <3>2 DEF Max
    <3> QED
      BY <3>1, <3>3
  <2> QED
    BY <2>1, <2>2
<1>3. seq' = [seq EXCEPT ![t] = next]
  BY DEF ReadSeq, Seqs
<1>4. /\ InTransaction(t) /\ pc' = [pc EXCEPT ![t] = "insert"] /\ pc[t] = "seq"
      /\ UNCHANGED <<opener, database, locked, clock, role, start>>
  BY DEF ReadSeq, Goto, InTransaction
<1>5. /\ seq' \in [Turns -> Nat] /\ seq'[t] = n
      /\ \A u \in Turns \ {t} : seq'[u] = seq[u]
  BY <1>2, <1>3 DEF IInv, Typed
<1>6. locked[Conv(t)] = t \/ Conv(t) \notin exists
  BY <1>4 DEF IInv, Locking
<1> QED
  BY <1>1, <1>4, <1>5, <1>6, StatementIInv

\* Inserting takes the row's holder.
LEMMA InsertIInv == ASSUME IInv, NEW t \in Turns, Insert(t) PROVE IInv'
<1>1. /\ InTransaction(t) /\ pc' = [pc EXCEPT ![t] = "touch"] /\ pc[t] = "insert"
      /\ UNCHANGED <<opener, database, locked, clock, role, start, seq>>
  BY DEF Insert, Goto, InTransaction, locals
<1>2. locked[Conv(t)] = t
  BY <1>1 DEF Insert, HasParent, IInv, Locking
<1>3. Seqs(Conv(t)) = 0 .. (seq[t] - 1)
  BY <1>1, <1>2 DEF IInv, Numbering, HasRead
<1>4. seq \in [Turns -> Nat]
  BY DEF IInv, Typed
<1> QED
  BY <1>1, <1>2, <1>3, <1>4, StatementIInv

\* The statements after the insert hold the row already.
LEMMA RestIInv ==
  ASSUME IInv, NEW t \in Turns, Touch(t) \/ EnsureTitle(t) \/ ReadHistory(t)
  PROVE  IInv'
<1>1. HasInserted(t) /\ InTransaction(t)
  BY DEF Touch, EnsureTitle, ReadHistory, HasInserted, InTransaction
<1>2. locked[Conv(t)] = t /\ Seqs(Conv(t)) = 0 .. (seq[t] - 1)
  BY <1>1 DEF IInv, Locking, Numbering, HasRead
<1>3. PICK p \in {"title", "history", "commit"} : pc' = [pc EXCEPT ![t] = p]
  BY DEF Touch, EnsureTitle, ReadHistory, Goto
<1>4. UNCHANGED <<opener, database, locked, clock, role, start, seq>>
  BY <1>2 DEF Touch, EnsureTitle, ReadHistory, locals, IInv, Typed
<1>5. seq \in [Turns -> Nat]
  BY DEF IInv, Typed
<1> QED
  BY <1>1, <1>2, <1>3, <1>4, <1>5, StatementIInv

\* A transaction that rolls back gives the row back.
LEMMA RollsBackIInv ==
  ASSUME IInv, NEW t \in Turns, InTransaction(t), pc' = [pc EXCEPT ![t] = "failed"],
         ReleaseLocks(t), UNCHANGED <<opener, database, clock, locals>>
  PROVE  IInv'
<1> USE TurnsBelong DEF IInv, database, locals
<1>1. locked' = [c \in Convs |-> IF locked[c] = t THEN NoTurn ELSE locked[c]]
  BY DEF ReleaseLocks
<1>2. Typed' /\ NoConflict'
  BY <1>1 DEF Typed, NoConflict, Points, Ended
<1>3. Birth'
  <2>1. \A c \in Convs : Fresh(c)' => Fresh(c)
    BY FreshOnlyFades
  <2>2. pc[t] \notin {"idle", "failed"}
    BY DEF InTransaction, HasInserted
  <2> QED
    BY <2>1, <2>2 DEF Birth, Typed
<1>4. Locking'
  <2>1. ASSUME NEW c \in Convs, locked'[c] # NoTurn
        PROVE  /\ Conv(locked'[c]) = c /\ (InTransaction(locked[c]))'
               /\ c \in exists \/ (Fresh(c)' /\ opener[c] = locked'[c])
    <3>1. locked'[c] = locked[c] /\ locked[c] # t /\ locked[c] \in Turns
      BY <1>1, <2>1 DEF Typed
    <3>2. /\ Conv(locked[c]) = c /\ InTransaction(locked[c])
          /\ c \in exists \/ (Fresh(c) /\ opener[c] = locked[c])
      BY <3>1, <2>1 DEF Locking
    <3>3. (InTransaction(locked[c]))'
      BY <3>1, <3>2 DEF Typed, InTransaction, HasInserted
    <3>4. Fresh(c) /\ opener[c] = locked[c] => Fresh(c)'
      BY <3>1, <3>3 DEF Fresh
    <3> QED
      BY <3>1, <3>2, <3>3, <3>4
  <2>2. \A u \in Turns : pc'[u] # "failed" => u # t /\ pc'[u] = pc[u]
    BY DEF Typed
  <2>3. \A u \in Turns : u # t /\ locked[Conv(u)] = u => locked'[Conv(u)] = u
    BY <1>1
  <2>4. \A u \in Turns : HasInserted(u)' => locked'[Conv(u)] = u
    BY <2>2, <2>3 DEF Locking, HasInserted
  <2>5. \A u \in Turns :
          pc'[u] \in {"seq", "insert"} => locked'[Conv(u)] = u \/ Conv(u) \notin exists
    BY <2>2, <2>3 DEF Locking
  <2> QED
    BY <2>1, <2>4, <2>5 DEF Locking
<1>5. Numbering'
  <2>1. ASSUME NEW u \in Turns, HasRead(u)' PROVE HasRead(u) /\ seq'[u] = seq[u]
    <3>1. u # t /\ pc'[u] = pc[u]
      BY <2>1 DEF Typed, HasRead, HasInserted
    <3>2. locked'[Conv(u)] = u => locked[Conv(u)] = u
      BY <1>1
    <3> QED
      BY <2>1, <3>1, <3>2 DEF HasRead, HasInserted
  <2> QED
    BY <2>1, SameNumbers
<1>6. Questioned' /\ Stored'
  BY SameDatabase DEF Typed
<1> QED
  BY <1>2, <1>3, <1>4, <1>5, <1>6

\* An insert fails for want of a parent, and never for a number that is taken.
LEMMA InsertFailsIInv == ASSUME IInv, NEW t \in Turns, InsertFails(t) PROVE IInv'
<1>1. InTransaction(t) /\ pc[t] = "insert"
  BY DEF InsertFails, InTransaction
<1>2. ~HasParent(t)
  <2>1. SUFFICES ASSUME HasParent(t) PROVE FALSE
    OBVIOUS
  <2>2. locked[Conv(t)] = t
    BY <1>1, <2>1 DEF HasParent, IInv, Locking
  <2>3. Seqs(Conv(t)) = 0 .. (seq[t] - 1) /\ seq[t] \in Nat
    BY <1>1, <2>2 DEF IInv, Numbering, HasRead, Typed
  <2>4. PICK m \in messages[Conv(t)] : m.seq = seq[t]
    BY <2>1 DEF InsertFails, Taken
  <2>5. seq[t] \in Seqs(Conv(t))
    BY <2>4 DEF Seqs
  <2> QED
    BY <2>3, <2>5
<1> QED
  BY <1>1, <1>2, RollsBackIInv DEF InsertFails, Goto

\* A statement that fails, and a process that dies, roll back.
LEMMA RollbackIInv == ASSUME IInv, NEW t \in Turns, Rollback(t) PROVE IInv'
BY RollsBackIInv DEF Rollback, Goto

----------------------------------------------------------------------------
(* Between the transactions *)

\* Between its transactions a turn holds nothing, whether it goes on or not.
LEMMA AnswerIInv == ASSUME IInv, NEW t \in Turns, Answer(t) \/ NoAnswer(t) PROVE IInv'
<1> USE TurnsBelong DEF IInv, database, locals
<1>1. PICK p \in {"lock", "failed"} :
        /\ pc' = [pc EXCEPT ![t] = p] /\ pc[t] = "calling"
        /\ UNCHANGED <<opener, database, locked, seq>>
        /\ \/ role' = [role EXCEPT ![t] = "assistant"]
           \/ role' = role /\ p = "failed"
        /\ start' \in [Turns -> Nat] /\ clock' \in Nat
  BY DEF Answer, NoAnswer, StartTransaction, Goto, Typed
<1>2. Typed' /\ NoConflict'
  BY <1>1 DEF Typed, NoConflict, Points, Ended, Roles
<1>3. \A c \in Convs : Fresh(c)' => Fresh(c)
  BY <1>1 DEF Typed, Fresh, InTransaction, HasInserted
<1>4. Birth'
  BY <1>1, <1>3 DEF Birth, Typed
<1>5. Locking'
  <2>1. ASSUME NEW c \in Convs, locked[c] # NoTurn
        PROVE  /\ Conv(locked[c]) = c /\ (InTransaction(locked[c]))'
               /\ c \in exists \/ (Fresh(c)' /\ opener[c] = locked[c])
    <3>1. /\ locked[c] \in Turns /\ Conv(locked[c]) = c /\ InTransaction(locked[c])
          /\ c \in exists \/ (Fresh(c) /\ opener[c] = locked[c])
      BY <2>1 DEF Locking, Typed
    <3>2. locked[c] # t
      BY <1>1, <3>1 DEF InTransaction, HasInserted
    <3>3. (InTransaction(locked[c]))' /\ role'[locked[c]] = role[locked[c]]
      BY <1>1, <3>1, <3>2 DEF Typed, InTransaction, HasInserted
    <3>4. Fresh(c) /\ opener[c] = locked[c] => Fresh(c)'
      BY <1>1, <3>1, <3>3 DEF Fresh
    <3> QED
      BY <3>1, <3>3, <3>4
  <2>2. \A u \in Turns : pc'[u] \notin {"lock", "failed"} => pc'[u] = pc[u]
    BY <1>1 DEF Typed
  <2> QED
    BY <1>1, <2>1, <2>2 DEF Locking, HasInserted
<1>6. Numbering'
  <2>1. ASSUME NEW u \in Turns, HasRead(u)' PROVE HasRead(u) /\ seq'[u] = seq[u]
    BY <1>1, <2>1 DEF Typed, HasRead, HasInserted
  <2> QED
    BY <1>1, <2>1, SameNumbers
<1>7. Questioned' /\ Stored'
  BY <1>1, SameDatabase DEF Typed
<1> QED
  BY <1>2, <1>4, <1>5, <1>6, <1>7

----------------------------------------------------------------------------
(* Commits *)

\* What a committing turn relies on, and what its commit changes.
LEMMA CommitFacts ==
  ASSUME IInv, NEW t \in Turns, Commit(t)
  PROVE  LET c == Conv(t) IN
         /\ InTransaction(t) /\ HasInserted(t) /\ pc[t] = "commit" /\ locked[c] = t
         /\ c \in exists \/ (Fresh(c) /\ opener[c] = t)
         /\ Seqs(c) = 0 .. (seq[t] - 1) /\ seq[t] \in Nat
         /\ Own(t) \in Message /\ Own(t).seq = seq[t] /\ Own(t).turn = t
         /\ Own(t).role = role[t] /\ Own(t).at = start[t]
         /\ messages'[c] = messages[c] \cup {Own(t)}
         /\ \A d \in Convs \ {c} : messages'[d] = messages[d]
<1> USE TurnsBelong DEF IInv
<1>1. InTransaction(t) /\ HasInserted(t) /\ pc[t] = "commit"
  BY DEF Commit, InTransaction, HasInserted
<1>2. locked[Conv(t)] = t
  BY <1>1 DEF Locking
<1>3. Conv(t) \in exists \/ (Fresh(Conv(t)) /\ opener[Conv(t)] = t)
  BY <1>2 DEF Locking
<1>4. Seqs(Conv(t)) = 0 .. (seq[t] - 1) /\ seq[t] \in Nat
  BY <1>1 DEF Numbering, HasRead, Typed
<1>5. /\ Own(t) \in Message /\ Own(t).seq = seq[t] /\ Own(t).turn = t
      /\ Own(t).role = role[t] /\ Own(t).at = start[t]
  BY DEF Own, Message, Typed
<1>6. /\ messages'[Conv(t)] = messages[Conv(t)] \cup {Own(t)}
      /\ \A d \in Convs \ {Conv(t)} : messages'[d] = messages[d]
  BY DEF Commit, Typed
<1> QED
  BY <1>1, <1>2, <1>3, <1>4, <1>5, <1>6

\* What a commit writes has the type of what it is added to.
LEMMA CommitTyped ==
  ASSUME IInv, NEW t \in Turns, Commit(t)
  PROVE  Typed' /\ NoConflict'
<1> USE TurnsBelong DEF IInv
<1>1. messages' \in [Convs -> SUBSET Message]
  <2>1. messages' = [messages EXCEPT ![Conv(t)] = messages[Conv(t)] \cup {Own(t)}]
    BY DEF Commit
  <2>2. Own(t) \in Message
    BY CommitFacts
  <2> QED
    BY <2>1, <2>2 DEF Typed
<1>2. locked' \in [Convs -> Turns \cup {NoTurn}]
  BY DEF Commit, ReleaseLocks, Typed
<1>3. title' \in [Convs -> Turns \cup {NoTurn}] /\ updated' \in [Convs -> Nat]
  BY DEF Commit, SetTitle, Typed
<1>4. /\ pc' \in [Turns -> Points] /\ exists' \subseteq Convs
      /\ \A u \in Turns : pc'[u] # "conflict"
  BY DEF Commit, Goto, Typed, Points, Ended, NoConflict
<1>5. UNCHANGED <<opener, clock, role, start, seq>>
  BY DEF Commit, locals
<1> QED
  BY <1>1, <1>2, <1>3, <1>4, <1>5 DEF Typed, NoConflict

\* The first commit of its creator makes a conversation old for good.
LEMMA CommitBirth ==
  ASSUME IInv, NEW t \in Turns, Commit(t)
  PROVE  Birth' /\ \A c \in Convs : Fresh(c)' => Fresh(c) /\ opener[c] # t
<1> USE TurnsBelong DEF IInv
<1>1. PICK p \in {"calling", "done"} : pc' = [pc EXCEPT ![t] = p]
  BY DEF Commit, Goto
<1>2. UNCHANGED <<opener, role>> /\ InTransaction(t) /\ exists' = exists \cup {Conv(t)}
  BY CommitFacts DEF Commit, locals
<1>3. \A c \in Convs : Fresh(c)' => Fresh(c)
  BY <1>1, <1>2, FreshOnlyFades
<1>4. \A c \in Convs : Fresh(c)' => opener[c] # t
  BY <1>1, <1>2 DEF Typed, Fresh, InTransaction, HasInserted
<1>5. ~Fresh(Conv(t))'
  <2>1. CASE Conv(t) \in exists
    BY <1>3, <2>1 DEF Birth
  <2>2. CASE Fresh(Conv(t)) /\ opener[Conv(t)] = t
    BY <1>4, <2>2
  <2> QED
    BY <2>1, <2>2, CommitFacts
<1>6. \A c \in exists' : ~Fresh(c)'
  BY <1>2, <1>3, <1>5 DEF Birth, Typed
<1>7. \A u \in Turns :
        (pc'[u] \notin {"idle", "failed"} \/ role'[u] = "assistant") /\ opener[Conv(u)] # u =>
          ~Fresh(Conv(u))'
  BY <1>1, <1>2, <1>3, <1>5 DEF Birth, Typed
<1>8. \A u \in Turns : pc'[u] = "idle" => role'[u] = "user"
  BY <1>1, <1>2 DEF Birth, Typed
<1> QED
  BY <1>2, <1>3, <1>4, <1>6, <1>7, <1>8 DEF Birth

\* Nobody who found no row is waiting for the one that a commit brings.
LEMMA CommitLocking == ASSUME IInv, NEW t \in Turns, Commit(t) PROVE Locking'
<1> USE TurnsBelong DEF IInv
<1>1. PICK p \in {"calling", "done"} : pc' = [pc EXCEPT ![t] = p]
  BY DEF Commit, Goto
<1>2. /\ UNCHANGED <<opener, role>> /\ exists' = exists \cup {Conv(t)}
      /\ locked' = [c \in Convs |-> IF locked[c] = t THEN NoTurn ELSE locked[c]]
  BY DEF Commit, locals, ReleaseLocks
<1>3. \A u \in Turns : pc'[u] \notin {"calling", "done"} => u # t /\ pc'[u] = pc[u]
  BY <1>1 DEF Typed
<1>4. ASSUME NEW c \in Convs, locked'[c] # NoTurn
      PROVE  /\ Conv(locked'[c]) = c /\ (InTransaction(locked[c]))'
             /\ c \in exists' \/ (Fresh(c)' /\ opener[c] = locked'[c])
  <2>1. locked'[c] = locked[c] /\ locked[c] # t /\ locked[c] \in Turns
    BY <1>2, <1>4 DEF Typed
  <2>2. /\ Conv(locked[c]) = c /\ InTransaction(locked[c])
        /\ c \in exists \/ (Fresh(c) /\ opener[c] = locked[c])
    BY <2>1, <1>4 DEF Locking
  <2>3. (InTransaction(locked[c]))'
    BY <1>1, <2>1, <2>2 DEF Typed, InTransaction, HasInserted
  <2>4. Fresh(c) /\ opener[c] = locked[c] => Fresh(c)'
    BY <1>2, <2>1, <2>3 DEF Fresh
  <2> QED
    BY <1>2, <2>1, <2>2, <2>3, <2>4
<1>5. \A u \in Turns : u # t /\ locked[Conv(u)] = u => locked'[Conv(u)] = u
  BY <1>2
<1>6. \A u \in Turns : HasInserted(u)' => locked'[Conv(u)] = u
  BY <1>3, <1>5 DEF Locking, HasInserted
<1>7. ASSUME NEW u \in Turns, pc'[u] \in {"seq", "insert"}, Conv(u) \in exists'
      PROVE  locked'[Conv(u)] = u
  <2>1. u # t /\ pc[u] \in {"seq", "insert"}
    BY <1>3, <1>7
  <2>2. CASE Conv(u) \in exists
    BY <1>5, <2>1, <2>2 DEF Locking
  <2>3. CASE Conv(u) \notin exists
    <3>1. Conv(u) = Conv(t) /\ Fresh(Conv(t)) /\ opener[Conv(t)] = t
      BY <1>2, <1>7, <2>3, CommitFacts
    <3> QED
      BY <2>1, <3>1 DEF Birth
  <2> QED
    BY <2>2, <2>3
<1>8. \A u \in Turns :
        pc'[u] \in {"seq", "insert"} => locked'[Conv(u)] = u \/ Conv(u) \notin exists'
  BY <1>7
<1>9. \A c \in Convs : locked'[c] # NoTurn =>
        /\ Conv(locked'[c]) = c /\ (InTransaction(locked[c]))'
        /\ c \in exists' \/ (Fresh(c)' /\ opener[c] = locked'[c])
  BY <1>4
<1> QED
  BY <1>2, <1>6, <1>8, <1>9 DEF Locking

\* The next number keeps the numbers dense.
LEMMA DenseGrows ==
  ASSUME NEW k \in Nat
  PROVE  \E n \in Nat : (0 .. (k - 1)) \cup {k} = 0 .. (n - 1)
<1>1. (0 .. (k - 1)) \cup {k} = 0 .. ((k + 1) - 1) /\ k + 1 \in Nat
  OBVIOUS
<1> QED
  BY <1>1

\* The new message takes the next number, which nobody else has read.
LEMMA CommitNumbering == ASSUME IInv, NEW t \in Turns, Commit(t) PROVE Numbering'
<1> USE TurnsBelong DEF IInv
<1> DEFINE c == Conv(t)
<1>1. /\ locked[c] = t /\ Seqs(c) = 0 .. (seq[t] - 1) /\ seq[t] \in Nat
      /\ Own(t).seq = seq[t] /\ messages'[c] = messages[c] \cup {Own(t)}
      /\ \A d \in Convs \ {c} : messages'[d] = messages[d]
  BY CommitFacts
<1>2. \A d \in Convs \ {c} : Seqs(d)' = Seqs(d)
  BY <1>1 DEF Seqs
<1>3. Seqs(c)' = Seqs(c) \cup {seq[t]}
  BY <1>1 DEF Seqs
<1>4. Seqs(c)' = (0 .. (seq[t] - 1)) \cup {seq[t]}
  BY <1>1, <1>3
<1>5. \A d \in Convs : \E n \in Nat : Seqs(d)' = 0 .. (n - 1)
  <2>1. \E n \in Nat : Seqs(c)' = 0 .. (n - 1)
    <3>1. seq[t] \in Nat
      BY <1>1
    <3> HIDE DEF c
    <3> QED
      BY <1>4, <3>1, DenseGrows
  <2>2. \A d \in Convs \ {c} : \E n \in Nat : Seqs(d)' = 0 .. (n - 1)
    BY <1>2 DEF Numbering
  <2> QED
    BY <2>1, <2>2
<1>6. \A d \in Convs : \A m, n \in messages'[d] : m.seq = n.seq => m = n
  <2>1. \A m \in messages[c] : m.seq # seq[t]
    <3>1. \A m \in messages[c] : m.seq \in Seqs(c)
      BY DEF Seqs
    <3> QED
      BY <1>1, <3>1
  <2>2. \A m, n \in messages'[c] : m.seq = n.seq => m = n
    BY <1>1, <2>1 DEF Numbering
  <2> QED
    BY <1>1, <2>2 DEF Numbering
<1>7. ASSUME NEW u \in Turns, HasRead(u)' PROVE Seqs(Conv(u))' = 0 .. (seq'[u] - 1)
  <2>1. u # t /\ pc'[u] = pc[u]
    BY <1>7 DEF HasRead, HasInserted, Commit, Goto, Typed
  <2>2. HasRead(u) /\ seq'[u] = seq[u]
    BY <1>7, <2>1 DEF HasRead, HasInserted, Commit, ReleaseLocks, locals
  <2>3. locked[Conv(u)] = u
    BY <2>2 DEF HasRead, Locking
  <2>4. Conv(u) # c
    BY <1>1, <2>1, <2>3
  <2> QED
    BY <1>2, <2>2, <2>4 DEF Numbering
<1> QED
  BY <1>5, <1>6, <1>7 DEF Numbering

\* The commit of a question stores it, and no commit takes one away.
LEMMA CommitQuestioned == ASSUME IInv, NEW t \in Turns, Commit(t) PROVE Questioned'
<1> USE TurnsBelong DEF IInv
<1> DEFINE c == Conv(t)
<1> SUFFICES ASSUME NEW u \in Turns, role'[u] = "assistant" \/ pc'[u] = "calling",
                    Conv(u) \in exists'
             PROVE  \E q \in messages'[Conv(u)] : q.role = "user" /\ q.turn = u
  BY DEF Questioned
<1>1. messages[Conv(u)] \subseteq messages'[Conv(u)] /\ role' = role
  BY CommitFacts DEF Commit, locals
<1>2. CASE u = t /\ role[t] = "user"
  BY <1>2, CommitFacts
<1>3. CASE u = t /\ role[t] = "assistant"
  <2>1. c \in exists
    BY <1>3, CommitFacts DEF Fresh
  <2> QED
    BY <1>1, <1>3, <2>1 DEF Questioned
<1>4. CASE u # t
  <2>1. role[u] = "assistant" \/ pc[u] = "calling"
    BY <1>1, <1>4 DEF Commit, Goto, Typed
  <2>2. CASE Conv(u) \in exists
    BY <1>1, <2>1, <2>2 DEF Questioned
  <2>3. CASE Conv(u) \notin exists
    <3>1. Conv(u) = c /\ Fresh(c) /\ opener[c] = t
      BY <2>3, CommitFacts DEF Commit
    <3>2. pc[u] \in {"idle", "failed"} /\ role[u] # "assistant"
      BY <1>4, <3>1 DEF Birth
    <3> QED
      BY <2>1, <3>2
  <2> QED
    BY <2>2, <2>3
<1>5. role[t] \in {"user", "assistant"}
  BY DEF Typed, Roles
<1> QED
  BY <1>2, <1>3, <1>4, <1>5

\* The new message is the newest, and the first one is a question.
LEMMA CommitStored == ASSUME IInv, NEW t \in Turns, Commit(t) PROVE Stored'
<1> USE TurnsBelong DEF IInv
<1>1. /\ Conv(t) \in exists \/ Fresh(Conv(t))
      /\ Seqs(Conv(t)) = 0 .. (seq[t] - 1) /\ seq[t] \in Nat
      /\ Own(t).seq = seq[t] /\ Own(t).turn = t
      /\ Own(t).role = role[t] /\ Own(t).at = start[t]
      /\ messages'[Conv(t)] = messages[Conv(t)] \cup {Own(t)}
      /\ \A d \in Convs \ {Conv(t)} : messages'[d] = messages[d]
  BY CommitFacts
<1>2. \A m \in messages[Conv(t)] : m.seq \in Int /\ m.seq < seq[t]
  <2>1. \A m \in messages[Conv(t)] : m.seq \in Seqs(Conv(t))
    BY DEF Seqs
  <2> QED
    BY <1>1, <2>1
<1>3. role[t] = "assistant" =>
        \E q \in messages[Conv(t)] : q.role = "user" /\ q.turn = t
  BY <1>1 DEF Questioned, Fresh, Birth
<1>4. RepliesFollowQuestions'
  <2>1. ASSUME NEW m \in messages'[Conv(t)], m.role = "assistant"
        PROVE  \E q \in messages'[Conv(t)] :
                 q.role = "user" /\ q.turn = m.turn /\ q.seq < m.seq
    BY <1>1, <1>2, <1>3, <2>1 DEF Stored, RepliesFollowQuestions
  <2>2. ASSUME NEW d \in Convs \ {Conv(t)}, NEW m \in messages'[d], m.role = "assistant"
        PROVE  \E q \in messages'[d] :
                 q.role = "user" /\ q.turn = m.turn /\ q.seq < m.seq
    BY <1>1, <2>2 DEF Stored, RepliesFollowQuestions
  <2> QED
    BY <2>1, <2>2 DEF RepliesFollowQuestions
<1>5. TitleIsOpening'
  <2>1. /\ title'[Conv(t)] = IF role[t] = "user" /\ title[Conv(t)] = NoTurn
                            THEN t ELSE title[Conv(t)]
        /\ \A d \in Convs \ {Conv(t)} : title'[d] = title[d]
    BY DEF Commit, SetTitle, Typed
  <2>2. CASE messages[Conv(t)] = {}
    <3>1. role[t] = "user" /\ title[Conv(t)] = NoTurn
      BY <1>3, <2>2 DEF Typed, Roles, Stored, TitleIsOpening
    <3>2. seq[t] = 0
      BY <1>1, <2>2 DEF Seqs
    <3> QED
      BY <1>1, <2>1, <3>1, <3>2 DEF Stored, TitleIsOpening
  <2>3. CASE messages[Conv(t)] # {}
    <3>1. \E m \in messages[Conv(t)] :
            m.seq = 0 /\ m.role = "user" /\ m.turn = title[Conv(t)]
      BY <2>3 DEF Stored, TitleIsOpening
    <3>2. title[Conv(t)] # NoTurn
      BY <3>1 DEF Typed, Message
    <3> QED
      BY <1>1, <2>1, <3>1, <3>2 DEF Stored, TitleIsOpening
  <2> QED
    BY <2>2, <2>3
<1>6. NewestTouchedLast'
  <2>1. /\ updated'[Conv(t)] = start[t]
        /\ \A d \in Convs \ {Conv(t)} : updated'[d] = updated[d]
    BY DEF Commit, Typed
  <2>2. ASSUME NEW m \in messages'[Conv(t)],
               \A n \in messages'[Conv(t)] : n.seq <= m.seq
        PROVE  updated'[Conv(t)] = m.at
    <3>1. seq[t] <= m.seq
      BY <1>1, <2>2
    <3>2. m = Own(t)
      BY <1>1, <1>2, <3>1
    <3> QED
      BY <1>1, <2>1, <3>2
  <2>3. \A d \in Convs \ {Conv(t)} : \A m \in messages'[d] :
          (\A n \in messages'[d] : n.seq <= m.seq) => updated'[d] = m.at
    BY <1>1, <2>1 DEF Stored, NewestTouchedLast
  <2>4. \A m \in messages'[Conv(t)] :
          (\A n \in messages'[Conv(t)] : n.seq <= m.seq) => updated'[Conv(t)] = m.at
    BY <2>2
  <2> QED
    BY <2>3, <2>4 DEF NewestTouchedLast
<1> QED
  BY <1>4, <1>5, <1>6 DEF Stored

\* A commit keeps the whole invariant.
LEMMA CommitIInv == ASSUME IInv, NEW t \in Turns, Commit(t) PROVE IInv'
BY CommitTyped, CommitBirth, CommitLocking, CommitNumbering, CommitQuestioned, CommitStored
   DEF IInv

----------------------------------------------------------------------------
(* The conversation goes, or nothing happens *)

\* A conversation that goes takes nothing with it that a turn relies on.
LEMMA DeleteIInv == ASSUME IInv, NEW c \in Convs, DeleteConversation(c) PROVE IInv'
<1> USE TurnsBelong DEF IInv, DeleteConversation, locals
<1>1. /\ c \in exists /\ locked[c] = NoTurn /\ exists' = exists \ {c}
      /\ messages'[c] = {} /\ title'[c] = NoTurn
      /\ \A d \in Convs \ {c} : messages'[d] = messages[d] /\ title'[d] = title[d]
      /\ UNCHANGED <<opener, updated, locked, clock, pc, role, start, seq>>
  BY DEF Typed
<1>2. Typed' /\ NoConflict'
  BY DEF Typed, NoConflict
<1>3. Birth'
  BY <1>1 DEF Birth, Fresh, InTransaction, HasInserted
<1>4. Locking'
  BY <1>1 DEF Locking, Fresh, InTransaction, HasInserted
<1>5. \A d \in Convs \ {c} : Seqs(d)' = Seqs(d)
  BY <1>1 DEF Seqs
<1>6. Numbering'
  <2>1. \E n \in Nat : Seqs(c)' = 0 .. (n - 1)
    <3>1. Seqs(c)' = {}
      BY <1>1 DEF Seqs
    <3>2. 0 \in Nat /\ 0 .. (0 - 1) = {}
      OBVIOUS
    <3> QED
      BY <3>1, <3>2
  <2>2. \A d \in Convs \ {c} : \E n \in Nat : Seqs(d)' = 0 .. (n - 1)
    BY <1>5 DEF Numbering
  <2>3. \A d \in Convs : \A m, n \in messages'[d] : m.seq = n.seq => m = n
    BY <1>1 DEF Numbering
  <2>4. ASSUME NEW u \in Turns, HasRead(u)' PROVE Seqs(Conv(u))' = 0 .. (seq'[u] - 1)
    <3>1. HasRead(u)
      BY <1>1, <2>4 DEF HasRead, HasInserted
    <3>2. locked[Conv(u)] = u
      BY <3>1 DEF HasRead, Locking
    <3>3. Conv(u) # c
      BY <1>1, <3>2
    <3> QED
      BY <1>1, <1>5, <3>1, <3>3 DEF Numbering
  <2>5. \A d \in Convs : \E n \in Nat : Seqs(d)' = 0 .. (n - 1)
    BY <2>1, <2>2
  <2> QED
    BY <2>3, <2>4, <2>5 DEF Numbering
<1>7. Questioned'
  BY <1>1 DEF Questioned
<1>8. Stored'
  <2>1. RepliesFollowQuestions'
    BY <1>1 DEF Stored, RepliesFollowQuestions
  <2>2. TitleIsOpening'
    BY <1>1 DEF Stored, TitleIsOpening
  <2>3. NewestTouchedLast'
    BY <1>1 DEF Stored, NewestTouchedLast
  <2> QED
    BY <2>1, <2>2, <2>3 DEF Stored
<1> QED
  BY <1>2, <1>3, <1>4, <1>6, <1>7, <1>8

\* Nothing happens.
LEMMA StutterIInv == ASSUME IInv, UNCHANGED vars PROVE IInv'
<1> USE DEF IInv, vars, database, locals
<1>1. Typed' /\ NoConflict'
  BY DEF Typed, NoConflict
<1>2. Birth' /\ Locking'
  BY DEF Birth, Locking, Fresh, InTransaction, HasInserted
<1>3. Numbering'
  BY SameNumbers DEF HasRead, HasInserted
<1>4. Questioned' /\ Stored'
  BY SameDatabase
<1> QED
  BY <1>1, <1>2, <1>3, <1>4

\* Every step keeps the invariant.
LEMMA NextIInv == IInv /\ [Next]_vars => IInv'
<1> SUFFICES ASSUME IInv, [Next]_vars PROVE IInv'
  OBVIOUS
<1>1. ASSUME NEW t \in Turns, TurnStep(t) \/ Rollback(t) PROVE IInv'
  BY <1>1, RequireIInv, CreateIInv, LockIInv, ReadSeqIInv, InsertIInv, InsertFailsIInv,
     RestIInv, CommitIInv, AnswerIInv, RollbackIInv DEF TurnStep
<1>2. ASSUME NEW c \in Convs, DeleteConversation(c) PROVE IInv'
  BY <1>2, DeleteIInv
<1>3. CASE Stop \/ UNCHANGED vars
  BY <1>3, StutterIInv DEF Stop
<1> QED
  BY <1>1, <1>2, <1>3 DEF Next

\* The invariant always holds.
LEMMA Invariance == Spec => []IInv
<1> QED
  BY InitIInv, NextIInv, PTL DEF Spec

----------------------------------------------------------------------------
(* The window of recent messages *)

AtFirst == [kept |-> 0, budget |-> MaxChars, open |-> TRUE]

\* fold is the recursive function of FoldRight() on the parts of S.
Folds(fold, w, S) ==
  fold = [s \in SUBSET S |->
            IF s = {} THEN AtFirst ELSE Keep(w[Min(s)], fold[s \ {Min(s)}])]

\* The number kept is what that function says of the whole window.
LEMMA KeptIs ==
  ASSUME NEW sizes
  PROVE  LET w == Newest(sizes) IN
         Kept(sizes) = (CHOOSE fold : Folds(fold, w, DOMAIN w))[DOMAIN w].kept
BY DEF Kept, FoldRight, MapThenFoldSet, Folds, AtFirst

\* The recursive function exists.
LEMMA FoldsExist ==
  ASSUME NEW w, NEW m \in Nat
  PROVE  \E fold : Folds(fold, w, 1 .. m)
<1> DEFINE Bad == {k \in 0 .. m : ~ \E fold : Folds(fold, w, m - k + 1 .. m)}
<1>1. ASSUME Bad # {} PROVE FALSE
  <2>1. PICK k \in Bad : \A j \in Bad : k <= j
    <3>1. Bad \subseteq Nat
      OBVIOUS
    <3> HIDE DEF Bad
    <3> QED
      BY <1>1, <3>1, Least
  <2>2. k \in 0 .. m /\ ~ \E fold : Folds(fold, w, m - k + 1 .. m)
    OBVIOUS
  <2>3. CASE k = 0
    <3>1. m - k + 1 .. m = {}
      BY <2>3
    <3>2. Folds([s \in SUBSET {} |-> AtFirst], w, {})
      BY DEF Folds
    <3> QED
      BY <2>2, <3>1, <3>2
  <2>4. CASE k # 0
    <3> DEFINE x == m - k + 1
               S == x .. m
               R == x + 1 .. m
    <3>1. /\ x \in Nat /\ x \in S /\ S \subseteq Nat /\ S \ {x} = R /\ x \notin R /\ R \subseteq S
          /\ \A y \in S : x <= y
      BY <2>2, <2>4
    <3>2. PICK g : Folds(g, w, R)
      <4>1. k - 1 \notin Bad /\ k - 1 \in 0 .. m
        <5> HIDE DEF Bad
        <5> QED
          BY <2>1, <2>2, <2>4
      <4>2. m - (k - 1) + 1 = x + 1
        BY <2>2
      <4> HIDE DEF x
      <4> QED
        BY <4>1, <4>2
    <3> HIDE DEF x, S, R
    <3> DEFINE G == [s \in SUBSET S |-> IF x \in s THEN Keep(w[x], g[s \ {x}]) ELSE g[s]]
               next(s) == IF s = {} THEN AtFirst ELSE Keep(w[Min(s)], G[s \ {Min(s)}])
    <3>3. \A s \in SUBSET R : g[s] = IF s = {} THEN AtFirst ELSE Keep(w[Min(s)], g[s \ {Min(s)}])
      BY <3>2 DEF Folds
    <3>4. \A s \in SUBSET S : x \notin s => s \in SUBSET R
      BY <3>1
    <3>5. \A s \in SUBSET R : G[s] = g[s]
      BY <3>1
    <3>6. ASSUME NEW s \in SUBSET S PROVE G[s] = next(s)
      <4>1. CASE x \in s
        <5>1. Min(s) = x
          <6>1. \A y \in s : x <= y
            BY <3>1
          <6>2. Min(s) \in s /\ \A y \in s : Min(s) <= y
            BY <4>1, <6>1 DEF Min
          <6>3. Min(s) \in Nat
            BY <3>1, <6>2
          <6> QED
            BY <3>1, <4>1, <6>1, <6>2, <6>3
        <5>2. s \ {x} \in SUBSET R
          BY <3>1
        <5>3. G[s] = Keep(w[x], g[s \ {x}])
          BY <4>1
        <5> HIDE DEF G
        <5>4. G[s \ {x}] = g[s \ {x}]
          BY <3>5, <5>2
        <5> QED
          BY <4>1, <5>1, <5>3, <5>4
      <4>2. CASE x \notin s
        <5>1. s \in SUBSET R /\ s \ {Min(s)} \in SUBSET R
          BY <3>4, <4>2
        <5> HIDE DEF G
        <5> QED
          BY <3>3, <3>5, <5>1
      <4> QED
        BY <4>1, <4>2
    <3>7. G = [s \in SUBSET S |-> next(s)]
      <4>1. G = [s \in SUBSET S |-> G[s]]
        OBVIOUS
      <4> HIDE DEF G, next
      <4> QED
        BY <3>6, <4>1
    <3>8. Folds(G, w, S)
      <4> HIDE DEF G
      <4> QED
        BY <3>7 DEF Folds
    <3> QED
      BY <2>2, <3>8 DEF S, x
  <2> QED
    BY <2>3, <2>4
<1>2. m \in 0 .. m /\ m - m + 1 = 1
  OBVIOUS
<1> QED
  BY <1>1, <1>2

\* The size of the newest n messages.
EndSize(sizes, n) == SumFunctionOnSet(sizes, Len(sizes) - n + 1 .. Len(sizes))

\* One turn of the loop after another, from the newest message on.
LEMMA FoldSteps ==
  ASSUME NEW w, NEW m \in Nat, NEW g, Folds(g, w, 1 .. m)
  PROVE  /\ g[m - 0 + 1 .. m] = AtFirst
         /\ \A k \in 1 .. m : g[m - k + 1 .. m] = Keep(w[m - k + 1], g[m - (k - 1) + 1 .. m])
<1>1. g[m - 0 + 1 .. m] = AtFirst
  <2>1. m - 0 + 1 .. m = {}
    OBVIOUS
  <2> QED
    BY <2>1 DEF Folds
<1>2. ASSUME NEW k \in 1 .. m
      PROVE  g[m - k + 1 .. m] = Keep(w[m - k + 1], g[m - (k - 1) + 1 .. m])
  <2> DEFINE x == m - k + 1
             S == x .. m
  <2>1. /\ x \in S /\ S \in SUBSET (1 .. m) /\ S \ {x} = m - (k - 1) + 1 .. m
        /\ \A y \in S : x <= y
    OBVIOUS
  <2>2. Min(S) = x
    <3>1. x \in Nat /\ S \subseteq Nat
      OBVIOUS
    <3> HIDE DEF x, S
    <3>2. Min(S) \in S /\ \A y \in S : Min(S) <= y
      BY <2>1 DEF Min
    <3>3. x <= Min(S) /\ Min(S) <= x /\ Min(S) \in Nat
      BY <2>1, <3>1, <3>2
    <3> QED
      BY <3>1, <3>3
  <2>3. g[S] = Keep(w[x], g[S \ {x}])
    <3> HIDE DEF x, S
    <3> QED
      BY <2>1, <2>2 DEF Folds
  <2> QED
    BY <2>1, <2>3
<1> QED
  BY <1>1, <1>2

\* A longer end is at least as large, by the messages that it has more.
LEMMA EndsGrow ==
  ASSUME NEW sizes \in Seq(Nat)
  PROVE  /\ \A n \in 0 .. Len(sizes) : EndSize(sizes, n) \in Nat
         /\ EndSize(sizes, 0) = 0
         /\ \A n \in 0 .. Len(sizes) - 1 :
              EndSize(sizes, n + 1) = sizes[Len(sizes) - n] + EndSize(sizes, n)
         /\ \A n, p \in 0 .. Len(sizes) : n <= p => EndSize(sizes, n) <= EndSize(sizes, p)
<1> DEFINE L == Len(sizes)
           D == 1 .. L
           from(n) == L - n + 1 .. L
<1>1. L \in Nat /\ IsFiniteSet(D) /\ sizes \in [D -> Nat]
  BY FS_Interval
<1>2. \A n \in 0 .. L : from(n) \in SUBSET D
  BY <1>1
<1>3. ASSUME NEW n \in 0 .. L PROVE EndSize(sizes, n) \in Nat
  <2>1. from(n) \in SUBSET D
    BY <1>2
  <2>2. EndSize(sizes, n) = SumFunctionOnSet(sizes, from(n))
    BY DEF EndSize
  <2> HIDE DEF D, from
  <2> QED
    BY <1>1, <2>1, <2>2, SumType
<1>4. EndSize(sizes, 0) = 0
  <2>1. from(0) = {} /\ IsFiniteSet({})
    BY <1>1, FS_EmptySet
  <2>2. EndSize(sizes, 0) = SumFunctionOnSet(sizes, from(0))
    BY DEF EndSize
  <2> HIDE DEF from
  <2> QED
    BY <2>1, <2>2, SumOfZeros
<1>5. ASSUME NEW n \in 0 .. L - 1
      PROVE  EndSize(sizes, n + 1) = sizes[L - n] + EndSize(sizes, n)
  <2>1. from(n + 1) \in SUBSET D /\ L - n \in from(n + 1)
    BY <1>1
  <2>3. from(n + 1) \ {L - n} = from(n)
    <3>1. L - (n + 1) + 1 = L - n /\ L - n + 1 \in Int /\ L - n \in Int
      BY <1>1
    <3>2. from(n + 1) = L - n .. L
      BY <3>1
    <3>3. \A x \in Int : (x .. L) \ {x} = x + 1 .. L
      BY <1>1
    <3> QED
      BY <3>1, <3>2, <3>3
  <2>2. /\ EndSize(sizes, n) = SumFunctionOnSet(sizes, from(n))
        /\ EndSize(sizes, n + 1) = SumFunctionOnSet(sizes, from(n + 1))
    BY DEF EndSize
  <2> HIDE DEF D, from
  <2> QED
    BY <1>1, <2>1, <2>2, <2>3, SumAdds
<1>6. ASSUME NEW n \in 0 .. L, NEW p \in 0 .. L, n <= p
      PROVE  EndSize(sizes, n) <= EndSize(sizes, p)
  <2>1. from(p) \in SUBSET D /\ from(n) \in SUBSET from(p)
    BY <1>1, <1>6
  <2>2. /\ EndSize(sizes, n) = SumFunctionOnSet(sizes, from(n))
        /\ EndSize(sizes, p) = SumFunctionOnSet(sizes, from(p))
    BY DEF EndSize
  <2> HIDE DEF D, from
  <2> QED
    BY <1>1, <2>1, <2>2, SumGrows
<1> QED
  BY <1>3, <1>4, <1>5, <1>6

\* What the loop knows after k messages: it goes on, and has kept them all,
\* or it has ended at one that did not fit.
Knows(acc, k, sizes) ==
  /\ acc \in [kept : Nat, budget : Int, open : BOOLEAN]
  /\ acc.kept > 1 => EndSize(sizes, acc.kept) <= MaxChars
  /\ acc.open => acc.kept = k /\ acc.budget = MaxChars - EndSize(sizes, k)
  /\ ~acc.open => acc.kept \in 1 .. k - 1 /\ EndSize(sizes, acc.kept + 1) > MaxChars

\* One more message.
LEMMA KeepKnows ==
  ASSUME NEW sizes \in Seq(Nat), NEW k \in 0 .. Len(sizes) - 1, NEW acc, Knows(acc, k, sizes)
  PROVE  Knows(Keep(sizes[Len(sizes) - k], acc), k + 1, sizes)
<1> DEFINE size == sizes[Len(sizes) - k]
           next == Keep(size, acc)
<1> SUFFICES Knows(next, k + 1, sizes)
  OBVIOUS
<1>1. /\ size \in Nat /\ EndSize(sizes, k) \in Nat /\ MaxChars \in Nat
      /\ EndSize(sizes, k + 1) = size + EndSize(sizes, k)
  <2>1. size \in Nat /\ k \in 0 .. Len(sizes)
    OBVIOUS
  <2> QED
    BY <2>1, EndsGrow, WindowAssumption
<1> HIDE DEF size
<1>2. acc \in [kept : Nat, budget : Int, open : BOOLEAN]
  BY DEF Knows
<1>3. CASE acc.open /\ (acc.kept = 0 \/ acc.budget - size >= 0)
  <2>1. next = [acc EXCEPT !.kept = @ + 1, !.budget = @ - size]
    BY <1>3 DEF Keep
  <2>2. /\ next \in [kept : Nat, budget : Int, open : BOOLEAN] /\ next.open
        /\ next.kept = acc.kept + 1 /\ next.budget = acc.budget - size
    <3>1. /\ acc.kept + 1 \in Nat /\ acc.budget - size \in Int
          /\ acc.open = TRUE
      BY <1>1, <1>2, <1>3
    <3>2. acc = [kept |-> acc.kept, budget |-> acc.budget, open |-> acc.open]
      BY <1>2
    <3>3. next = [kept |-> acc.kept + 1, budget |-> acc.budget - size, open |-> TRUE]
      BY <2>1, <3>1, <3>2
    <3> HIDE DEF next
    <3> QED
      BY <3>1, <3>3
  <2>3. next.kept > 1 => EndSize(sizes, k + 1) <= MaxChars
    <3>1. acc.kept = k /\ acc.budget = MaxChars - EndSize(sizes, k)
      BY <1>3 DEF Knows
    <3> HIDE DEF next
    <3> QED
      BY <1>1, <1>3, <2>2, <3>1
  <2>4. acc.kept = k /\ acc.budget = MaxChars - EndSize(sizes, k)
    BY <1>3 DEF Knows
  <2> HIDE DEF next
  <2>5. next.kept = k + 1 /\ next.budget = MaxChars - EndSize(sizes, k + 1)
    BY <1>1, <2>2, <2>4
  <2> QED
    BY <2>2, <2>3, <2>5 DEF Knows
<1>4. CASE acc.open /\ ~(acc.kept = 0 \/ acc.budget - size >= 0)
  <2>1. next = [acc EXCEPT !.open = FALSE]
    BY <1>4 DEF Keep
  <2>2. acc.kept = k /\ acc.budget = MaxChars - EndSize(sizes, k)
    BY <1>4 DEF Knows
  <2>3. /\ next \in [kept : Nat, budget : Int, open : BOOLEAN] /\ ~next.open
        /\ next.kept = k /\ acc.kept = k
    BY <1>2, <1>4, <2>1, <2>2
  <2>4. k > 0 /\ EndSize(sizes, k + 1) > MaxChars
    BY <1>1, <1>4, <2>2
  <2> HIDE DEF next
  <2>5. next.kept \in 1 .. (k + 1) - 1 /\ EndSize(sizes, next.kept + 1) > MaxChars
    BY <2>3, <2>4
  <2>6. next.kept > 1 => EndSize(sizes, next.kept) <= MaxChars
    BY <2>3 DEF Knows
  <2> QED
    BY <2>3, <2>5, <2>6 DEF Knows
<1>5. CASE ~acc.open
  <2>1. next = [acc EXCEPT !.open = FALSE]
    BY <1>5 DEF Keep
  <2>2. /\ next \in [kept : Nat, budget : Int, open : BOOLEAN] /\ ~next.open
        /\ next.kept = acc.kept
    BY <1>2, <1>5, <2>1
  <2>3. acc.kept \in 1 .. k
    BY <1>5 DEF Knows
  <2> HIDE DEF next
  <2>4. /\ next.kept \in 1 .. (k + 1) - 1 /\ EndSize(sizes, next.kept + 1) > MaxChars
        /\ next.kept > 1 => EndSize(sizes, next.kept) <= MaxChars
    BY <1>5, <2>2, <2>3 DEF Knows
  <2> QED
    BY <2>2, <2>4 DEF Knows
<1> QED
  BY <1>3, <1>4, <1>5

\* After the whole window.
LEMMA LoopKnows ==
  ASSUME NEW sizes \in Seq(Nat), NEW m \in 0 .. Len(sizes), NEW acc,
         acc[0] = AtFirst,
         \A k \in 1 .. m : acc[k] = Keep(sizes[Len(sizes) - (k - 1)], acc[k - 1])
  PROVE  Knows(acc[m], m, sizes)
<1> DEFINE Bad == {k \in 0 .. m : ~Knows(acc[k], k, sizes)}
<1>1. ASSUME Bad # {} PROVE FALSE
  <2>1. PICK k \in Bad : \A j \in Bad : k <= j
    <3>1. Bad \subseteq Nat
      OBVIOUS
    <3> HIDE DEF Bad
    <3> QED
      BY <1>1, <3>1, Least
  <2>2. k \in 0 .. m /\ ~Knows(acc[k], k, sizes)
    OBVIOUS
  <2>3. k # 0
    <3>1. Knows(AtFirst, 0, sizes)
      BY EndsGrow, WindowAssumption DEF Knows, AtFirst
    <3> QED
      BY <2>2, <3>1
  <2>4. k - 1 \in 0 .. m /\ k - 1 \notin Bad
    <3> HIDE DEF Bad
    <3> QED
      BY <2>1, <2>2, <2>3
  <2>5. Knows(acc[k - 1], k - 1, sizes) /\ k - 1 \in 0 .. Len(sizes) - 1
    BY <2>2, <2>3, <2>4
  <2>6. Knows(Keep(sizes[Len(sizes) - (k - 1)], acc[k - 1]), (k - 1) + 1, sizes)
    <3> HIDE DEF Bad
    <3> QED
      BY <2>5, KeepKnows
  <2>7. (k - 1) + 1 = k /\ acc[k] = Keep(sizes[Len(sizes) - (k - 1)], acc[k - 1])
    BY <2>2, <2>3
  <2> QED
    BY <2>2, <2>6, <2>7
<1> QED
  BY <1>1

\* recent_window() keeps the longest end of a conversation within both bounds,
\* whatever the sizes of its messages, and never less than the newest one.
THEOREM KeptIsLongest ==
  ASSUME NEW sizes \in Seq(Nat)
  PROVE  /\ Kept(sizes) \in 0 .. Len(sizes) /\ IsLongestAllowed(Kept(sizes), sizes)
         /\ sizes # <<>> => Kept(sizes) >= 1
<1> DEFINE L == Len(sizes)
           m == IF L > MaxMessages THEN MaxMessages ELSE L
           w == Newest(sizes)
<1>1. L \in Nat /\ m \in 0 .. L /\ m <= MaxMessages /\ MaxMessages \in Nat /\ MaxMessages > 1
  BY WindowAssumption
<1>2. DOMAIN w = 1 .. m /\ \A i \in 1 .. m : w[i] = sizes[L - m + i]
  <2>1. w = SubSeq(sizes, L - m + 1, L)
    BY DEF Newest, End
  <2>2. L - (L - m + 1) + 1 = m
    BY <1>1
  <2> HIDE DEF m, w
  <2>3. w = [i \in 1 .. m |-> sizes[(L - m + 1) + i - 1]]
    BY <1>1, <2>1, <2>2
  <2>4. \A i \in 1 .. m : (L - m + 1) + i - 1 = L - m + i
    BY <1>1
  <2> QED
    BY <2>3, <2>4
<1> HIDE DEF m, w
<1> DEFINE g == CHOOSE fold : Folds(fold, w, 1 .. m)
<1>3. Folds(g, w, 1 .. m)
  <2>1. m \in Nat
    BY <1>1
  <2> QED
    BY <2>1, FoldsExist
<1>4. Kept(sizes) = g[1 .. m].kept
  BY <1>2, KeptIs DEF w
<1> HIDE DEF g
<1> DEFINE acc == [k \in 0 .. m |-> g[m - k + 1 .. m]]
<1>5. /\ acc[0] = AtFirst
      /\ \A k \in 1 .. m : acc[k] = Keep(w[m - k + 1], acc[k - 1])
  <2>1. m \in Nat
    BY <1>1
  <2>2. /\ g[m - 0 + 1 .. m] = AtFirst
        /\ \A k \in 1 .. m : g[m - k + 1 .. m] = Keep(w[m - k + 1], g[m - (k - 1) + 1 .. m])
    BY <1>3, <2>1, FoldSteps
  <2>3. /\ 0 \in 0 .. m
        /\ \A k \in 1 .. m : k \in 0 .. m /\ k - 1 \in 0 .. m
    BY <2>1
  <2> QED
    BY <2>2, <2>3
<1>6. acc[m] = g[1 .. m]
  BY <1>1
<1> HIDE DEF acc
<1>7. \A k \in 1 .. m : acc[k] = Keep(sizes[L - (k - 1)], acc[k - 1])
  <2>1. \A k \in 1 .. m : m - k + 1 \in 1 .. m /\ L - m + (m - k + 1) = L - (k - 1)
    BY <1>1
  <2> QED
    BY <1>2, <1>5, <2>1
<1>8. Knows(acc[m], m, sizes)
  BY <1>1, <1>5, <1>7, LoopKnows
<1> DEFINE q == Kept(sizes)
<1>9. /\ q \in 0 .. m /\ (q > 1 => EndSize(sizes, q) <= MaxChars)
      /\ q = m \/ (q >= 1 /\ q < m /\ EndSize(sizes, q + 1) > MaxChars)
  BY <1>1, <1>4, <1>6, <1>8 DEF Knows
<1> HIDE DEF q
<1>10. Allowed(q, sizes)
  BY <1>1, <1>9 DEF Allowed, EndSize
<1>11. ASSUME NEW p \in 0 .. L, Allowed(p, sizes) PROVE p <= q
  <2>1. p <= MaxMessages /\ (p > 1 => EndSize(sizes, p) <= MaxChars)
    BY <1>11 DEF Allowed, EndSize
  <2>2. p <= m
    BY <1>1, <2>1 DEF m
  <2>3. CASE q = m
    BY <1>1, <2>2, <2>3
  <2>4. CASE q >= 1 /\ q < m /\ EndSize(sizes, q + 1) > MaxChars
    <3>1. SUFFICES ASSUME p > q PROVE FALSE
      BY <1>1, <1>9
    <3>2. q + 1 \in 0 .. L /\ q + 1 <= p /\ p > 1
      BY <1>1, <1>9, <2>4, <3>1
    <3>3. /\ EndSize(sizes, q + 1) <= EndSize(sizes, p)
          /\ EndSize(sizes, q + 1) \in Nat /\ EndSize(sizes, p) \in Nat
      BY <3>2, EndsGrow
    <3> QED
      BY <2>1, <2>4, <3>2, <3>3, WindowAssumption
  <2> QED
    BY <1>9, <2>3, <2>4
<1>12. IsLongestAllowed(q, sizes)
  BY <1>10, <1>11 DEF IsLongestAllowed
<1>13. sizes # <<>> => q >= 1
  <2>1. sizes # <<>> => L > 0
    OBVIOUS
  <2>2. L > 0 => m > 0
    BY <1>1 DEF m
  <2> QED
    BY <1>1, <1>9, <2>1, <2>2
<1>14. q \in 0 .. L
  BY <1>1, <1>9
<1> QED
  BY <1>12, <1>13, <1>14 DEF q

----------------------------------------------------------------------------
(* What is sent upstream *)

\* The history that a turn reads: what is committed, and its own message.
HistoryOf(t) == InOrder(messages[Conv(t)] \cup {Own(t)})

\* A window ends where the history ends, and is the longest within bounds.
IsWindow(w, history) ==
  w = End(history, Len(w)) /\ IsLongestAllowed(Len(w), SizesOf(history))

\* Only a question is followed by the history and the call, and what was sent for it is the
\* window of the history until its transaction ends.
Sending ==
  /\ \A t \in Turns : pc[t] \in {"title", "history", "calling"} => role[t] = "user"
  /\ sent = [t \in Turns |-> sent[t]] /\ \A t \in Turns : sent[t] \in Seq(Message)
  /\ QuestionIsLast
  /\ \A t \in Turns : pc[t] = "commit" /\ role[t] = "user" => IsWindow(sent[t], HistoryOf(t))

\* Messages with different numbers are listed by their numbers.
LEMMA InOrderLists ==
  ASSUME NEW S, S \subseteq Message, IsFiniteSet(S), \A m, n \in S : m.seq = n.seq => m = n
  PROVE  LET s == InOrder(S) IN
         /\ s \in Seq(S) /\ Len(s) = Cardinality(S)
         /\ \A i, j \in 1 .. Len(s) : i < j => s[i].seq < s[j].seq
         /\ \A x \in S : \E i \in 1 .. Len(s) : s[i] = x
<1> DEFINE bySeq == {p \in S \X S : p[1].seq < p[2].seq}
<1>1. \A x, y \in S : <<x, y>> \in bySeq <=> x.seq < y.seq
  OBVIOUS
<1>2. \A x \in S : x.seq \in Nat
  BY DEF Message
<1>3. StrictTotalOrder(S, bySeq)
  <2> HIDE DEF bySeq
  <2> QED
    BY <1>1, <1>2 DEF StrictTotalOrder
<1>4. InOrder(S) = OrderBy(S, bySeq)
  BY DEF InOrder
<1> HIDE DEF bySeq
<1>5. LET s == OrderBy(S, bySeq)
          n == Cardinality(S) IN
      /\ n \in Nat /\ s \in Seq(S) /\ Len(s) = n /\ DOMAIN s = 1 .. n
      /\ \A i \in 1 .. n : s[i] \in S
      /\ \A i, j \in 1 .. n : i < j => <<s[i], s[j]>> \in bySeq
      /\ \A x \in S : \E i \in 1 .. n : s[i] = x
  BY <1>3, OrderByLists
<1> QED
  BY <1>1, <1>4, <1>5

\* The one with the greatest number is the last.
LEMMA NewestIsLast ==
  ASSUME NEW S, S \subseteq Message, IsFiniteSet(S), \A m, n \in S : m.seq = n.seq => m = n,
         NEW q \in S, \A m \in S : m.seq <= q.seq
  PROVE  LET s == InOrder(S) IN
         s \in Seq(Message) /\ Len(s) \in Nat \ {0} /\ s[Len(s)] = q
<1> DEFINE s == InOrder(S)
<1>1. /\ s \in Seq(S) /\ Len(s) \in Nat
      /\ \A i, j \in 1 .. Len(s) : i < j => s[i].seq < s[j].seq
      /\ \A x \in S : \E i \in 1 .. Len(s) : s[i] = x
  <2>1. s \in Seq(S)
    BY InOrderLists
  <2> HIDE DEF s
  <2> QED
    BY <2>1, InOrderLists DEF s
<1> HIDE DEF s
<1>2. PICK i \in 1 .. Len(s) : s[i] = q
  BY <1>1
<1>3. Len(s) \in 1 .. Len(s) /\ s[Len(s)] \in S /\ s \in Seq(Message)
  BY <1>1, <1>2
<1>4. s[Len(s)].seq \in Nat /\ q.seq \in Nat /\ s[Len(s)].seq <= q.seq
  BY <1>3 DEF Message
<1>5. ~(i < Len(s))
  <2>1. i < Len(s) => s[i].seq < s[Len(s)].seq
    BY <1>1, <1>3
  <2> QED
    BY <1>2, <1>4, <2>1
<1>6. i = Len(s)
  BY <1>1, <1>2, <1>5
<1> QED
  BY <1>1, <1>2, <1>3, <1>6 DEF s

\* recent_window() of a history is its longest end, and the newest message is
\* always there.
LEMMA WindowIs ==
  ASSUME NEW h \in Seq(Message), h # <<>>
  PROVE  LET w == Window(h) IN
         w \in Seq(Message) /\ w # <<>> /\ Last(w) = h[Len(h)] /\ IsWindow(w, h)
<1> DEFINE sizes == SizesOf(h)
           k == Kept(sizes)
           w == Window(h)
<1>1. sizes \in Seq(Nat) /\ Len(sizes) = Len(h)
  <2>1. \A i \in 1 .. Len(h) : Length[<<h[i].turn, h[i].role>>] \in Nat
    <3>1. ASSUME NEW m \in Message PROVE Length[<<m.turn, m.role>>] \in Nat
      <4>1. <<m.turn, m.role>> \in Turns \X Roles
        BY DEF Message
      <4>2. Length \in [Turns \X Roles -> Nat]
        BY TurnAssumption
      <4> QED
        BY <4>1, <4>2
    <3>2. \A i \in 1 .. Len(h) : h[i] \in Message
      OBVIOUS
    <3> QED
      BY <3>1, <3>2
  <2>2. sizes = [i \in 1 .. Len(h) |-> Length[<<h[i].turn, h[i].role>>]]
    <3>1. DOMAIN h = 1 .. Len(h)
      OBVIOUS
    <3> QED
      BY <3>1 DEF SizesOf
  <2>3. Len(h) \in Nat
    OBVIOUS
  <2> HIDE DEF sizes
  <2>4. sizes \in [1 .. Len(h) -> Nat]
    BY <2>1, <2>2
  <2> QED
    BY <2>3, <2>4
<1> HIDE DEF sizes
<1>2. k \in 1 .. Len(h) /\ IsLongestAllowed(k, sizes)
  <2>1. sizes # <<>>
    BY <1>1
  <2> QED
    BY <1>1, <2>1, KeptIsLongest
<1>3. w = SubSeq(h, Len(h) - k + 1, Len(h))
  BY DEF Window, End, sizes
<1> HIDE DEF k, w
<1>4. /\ w \in Seq(Message) /\ Len(w) = k
      /\ \A i \in 1 .. k : w[i] = h[Len(h) - k + i]
  <2>1. Len(h) - (Len(h) - k + 1) + 1 = k /\ Len(h) \in Nat
    BY <1>2
  <2>2. \A i \in 1 .. k : Len(h) - k + i \in 1 .. Len(h) /\ (Len(h) - k + 1) + i - 1 = Len(h) - k + i
    BY <1>2
  <2>3. w = [i \in 1 .. k |-> h[(Len(h) - k + 1) + i - 1]]
    BY <1>2, <1>3, <2>1
  <2>4. w = [i \in 1 .. k |-> h[Len(h) - k + i]]
    BY <2>2, <2>3
  <2>5. \A i \in 1 .. k : h[Len(h) - k + i] \in Message
    BY <2>2
  <2> QED
    BY <1>2, <2>4, <2>5
<1>5. w # <<>> /\ Last(w) = h[Len(h)]
  <2>1. w # <<>> /\ Last(w) = w[k]
    BY <1>2, <1>4 DEF Last
  <2>2. w[k] = h[Len(h)]
    BY <1>2, <1>4
  <2> QED
    BY <2>1, <2>2
<1>6. w = End(h, Len(w))
  BY <1>3, <1>4 DEF End
<1>7. IsWindow(w, h)
  BY <1>2, <1>4, <1>6 DEF IsWindow, sizes
<1> QED
  BY <1>4, <1>5, <1>7 DEF w

\* A transcript is finite: its messages have different numbers below some one.
LEMMA FiniteTranscript == ASSUME IInv, NEW c \in Convs PROVE IsFiniteSet(messages[c])
<1> DEFINE f == [m \in messages[c] |-> m.seq]
<1>1. PICK n \in Nat : Seqs(c) = 0 .. (n - 1)
  BY DEF IInv, Numbering
<1>2. \A m \in messages[c] : m.seq \in 0 .. (n - 1)
  <2>1. \A m \in messages[c] : m.seq \in Seqs(c)
    BY DEF Seqs
  <2> QED
    BY <1>1, <2>1
<1>3. f \in Injection(messages[c], 0 .. (n - 1))
  <2>1. f \in [messages[c] -> 0 .. (n - 1)]
    BY <1>2
  <2>2. \A m, p \in messages[c] : f[m] = f[p] => m = p
    BY DEF IInv, Numbering
  <2> HIDE DEF f
  <2> QED
    BY <2>1, <2>2 DEF Injection, IsInjective
<1>4. IsFiniteSet(0 .. (n - 1))
  BY FS_Interval
<1> HIDE DEF f
<1> QED
  BY <1>3, <1>4, FS_Injection

\* The history that a turn reads ends with the turn's own message.
LEMMA HistoryEnds ==
  ASSUME IInv, NEW t \in Turns, HasInserted(t)
  PROVE  /\ HistoryOf(t) \in Seq(Message) /\ HistoryOf(t) # <<>>
         /\ HistoryOf(t)[Len(HistoryOf(t))] = Own(t)
<1> DEFINE S == messages[Conv(t)] \cup {Own(t)}
<1>1. Conv(t) \in Convs
  BY TurnsBelong
<1>2. IsFiniteSet(S)
  <2>1. IsFiniteSet(messages[Conv(t)])
    BY <1>1, FiniteTranscript
  <2> QED
    BY <2>1, FS_AddElement
<1>3. Own(t) \in Message /\ Own(t).seq = seq[t] /\ seq[t] \in Nat
  BY DEF Own, Message, IInv, Typed
<1>4. \A m \in messages[Conv(t)] : m.seq \in Nat /\ m.seq < seq[t]
  <2>1. Seqs(Conv(t)) = 0 .. (seq[t] - 1)
    BY DEF IInv, Numbering, HasRead
  <2>2. \A m \in messages[Conv(t)] : m.seq \in Seqs(Conv(t))
    BY DEF Seqs
  <2> QED
    BY <1>3, <2>1, <2>2
<1>5. \A m, n \in messages[Conv(t)] : m.seq = n.seq => m = n
  BY <1>1 DEF IInv, Numbering
<1>6. messages[Conv(t)] \subseteq Message
  BY <1>1 DEF IInv, Typed
<1>7. /\ S \subseteq Message /\ Own(t) \in S
      /\ \A m, n \in S : m.seq = n.seq => m = n
      /\ \A m \in S : m.seq <= Own(t).seq
  BY <1>3, <1>4, <1>5, <1>6
<1>8. HistoryOf(t) = InOrder(S)
  BY DEF HistoryOf
<1> HIDE DEF S
<1>9. LET s == InOrder(S) IN
      s \in Seq(Message) /\ Len(s) \in Nat \ {0} /\ s[Len(s)] = Own(t)
  BY <1>2, <1>7, NewestIsLast
<1> QED
  BY <1>8, <1>9

\* A step that no turn takes in its transaction, or that reads no history.
LEMMA SendingKept ==
  ASSUME Sending, UNCHANGED sent,
         \A t \in Turns : pc'[t] \in {"title", "history", "calling"} => role'[t] = "user",
         \A t \in Turns : pc'[t] = "commit" /\ role'[t] = "user" =>
           /\ pc[t] = "commit" /\ role[t] = "user" /\ seq'[t] = seq[t] /\ start'[t] = start[t]
           /\ messages'[Conv(t)] = messages[Conv(t)]
  PROVE  Sending'
<1>1. sent' = [t \in Turns |-> sent'[t]] /\ \A t \in Turns : sent'[t] \in Seq(Message)
  BY DEF Sending
<1>2. QuestionIsLast'
  BY DEF Sending, QuestionIsLast
<1>3. ASSUME NEW t \in Turns, pc'[t] = "commit" /\ role'[t] = "user"
      PROVE  IsWindow(sent'[t], HistoryOf(t)')
  <2>1. /\ pc[t] = "commit" /\ role[t] = "user" /\ seq'[t] = seq[t] /\ start'[t] = start[t]
        /\ messages'[Conv(t)] = messages[Conv(t)]
    BY <1>3
  <2>2. HistoryOf(t)' = HistoryOf(t)
    BY <1>3, <2>1 DEF HistoryOf, Own
  <2>3. IsWindow(sent[t], HistoryOf(t))
    BY <2>1 DEF Sending
  <2> QED
    BY <2>2, <2>3
<1> QED
  BY <1>1, <1>2, <1>3 DEF Sending

\* In the beginning nothing is sent.
LEMMA InitSending == Init => Sending
<1> SUFFICES ASSUME Init PROVE Sending
  OBVIOUS
<1>1. <<>> \in Seq(Message)
  OBVIOUS
<1> QED
  BY <1>1 DEF Init, Sending, QuestionIsLast

\* The one statement that sets what is sent.
LEMMA ReadHistorySending ==
  ASSUME IInv, Sending, NEW t \in Turns, ReadHistory(t) PROVE Sending'
<1>1. /\ pc[t] = "history" /\ role[t] = "user" /\ HasInserted(t)
      /\ pc' = [pc EXCEPT ![t] = "commit"]
      /\ sent' = [sent EXCEPT ![t] = Window(HistoryOf(t))]
      /\ UNCHANGED <<messages, role, seq, start>>
  BY DEF ReadHistory, Goto, HasInserted, HistoryOf, database, Sending
<1>2. /\ HistoryOf(t) \in Seq(Message) /\ HistoryOf(t) # <<>>
      /\ HistoryOf(t)[Len(HistoryOf(t))] = Own(t)
  BY <1>1, HistoryEnds
<1>3. LET w == Window(HistoryOf(t)) IN
      /\ w \in Seq(Message) /\ w # <<>> /\ IsWindow(w, HistoryOf(t))
      /\ Last(w) = HistoryOf(t)[Len(HistoryOf(t))]
  BY <1>2, WindowIs
<1>4. Own(t).turn = t /\ Own(t).role = "user"
  BY <1>1 DEF Own
<1>5. \A u \in Turns : HistoryOf(u)' = HistoryOf(u)
  BY <1>1 DEF HistoryOf, Own
<1>6. /\ sent' = [u \in Turns |-> sent'[u]]
      /\ sent'[t] = Window(HistoryOf(t))
      /\ \A u \in Turns : u # t => sent'[u] = sent[u] /\ pc'[u] = pc[u]
      /\ role'[t] = "user" /\ pc'[t] = "commit"
  <2>1. sent = [u \in Turns |-> sent[u]]
    BY DEF Sending
  <2>2. pc \in [Turns -> Points]
    BY DEF IInv, Typed
  <2> QED
    BY <1>1, <2>1, <2>2
<1>7. \A u \in Turns : sent'[u] \in Seq(Message)
  BY <1>3, <1>6 DEF Sending
<1>8. QuestionIsLast'
  <2>1. Last(sent'[t]).turn = t /\ Last(sent'[t]).role = "user"
    BY <1>2, <1>3, <1>4, <1>6
  <2>2. \A u \in Turns : u # t /\ sent'[u] # <<>> =>
          Last(sent'[u]).turn = u /\ Last(sent'[u]).role = "user"
    BY <1>6 DEF Sending, QuestionIsLast
  <2> QED
    BY <2>1, <2>2 DEF QuestionIsLast
<1>9. ASSUME NEW u \in Turns, pc'[u] = "commit" /\ role'[u] = "user"
      PROVE  IsWindow(sent'[u], HistoryOf(u)')
  <2>1. CASE u = t
    BY <1>3, <1>5, <1>6, <2>1
  <2>2. CASE u # t
    <3>1. pc[u] = "commit" /\ role[u] = "user" /\ sent'[u] = sent[u]
      BY <1>1, <1>6, <1>9, <2>2
    <3>2. IsWindow(sent[u], HistoryOf(u))
      BY <3>1 DEF Sending
    <3> QED
      BY <1>5, <3>1, <3>2
  <2> QED
    BY <2>1, <2>2
<1>10. \A u \in Turns : pc'[u] \in {"title", "history", "calling"} => role'[u] = "user"
  BY <1>1, <1>6 DEF Sending
<1> QED
  BY <1>6, <1>7, <1>8, <1>9, <1>10 DEF Sending

\* The rest of a transaction that holds the row, until its own commit.
LEMMA TurnStepSending ==
  ASSUME IInv, Sending, NEW t \in Turns, TurnStep(t) \/ Rollback(t)
  PROVE  Sending'
<1> USE DEF database, locals, Goto, StartTransaction
<1>1. pc \in [Turns -> Points] /\ role \in [Turns -> Roles]
  BY DEF IInv, Typed
<1>2. CASE ReadHistory(t)
  BY <1>2, ReadHistorySending
<1>3. CASE Require(t) \/ Create(t)
  <2>1. PICK p \in {"lock", "failed"} : pc' = [pc EXCEPT ![t] = p]
    BY <1>3 DEF Require, Create
  <2>2. /\ UNCHANGED <<messages, role, seq, sent>>
        /\ \E n : start' = [start EXCEPT ![t] = n]
    BY <1>3 DEF Require, Create
  <2> QED
    BY <1>1, <2>1, <2>2, SendingKept DEF IInv, Typed, Sending
<1>4. CASE Lock(t) \/ ReadSeq(t) \/ Insert(t) \/ InsertFails(t) \/ EnsureTitle(t)
  <2>1. PICK p \in {"seq", "insert", "touch", "failed", "conflict", "history"} :
          pc' = [pc EXCEPT ![t] = p] /\ (p = "history" => pc[t] = "title")
    BY <1>4 DEF Lock, ReadSeq, Insert, InsertFails, EnsureTitle
  <2>2. /\ UNCHANGED <<messages, role, start, sent>>
        /\ \E n : seq' = [seq EXCEPT ![t] = n]
    BY <1>4 DEF Lock, ReadSeq, Insert, InsertFails, EnsureTitle, IInv, Typed
  <2> QED
    BY <1>1, <2>1, <2>2, SendingKept DEF IInv, Typed, Sending
<1>5. CASE Touch(t)
  <2>1. UNCHANGED <<messages, role, start, seq, sent>>
    BY <1>5 DEF Touch
  <2>2. pc' = [pc EXCEPT ![t] = IF role[t] = "user" THEN "title" ELSE "commit"]
    BY <1>5 DEF Touch
  <2> QED
    BY <1>1, <2>1, <2>2, SendingKept DEF Sending
<1>6. CASE Commit(t)
  <2>1. UNCHANGED <<role, start, seq, sent>>
    BY <1>6 DEF Commit
  <2>2. PICK p \in {"calling", "done"} :
          pc' = [pc EXCEPT ![t] = p] /\ (p = "calling" => role[t] = "user")
    BY <1>6 DEF Commit
  <2>3. /\ locked[Conv(t)] = t
        /\ \A c \in Convs \ {Conv(t)} : messages'[c] = messages[c]
    BY <1>6, CommitFacts
  <2>4. \A u \in Turns : pc[u] = "commit" /\ u # t => Conv(u) # Conv(t)
    BY <2>3 DEF IInv, Locking, HasInserted
  <2> QED
    BY <1>1, <2>1, <2>2, <2>3, <2>4, TurnsBelong, SendingKept DEF Sending
<1>7. CASE Answer(t) \/ NoAnswer(t)
  <2>1. PICK p \in {"lock", "failed"} : pc' = [pc EXCEPT ![t] = p]
    BY <1>7 DEF Answer, NoAnswer
  <2>2. /\ UNCHANGED <<messages, seq, sent>>
        /\ role' = role \/ role' = [role EXCEPT ![t] = "assistant"]
        /\ start' = start \/ \E n : start' = [start EXCEPT ![t] = n]
    BY <1>7 DEF Answer, NoAnswer
  <2> QED
    BY <1>1, <2>1, <2>2, SendingKept DEF IInv, Typed, Sending
<1>8. CASE Rollback(t)
  <2>1. UNCHANGED <<messages, role, start, seq, sent>> /\ pc' = [pc EXCEPT ![t] = "failed"]
    BY <1>8 DEF Rollback
  <2> QED
    BY <1>1, <2>1, SendingKept DEF Sending
<1> QED
  BY <1>2, <1>3, <1>4, <1>5, <1>6, <1>7, <1>8 DEF TurnStep

\* A conversation that goes is not one that a turn has inserted into.
LEMMA DeleteSending ==
  ASSUME IInv, Sending, NEW c \in Convs, DeleteConversation(c) PROVE Sending'
<1>1. /\ UNCHANGED <<pc, role, start, seq, sent>>
      /\ \A t \in Turns : Conv(t) = c => pc[t] # "commit"
      /\ \A d \in Convs \ {c} : messages'[d] = messages[d]
  BY DEF DeleteConversation, locals, HasInserted, IInv, Typed
<1> QED
  BY <1>1, TurnsBelong, SendingKept DEF Sending

\* What is sent upstream is always right.
LEMMA SendingInvariance == Spec => []Sending
<1>1. IInv /\ Sending /\ [Next]_vars => Sending'
  <2> SUFFICES ASSUME IInv, Sending, [Next]_vars PROVE Sending'
    OBVIOUS
  <2>1. CASE UNCHANGED vars
    BY <2>1, SendingKept DEF Sending, vars, database, locals
  <2>2. CASE Stop
    BY <2>2, SendingKept DEF Stop, Sending, vars, database, locals
  <2> QED
    BY <2>1, <2>2, TurnStepSending, DeleteSending DEF Next
<1> QED
  BY <1>1, InitSending, Invariance, PTL DEF Spec

----------------------------------------------------------------------------
(* Waiting *)

\* Who holds the row of a conversation waits for nothing.
LEMMA HolderGoesOn ==
  ASSUME IInv, NEW t \in Turns, locked[Conv(t)] = t
  PROVE  t \in UnderWay /\ ~Waits(t)
<1>1. Conv(t) \in Convs /\ t # NoTurn
  BY TurnsBelong
<1>2. InTransaction(t)
  BY <1>1 DEF IInv, Locking
<1>3. \A u \in Turns \ {t} : HasInserted(u) => Conv(u) # Conv(t)
  BY DEF IInv, Locking
<1> QED
  BY <1>2, <1>3 DEF UnderWay, Waits, InTransaction, HasInserted, Ended

\* Who waits, waits for the holder of the row.
LEMMA WaitsForHolder ==
  ASSUME IInv, NEW t \in Turns, Waits(t)
  PROVE  \E u \in Turns : locked[Conv(u)] = u
<1>1. CASE locked[Conv(t)] \notin {NoTurn, t}
  BY <1>1, TurnsBelong DEF IInv, Typed, Locking
<1>2. CASE \E u \in Turns : HasInserted(u)
  BY <1>2 DEF IInv, Locking
<1> QED
  BY <1>1, <1>2 DEF Waits

----------------------------------------------------------------------------
(* Ending *)

\* The statements a turn has at most before it, of both transactions.
StepsLeft(t) ==
  (IF role[t] = "user" THEN 8 ELSE 0) +
  CASE pc[t] = "idle"    -> 9
    [] pc[t] = "lock"    -> 8
    [] pc[t] = "seq"     -> 7
    [] pc[t] = "insert"  -> 6
    [] pc[t] = "touch"   -> 5
    [] pc[t] = "title"   -> 4
    [] pc[t] = "history" -> 3
    [] pc[t] = "commit"  -> 2
    [] pc[t] = "calling" -> 1
    [] OTHER             -> 0

\* A step of a turn leaves it fewer of them, and those of others alone.
LEMMA StepsAreFewer ==
  ASSUME Typed, Sending, NEW t \in Turns, TurnStep(t) \/ Rollback(t)
  PROVE  /\ StepsLeft(t)' < StepsLeft(t)
         /\ \A u \in Turns \ {t} : StepsLeft(u)' = StepsLeft(u)
<1> USE DEF locals, Goto, StartTransaction
<1>1. pc \in [Turns -> Points] /\ role \in [Turns -> Roles]
  BY DEF Typed
<1>2. \A u \in Turns \ {t} : pc'[u] = pc[u] /\ role'[u] = role[u]
  BY <1>1 DEF TurnStep, Require, Create, Lock, ReadSeq, Insert, InsertFails, Touch, EnsureTitle,
              ReadHistory, Commit, Answer, NoAnswer, Rollback
<1> SUFFICES StepsLeft(t)' < StepsLeft(t)
  BY <1>2 DEF StepsLeft
<1>3. CASE Answer(t)
  <2>1. pc[t] = "calling" /\ pc'[t] = "lock" /\ role[t] = "user" /\ role'[t] = "assistant"
    BY <1>1, <1>3 DEF Answer, Sending
  <2> QED
    BY <2>1 DEF StepsLeft
<1>4. CASE Require(t) \/ Create(t)
  <2>1. pc[t] = "idle" /\ pc'[t] \in {"lock", "failed"} /\ role'[t] = role[t]
    BY <1>1, <1>4 DEF Require, Create
  <2> QED
    BY <2>1 DEF StepsLeft
<1>5. CASE Lock(t) \/ ReadSeq(t) \/ Insert(t) \/ EnsureTitle(t) \/ ReadHistory(t)
  <2>1. /\ <<pc[t], pc'[t]>> \in {<<"lock", "seq">>, <<"seq", "insert">>, <<"insert", "touch">>,
                                 <<"title", "history">>, <<"history", "commit">>}
        /\ role'[t] = role[t]
    BY <1>1, <1>5 DEF Lock, ReadSeq, Insert, EnsureTitle, ReadHistory
  <2> QED
    BY <2>1 DEF StepsLeft
<1>6. CASE Touch(t)
  <2>1. pc[t] = "touch" /\ pc'[t] \in {"title", "commit"} /\ role'[t] = role[t]
    BY <1>1, <1>6 DEF Touch
  <2> QED
    BY <2>1 DEF StepsLeft
<1>7. CASE Commit(t)
  <2>1. pc[t] = "commit" /\ pc'[t] \in {"calling", "done"} /\ role'[t] = role[t]
    BY <1>1, <1>7 DEF Commit
  <2> QED
    BY <2>1 DEF StepsLeft
<1>8. CASE InsertFails(t) \/ NoAnswer(t) \/ Rollback(t)
  <2>1. /\ pc[t] \in {"lock", "seq", "insert", "touch", "title", "history", "commit", "calling"}
        /\ pc'[t] \in {"failed", "conflict"} /\ role'[t] = role[t]
    BY <1>1, <1>8 DEF InsertFails, NoAnswer, Rollback, InTransaction, HasInserted
  <2> QED
    BY <2>1 DEF StepsLeft
<1> QED
  BY <1>3, <1>4, <1>5, <1>6, <1>7, <1>8 DEF TurnStep

----------------------------------------------------------------------------
(* The transcript of a conversation *)

\* A message with a greater number than all others is listed after them.
LEMMA InOrderGrows ==
  ASSUME NEW S, S \subseteq Message, IsFiniteSet(S), \A m, n \in S : m.seq = n.seq => m = n,
         NEW q \in Message, \A m \in S : m.seq < q.seq
  PROVE  InOrder(S \cup {q}) = Append(InOrder(S), q)
<1> DEFINE Q == S \cup {q}
           before == {p \in S \X S : p[1].seq < p[2].seq}
           after  == {p \in Q \X Q : p[1].seq < p[2].seq}
<1>1. /\ \A x, y \in S : <<x, y>> \in before <=> x.seq < y.seq
      /\ \A x, y \in Q : <<x, y>> \in after <=> x.seq < y.seq
  OBVIOUS
<1>2. \A x \in Q : x.seq \in Nat
  BY DEF Message
<1>3. q \notin S
  BY <1>2
<1>4. \A m, n \in Q : m.seq = n.seq => m = n
  BY <1>2
<1>5. InOrder(S) = OrderBy(S, before) /\ InOrder(Q) = OrderBy(Q, after)
  BY DEF InOrder
<1>6. S \subseteq Q /\ q \in Q
  OBVIOUS
<1> HIDE DEF before, after
<1>7. StrictTotalOrder(S, before) /\ StrictTotalOrder(Q, after)
  <2> HIDE DEF Q
  <2> QED
    BY <1>1, <1>2, <1>4, <1>6 DEF StrictTotalOrder
<1>8. /\ \A x, y \in S : <<x, y>> \in after <=> <<x, y>> \in before
      /\ \A x \in S : <<x, q>> \in after
  BY <1>1, <1>6
<1>9. PICK b, a, R : b = before /\ a = after /\ R = Q
  OBVIOUS
<1>10. /\ StrictTotalOrder(S, b) /\ StrictTotalOrder(R, a)
       /\ \A x, y \in S : <<x, y>> \in a <=> <<x, y>> \in b
       /\ \A x \in S : <<x, q>> \in a
  BY <1>7, <1>8, <1>9
<1>11. \A x : x \in R <=> x \in S \/ x = q
  BY <1>9
<1>12. OrderBy(R, a) = Append(OrderBy(S, b), q)
  BY <1>3, <1>10, <1>11, OrderByGrows
<1> QED
  BY <1>5, <1>9, <1>12

\* What a transcript is to its reader: who says what, in order.
LEMMA LinesList ==
  ASSUME IInv, NEW c \in Convs
  PROVE  LET rows == InOrder(messages[c]) IN
         /\ rows \in Seq(Message)
         /\ Lines(c) \in Seq(Turns \X Roles) /\ Len(Lines(c)) = Len(rows)
         /\ \A i \in 1 .. Len(rows) : Lines(c)[i] = <<rows[i].turn, rows[i].role>>
         /\ \A m \in messages[c] : \E i \in 1 .. Len(Lines(c)) : Lines(c)[i] = <<m.turn, m.role>>
<1> DEFINE rows == InOrder(messages[c])
<1>1. /\ messages[c] \subseteq Message /\ IsFiniteSet(messages[c])
      /\ \A m, n \in messages[c] : m.seq = n.seq => m = n
  BY FiniteTranscript DEF IInv, Typed, Numbering
<1>2. /\ rows \in Seq(messages[c])
      /\ \A x \in messages[c] : \E i \in 1 .. Len(rows) : rows[i] = x
  BY <1>1, InOrderLists
<1>3. Lines(c) = [i \in DOMAIN rows |-> <<rows[i].turn, rows[i].role>>]
  BY DEF Lines
<1> HIDE DEF rows
<1>4. rows \in Seq(Message)
  BY <1>1, <1>2, SeqMonotonic
<1>5. /\ Len(rows) \in Nat /\ DOMAIN rows = 1 .. Len(rows)
      /\ \A i \in 1 .. Len(rows) : rows[i] \in Message
  BY <1>4, LenProperties, ElementOfSeq
<1>6. \A i \in 1 .. Len(rows) : <<rows[i].turn, rows[i].role>> \in Turns \X Roles
  BY <1>5 DEF Message
<1>7. /\ Lines(c) \in [1 .. Len(rows) -> Turns \X Roles]
      /\ \A i \in 1 .. Len(rows) : Lines(c)[i] = <<rows[i].turn, rows[i].role>>
  BY <1>3, <1>5, <1>6
<1>8. Lines(c) \in Seq(Turns \X Roles) /\ Len(Lines(c)) = Len(rows)
  BY <1>5, <1>7, IsASeq, LenProperties
<1> QED
  BY <1>2, <1>4, <1>7, <1>8 DEF rows

\* A transcript that is gone is empty.
Erased == \A c \in Convs : messages[c] = {} => Lines(c) = <<>>

\* It is so whenever the invariant holds.
LEMMA NoLines == IInv => Erased
<1> SUFFICES ASSUME IInv, NEW c \in Convs, messages[c] = {} PROVE Lines(c) = <<>>
  BY DEF Erased
<1> DEFINE rows == InOrder(messages[c])
<1>1. Len(rows) = 0
  <2>1. IsFiniteSet({}) /\ Cardinality({}) = 0
    BY FS_EmptySet
  <2>2. {} \subseteq Message /\ \A m, n \in {} : m.seq = n.seq => m = n
    OBVIOUS
  <2> QED
    BY <2>1, <2>2, InOrderLists
<1>2. Lines(c) \in Seq(Turns \X Roles) /\ Len(Lines(c)) = Len(rows)
  BY LinesList
<1> QED
  BY <1>1, <1>2, EmptySeq

\* A commit adds one line at the end of one transcript.
LEMMA CommitLines ==
  ASSUME IInv, IInv', NEW t \in Turns, Commit(t)
  PROVE  /\ Lines(Conv(t))' = Append(Lines(Conv(t)), <<t, role[t]>>)
         /\ \A d \in Convs \ {Conv(t)} : Lines(d)' = Lines(d)
<1> DEFINE c == Conv(t)
           S == messages[c]
           q == Own(t)
           rows == InOrder(S)
           grown == InOrder(messages'[c])
<1>1. /\ c \in Convs /\ Seqs(c) = 0 .. (seq[t] - 1) /\ seq[t] \in Nat
      /\ q \in Message /\ q.seq = seq[t] /\ q.turn = t /\ q.role = role[t]
      /\ messages'[c] = S \cup {q}
      /\ \A d \in Convs \ {c} : messages'[d] = messages[d]
  BY CommitFacts, TurnsBelong
<1>2. \A d \in Convs \ {c} : Lines(d)' = Lines(d)
  BY <1>1 DEF Lines
<1>3. /\ S \subseteq Message /\ IsFiniteSet(S)
      /\ \A m, n \in S : m.seq = n.seq => m = n
  BY <1>1, FiniteTranscript DEF IInv, Typed, Numbering
<1>4. \A m \in S : m.seq < q.seq
  <2>1. \A m \in S : m.seq \in Seqs(c)
    BY DEF Seqs
  <2> QED
    BY <1>1, <2>1
<1>5. /\ rows \in Seq(Message)
      /\ Lines(c) \in Seq(Turns \X Roles) /\ Len(Lines(c)) = Len(rows)
      /\ \A i \in 1 .. Len(rows) : Lines(c)[i] = <<rows[i].turn, rows[i].role>>
  BY <1>1, LinesList
<1>6. Lines(c)' = [i \in DOMAIN grown |-> <<grown[i].turn, grown[i].role>>]
  BY DEF Lines
<1> HIDE DEF c, S, q, rows
<1>7. grown = Append(rows, q)
  BY <1>1, <1>3, <1>4, InOrderGrows DEF rows
<1> HIDE DEF grown
<1>8. /\ Len(rows) \in Nat /\ grown \in Seq(Message) /\ Len(grown) = Len(rows) + 1
      /\ DOMAIN grown = 1 .. Len(rows) + 1
      /\ \A i \in 1 .. Len(rows) : grown[i] = rows[i]
      /\ grown[Len(rows) + 1] = q
  BY <1>1, <1>5, <1>7, AppendProperties, LenProperties
<1>9. <<t, role[t]>> \in Turns \X Roles
  BY DEF IInv, Typed
<1>10. /\ Append(Lines(c), <<t, role[t]>>) \in Seq(Turns \X Roles)
       /\ Len(Append(Lines(c), <<t, role[t]>>)) = Len(rows) + 1
       /\ \A i \in 1 .. Len(rows) : Append(Lines(c), <<t, role[t]>>)[i] = Lines(c)[i]
       /\ Append(Lines(c), <<t, role[t]>>)[Len(rows) + 1] = <<t, role[t]>>
  BY <1>5, <1>9, AppendProperties
<1>11. \A i \in 1 .. Len(rows) + 1 :
         <<grown[i].turn, grown[i].role>> = Append(Lines(c), <<t, role[t]>>)[i]
  <2>1. \A i \in 1 .. Len(rows) + 1 : i \in 1 .. Len(rows) \/ i = Len(rows) + 1
    BY <1>8
  <2> QED
    BY <1>1, <1>5, <1>8, <1>10, <2>1
<1>12. DOMAIN Append(Lines(c), <<t, role[t]>>) = 1 .. Len(rows) + 1
  BY <1>10, LenProperties
<1>13. Append(Lines(c), <<t, role[t]>>) =
         [i \in 1 .. Len(rows) + 1 |-> Append(Lines(c), <<t, role[t]>>)[i]]
  BY <1>10, <1>12
<1>14. Lines(c)' = Append(Lines(c), <<t, role[t]>>)
  BY <1>6, <1>8, <1>11, <1>13
<1> QED
  BY <1>2, <1>14 DEF c

\* The transcripts and the stages of the turns.
Log == [c \in Convs |-> Lines(c)]
Stages == [t \in Turns |-> Stage(t)]

\* A statement that is not the last of its transaction.
LEMMA StaysInStage ==
  ASSUME Typed, NEW t \in Turns, NEW p \in Points \ (Ended \cup {"calling"}),
         pc' = [pc EXCEPT ![t] = p], UNCHANGED role, pc[t] \notin Ended \cup {"calling"}
  PROVE  Stages' = Stages
<1>1. \A u \in Turns : pc'[u] = (IF u = t THEN p ELSE pc[u]) /\ role'[u] = role[u]
  BY DEF Typed
<1>2. \A u \in Turns : Stage(u)' = Stage(u)
  BY <1>1 DEF Stage
<1> QED
  BY <1>2 DEF Stages

\* A turn that ends without a commit gives up.
LEMMA EndsGiveUp ==
  ASSUME Typed, NEW t \in Turns, NEW p \in Ended,
         pc' = [pc EXCEPT ![t] = p], UNCHANGED role, pc[t] \notin Ended
  PROVE  Stage(t) # "closed" /\ Stages' = [Stages EXCEPT ![t] = "closed"]
<1>1. \A u \in Turns : pc'[u] = (IF u = t THEN p ELSE pc[u]) /\ role'[u] = role[u]
  BY DEF Typed
<1>2. \A u \in Turns \ {t} : Stage(u)' = Stage(u)
  BY <1>1 DEF Stage
<1>3. Stage(t)' = "closed" /\ Stage(t) # "closed"
  BY <1>1 DEF Stage
<1> QED
  BY <1>2, <1>3 DEF Stages

\* The commit of a question asks.
LEMMA CommitAsks ==
  ASSUME IInv, IInv', NEW t \in Turns, Commit(t), role[t] = "user"
  PROVE  T!Ask(t) /\ UNCHANGED opener
<1>1. /\ Conv(t) \in Convs /\ pc[t] = "commit"
      /\ Conv(t) \in exists \/ opener[Conv(t)] = t
  BY CommitFacts, TurnsBelong
<1>2. /\ exists' = exists \cup {Conv(t)} /\ UNCHANGED <<opener, role>>
      /\ \A u \in Turns : pc'[u] = IF u = t THEN "calling" ELSE pc[u]
  BY DEF Commit, Goto, locals, IInv, Typed
<1>3. Stage(t) = "new" /\ Stage(t)' = "asked" /\ \A u \in Turns \ {t} : Stage(u)' = Stage(u)
  BY <1>1, <1>2 DEF Stage, Ended
<1>4. Stages[t] = "new" /\ Stages' = [Stages EXCEPT ![t] = "asked"]
  BY <1>3 DEF Stages
<1>5. Log' = [Log EXCEPT ![Conv(t)] = Append(@, <<t, "user">>)]
  <2>1. /\ Lines(Conv(t))' = Append(Lines(Conv(t)), <<t, "user">>)
        /\ \A d \in Convs \ {Conv(t)} : Lines(d)' = Lines(d)
    BY CommitLines
  <2> QED
    BY <1>1, <2>1 DEF Log
<1> QED
  BY <1>1, <1>2, <1>4, <1>5 DEF T!Ask, T!Says, Log, Stages, Conv

\* The commit of a reply replies, to a transcript that holds the question.
LEMMA CommitReplies ==
  ASSUME IInv, IInv', NEW t \in Turns, Commit(t), role[t] = "assistant"
  PROVE  T!Reply(t) /\ UNCHANGED opener
<1>1. /\ Conv(t) \in Convs /\ pc[t] = "commit" /\ Conv(t) \in exists
  BY CommitFacts, TurnsBelong DEF Fresh
<1>2. /\ UNCHANGED <<exists, opener, role>>
      /\ \A u \in Turns : pc'[u] = IF u = t THEN "done" ELSE pc[u]
  BY <1>1 DEF Commit, Goto, locals, IInv, Typed
<1>3. Stage(t) = "asked" /\ Stage(t)' = "closed" /\ \A u \in Turns \ {t} : Stage(u)' = Stage(u)
  BY <1>1, <1>2 DEF Stage, Ended
<1>4. Stages[t] = "asked" /\ Stages' = [Stages EXCEPT ![t] = "closed"]
  BY <1>3 DEF Stages
<1>5. Log[Conv(t)] = Lines(Conv(t))
  BY <1>1 DEF Log
<1>6. \E i \in 1 .. Len(Log[Conv(t)]) : Log[Conv(t)][i] = <<t, "user">>
  <2>1. PICK q \in messages[Conv(t)] : q.role = "user" /\ q.turn = t
    BY <1>1 DEF IInv, Questioned
  <2>2. \A m \in messages[Conv(t)] :
          \E i \in 1 .. Len(Lines(Conv(t))) : Lines(Conv(t))[i] = <<m.turn, m.role>>
    BY <1>1, LinesList
  <2> QED
    BY <1>5, <2>1, <2>2
<1>7. Log' = [Log EXCEPT ![Conv(t)] = Append(@, <<t, "assistant">>)]
  <2>1. /\ Lines(Conv(t))' = Append(Lines(Conv(t)), <<t, "assistant">>)
        /\ \A d \in Convs \ {Conv(t)} : Lines(d)' = Lines(d)
    BY CommitLines
  <2> QED
    BY <1>1, <2>1 DEF Log
<1> QED
  BY <1>1, <1>2, <1>4, <1>6, <1>7 DEF T!Reply, T!Says, Log, Stages, Conv

\* A deletion takes the whole transcript.
LEMMA DeleteErases ==
  ASSUME IInv, IInv', NEW c \in Convs, DeleteConversation(c)
  PROVE  T!Delete(c) /\ UNCHANGED opener
<1>1. /\ c \in exists /\ exists' = exists \ {c} /\ UNCHANGED <<opener, pc, role>>
      /\ messages'[c] = {} /\ \A d \in Convs \ {c} : messages'[d] = messages[d]
  BY DEF DeleteConversation, locals, IInv, Typed
<1>2. Stages' = Stages
  BY <1>1 DEF Stages, Stage
<1>3. \A d \in Convs \ {c} : Lines(d)' = Lines(d)
  BY <1>1 DEF Lines
<1>4. Lines(c)' = <<>>
  <2>1. Erased'
    BY NoLines, PTL
  <2> QED
    BY <1>1, <2>1 DEF Erased
<1>5. Log' = [Log EXCEPT ![c] = <<>>]
  BY <1>3, <1>4 DEF Log
<1> QED
  BY <1>1, <1>2, <1>5 DEF T!Delete, Log, Stages

\* Every step adds a line, erases a transcript, lets a turn give up, or is
\* nothing that a reader of the transcripts notices.
LEMMA StepKeeps ==
  ASSUME IInv, IInv', Sending, [Next]_vars
  PROVE  T!Next \/ UNCHANGED <<opener, exists, Log, Stages>>
<1> USE DEF Goto, StartTransaction, database, locals
<1>1. Typed
  BY DEF IInv
<1>2. UNCHANGED messages => UNCHANGED Log
  BY DEF Log, Lines
<1>3. ASSUME NEW t \in Turns, Commit(t) PROVE T!Next
  <2>1. role[t] = "user" \/ role[t] = "assistant"
    BY <1>1 DEF Typed, Roles
  <2>2. (T!Ask(t) \/ T!Reply(t)) /\ UNCHANGED opener
    BY <1>3, <2>1, CommitAsks, CommitReplies
  <2> QED
    BY <2>2 DEF T!Next
<1>4. ASSUME NEW t \in Turns,
             \/ Lock(t) \/ ReadSeq(t) \/ Insert(t) \/ Touch(t) \/ EnsureTitle(t)
             \/ ReadHistory(t) \/ Create(t) \/ (Require(t) /\ Conv(t) \in exists)
      PROVE  UNCHANGED <<opener, exists, Log, Stages>>
  <2>1. UNCHANGED <<opener, exists, messages, role>>
    BY <1>4 DEF Lock, ReadSeq, Insert, Touch, EnsureTitle, ReadHistory, Create, Require
  <2>2. /\ pc[t] \notin Ended \cup {"calling"}
        /\ \E p \in Points \ (Ended \cup {"calling"}) : pc' = [pc EXCEPT ![t] = p]
    BY <1>4 DEF Lock, ReadSeq, Insert, Touch, EnsureTitle, ReadHistory, Create, Require, Points,
                Ended
  <2> QED
    BY <1>1, <1>2, <2>1, <2>2, StaysInStage
<1>5. ASSUME NEW t \in Turns,
             \/ InsertFails(t) \/ NoAnswer(t) \/ Rollback(t)
             \/ (Require(t) /\ Conv(t) \notin exists)
      PROVE  T!Next
  <2>1. UNCHANGED <<opener, exists, messages, role>>
    BY <1>5 DEF InsertFails, NoAnswer, Rollback, Require
  <2>2. /\ pc[t] \notin Ended
        /\ \E p \in Ended : pc' = [pc EXCEPT ![t] = p]
    BY <1>5 DEF InsertFails, NoAnswer, Rollback, Require, InTransaction, HasInserted, Ended
  <2>3. Stage(t) # "closed" /\ Stages' = [Stages EXCEPT ![t] = "closed"]
    BY <1>1, <2>1, <2>2, EndsGiveUp
  <2>4. Stages[t] # "closed"
    BY <2>3 DEF Stages
  <2> QED
    BY <1>2, <2>1, <2>3, <2>4 DEF T!Next, T!GiveUp, Log, Stages
<1>6. ASSUME NEW t \in Turns, Answer(t) PROVE UNCHANGED <<opener, exists, Log, Stages>>
  <2>1. /\ UNCHANGED <<opener, exists, messages>> /\ pc[t] = "calling"
        /\ pc' = [pc EXCEPT ![t] = "lock"] /\ role' = [role EXCEPT ![t] = "assistant"]
    BY <1>6 DEF Answer
  <2>2. /\ pc'[t] = "lock" /\ role'[t] = "assistant"
        /\ \A u \in Turns \ {t} : pc'[u] = pc[u] /\ role'[u] = role[u]
    BY <1>1, <2>1 DEF Typed
  <2>3. Stage(t)' = "asked" /\ Stage(t) = "asked"
    BY <2>1, <2>2 DEF Stage, Ended
  <2>4. \A u \in Turns : Stage(u)' = Stage(u)
    BY <2>2, <2>3 DEF Stage
  <2> QED
    BY <1>2, <2>1, <2>4 DEF Stages
<1>7. ASSUME NEW c \in Convs, DeleteConversation(c) PROVE T!Next
  BY <1>7, DeleteErases DEF T!Next
<1>8. CASE UNCHANGED vars
  BY <1>8 DEF vars, Log, Lines, Stages, Stage
<1> QED
  BY <1>3, <1>4, <1>5, <1>6, <1>7, <1>8 DEF Next, Stop, TurnStep

----------------------------------------------------------------------------
(* Theorems *)

\* Numbers that are dense as a set are dense one below the other.
LEMMA DenseIsDense == IInv => TranscriptIsDense
<1> SUFFICES ASSUME IInv, NEW c \in Convs
             PROVE  /\ \A m \in messages[c] : \A k \in 0 .. m.seq :
                         \E n \in messages[c] : n.seq = k
                    /\ \A m, n \in messages[c] : m.seq = n.seq => m = n
  BY DEF TranscriptIsDense
<1>1. PICK n \in Nat : Seqs(c) = 0 .. (n - 1)
  BY DEF IInv, Numbering
<1>2. ASSUME NEW m \in messages[c], NEW k \in 0 .. m.seq
      PROVE  \E j \in messages[c] : j.seq = k
  <2>1. m.seq \in 0 .. (n - 1)
    BY <1>1 DEF Seqs
  <2>2. k \in Seqs(c)
    BY <1>1, <2>1
  <2> QED
    BY <2>2 DEF Seqs
<1> QED
  BY <1>2 DEF IInv, Numbering

\* However many turns append to a conversation at once, its messages stay
\* numbered 0, 1, 2 and so on, each number once: append_message() reads the
\* next number under the lock of the conversation's row.
THEOREM Dense == Spec => []TranscriptIsDense
<1> QED
  BY Invariance, DenseIsDense, PTL

\* No turn ever fails on the unique constraint because of another one: the
\* row is locked before the next number is read.
THEOREM NoTurnFailsAnother == Spec => []NoConflict
<1>1. IInv => NoConflict
  BY DEF IInv
<1> QED
  BY <1>1, Invariance, PTL

\* A conversation is titled by the message it opens with, deletes and first
\* transactions that fail included: ensure_title() sets it only where it is
\* NULL, under the lock that the append took.
THEOREM TitledByOpening == Spec => []TitleIsOpening
<1>1. IInv => TitleIsOpening
  BY DEF IInv, Stored
<1> QED
  BY <1>1, Invariance, PTL

\* A stored reply comes after the question it answers, although the two are
\* recorded by transactions with the provider call between them.
THEOREM RepliesFollow == Spec => []RepliesFollowQuestions
<1>1. IInv => RepliesFollowQuestions
  BY DEF IInv, Stored
<1> QED
  BY <1>1, Invariance, PTL

\* Turns on shared conversations keep the transcripts as if each wrote its
\* lines alone, whatever they interleave, roll back or find deleted: a
\* transcript grows at its end, each turn asks once and replies once, to a
\* transcript that holds its question.
THEOREM TranscriptIsKept == Spec => KeepsTranscript
<1>1. Init => T!Init
  <2> SUFFICES ASSUME Init PROVE T!Init
    OBVIOUS
  <2>1. IInv
    BY InitIInv
  <2>2. \A c \in Convs : Lines(c) = <<>>
    BY <2>1, NoLines DEF Init, Erased
  <2>3. \A t \in Turns : Stage(t) = "new"
    BY DEF Init, Stage, Ended
  <2> QED
    BY <2>2, <2>3 DEF Init, T!Init
<1>2. IInv /\ IInv' /\ Sending /\ [Next]_vars =>
        [T!Next]_<<opener, exists, [c \in Convs |-> Lines(c)], [t \in Turns |-> Stage(t)]>>
  BY StepKeeps DEF Log, Stages
<1> QED
  BY <1>1, <1>2, Invariance, SendingInvariance, PTL DEF Spec, KeepsTranscript, T!Spec

\* updated_at is the time of the newest message, in whatever order the turns
\* of a conversation began: _touch() runs under the same lock as the append.
THEOREM TouchedLast == Spec => []NewestTouchedLast
<1>1. IInv => NewestTouchedLast
  BY DEF IInv, Stored
<1> QED
  BY <1>1, Invariance, PTL

\* Every variable keeps its type whatever the turns do, and a row is locked
\* only by a turn in the middle of a transaction on it.
THEOREM ConversationsAreTyped == Spec => []TypeOK
<1>1. IInv /\ Sending => TypeOK
  BY DEF IInv, Typed, Locking, Sending, TypeOK
<1> QED
  BY <1>1, Invariance, SendingInvariance, PTL

\* What is sent upstream ends with the question being asked, however many
\* turns append to the conversation and whatever bounds the window has: the
\* row is held from the insert to the commit, so nobody's message comes after.
THEOREM QuestionComesLast == Spec => []QuestionIsLast
<1>1. Sending => QuestionIsLast
  BY DEF Sending
<1> QED
  BY <1>1, SendingInvariance, PTL

\* What is sent upstream is the longest end of the conversation within both
\* bounds, and still is when the transaction commits.
THEOREM WindowIsTheLongest == Spec => []WindowIsLongest
<1>1. Sending => WindowIsLongest
  BY DEF Sending, WindowIsLongest, IsWindow, HistoryOf
<1> QED
  BY <1>1, SendingInvariance, PTL

\* However many turns append to however many conversations, those under way
\* never all wait for a row or for each other's inserts: a lock has a holder
\* that waits for nothing, so no cycle of waiting turns exists.
THEOREM NoDeadlock == Spec => []NeverAllWait
<1>1. IInv => NeverAllWait
  <2> SUFFICES ASSUME IInv, NEW t \in UnderWay PROVE \E u \in UnderWay : ~Waits(u)
    BY DEF NeverAllWait
  <2>1. t \in Turns
    BY DEF UnderWay
  <2>2. CASE Waits(t)
    BY <2>1, <2>2, WaitsForHolder, HolderGoesOn
  <2> QED
    BY <2>2
<1> QED
  BY <1>1, Invariance, PTL

\* A turn ends: every statement leaves it fewer of the 17 steps that it has at
\* most, failures included, and neither another turn nor a deletion gives it
\* more (services/chat.py send and stream repeat nothing).  With NoDeadlock,
\* turns under way end whatever order they run in.
THEOREM TurnsWearOut ==
  Spec => [][\A t \in Turns :
               /\ StepsLeft(t)' <= StepsLeft(t)
               /\ TurnStep(t) \/ Rollback(t) => StepsLeft(t)' < StepsLeft(t)]_vars
<1>1. ASSUME Typed, Sending, Next
      PROVE  \A t \in Turns :
               /\ StepsLeft(t)' <= StepsLeft(t)
               /\ TurnStep(t) \/ Rollback(t) => StepsLeft(t)' < StepsLeft(t)
  <2>1. \A t \in Turns : StepsLeft(t) \in Nat
    BY DEF StepsLeft
  <2>2. ASSUME NEW t \in Turns, TurnStep(t) \/ Rollback(t)
        PROVE  \A u \in Turns : StepsLeft(u)' <= StepsLeft(u)
    <3>1. /\ StepsLeft(t)' < StepsLeft(t)
          /\ \A u \in Turns \ {t} : StepsLeft(u)' = StepsLeft(u)
      BY <1>1, <2>2, StepsAreFewer
    <3>2. \A u \in Turns : StepsLeft(u)' \in Nat
      BY DEF StepsLeft
    <3> QED
      BY <2>1, <3>1, <3>2
  <2>3. ASSUME Stop \/ \E c \in Convs : DeleteConversation(c)
        PROVE  \A u \in Turns : StepsLeft(u)' <= StepsLeft(u)
    <3>1. UNCHANGED <<pc, role>>
      BY <2>3 DEF Stop, DeleteConversation, vars, locals
    <3>2. \A u \in Turns : StepsLeft(u)' = StepsLeft(u)
      BY <3>1 DEF StepsLeft
    <3> QED
      BY <2>1, <3>2
  <2>4. \A u \in Turns : StepsLeft(u)' <= StepsLeft(u)
    BY <1>1, <2>2, <2>3 DEF Next
  <2>5. \A u \in Turns : TurnStep(u) \/ Rollback(u) => StepsLeft(u)' < StepsLeft(u)
    BY <1>1, StepsAreFewer
  <2> QED
    BY <2>4, <2>5
<1>2. Typed /\ Sending /\ [Next]_vars =>
        [\A t \in Turns :
           /\ StepsLeft(t)' <= StepsLeft(t)
           /\ TurnStep(t) \/ Rollback(t) => StepsLeft(t)' < StepsLeft(t)]_vars
  BY <1>1
<1>3. IInv => Typed
  BY DEF IInv
<1> QED
  BY <1>2, <1>3, Invariance, SendingInvariance, PTL DEF Spec

=============================================================================
