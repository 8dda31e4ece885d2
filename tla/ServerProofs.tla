---------------------------- MODULE ServerProofs ----------------------------
(***************************************************************************)
(* What holds of ServerRequests for any number of clients and any bounds:   *)
(* its state is well typed, the index that do_log returns is always one of  *)
(* map_'s keys, and one applied entry is a success for one client at most.  *)
(***************************************************************************)
EXTENDS ServerRequests, FiniteSetTheorems, SequenceTheorems, TLAPS

(* The handlers that have been through do_log, or will never come to it.    *)
PastLog == {r \in Request : pc[r] \notin {"check", "lock", "read", "log"}}

(* What the two properties need to be inductive: only the handlers that are  *)
(* past do_log make the log longer than another leader would; do_apply has   *)
(* something to apply exactly while it runs; only a handler that is done has *)
(* told its client anything; and only a GET reads the database.             *)
LogBound == Len(log) <= MaxLog + Cardinality(PastLog)
AppliesCommitted == (lastApplied < commitIndex) <=> (applying # "idle")
AnsweredAtEnd == \A r \in Request : answer[r] # None => pc[r] = "done"

ReadersRead == \A r \in Request : pc[r] = "read" => r \in Reading

ServerInv == TypeOK /\ LogBound /\ AppliesCommitted /\ AnsweredAtEnd /\ ReadersRead
-----------------------------------------------------------------------------
(* The moves of a handler.                                                  *)

USE RequestAssumption, BoundAssumption DEF Places

LEMMA PastLogFinite ==
  /\ IsFiniteSet(PastLog) /\ Cardinality(PastLog) \in Nat
  /\ Cardinality(PastLog) <= Cardinality(Request)
  /\ Cardinality(Request) \in Nat
BY FS_Subset, FS_CardinalityType DEF PastLog

(* A handler that does not come from before do_log adds nothing to PastLog, *)
(* one that does adds itself.                                               *)
LEMMA PastLogGrows ==
  ASSUME NEW r \in Request, NEW to, pc \in [Request -> Places],
         pc' = [pc EXCEPT ![r] = to], to \notin {"check", "lock", "read", "log"}
  PROVE  /\ PastLog' = PastLog \union {r}
         /\ IsFiniteSet(PastLog')
         /\ Cardinality(PastLog) <= Cardinality(PastLog')
         /\ Cardinality(PastLog') <= Cardinality(Request)
         /\ r \notin PastLog => Cardinality(PastLog') = Cardinality(PastLog) + 1
         /\ Cardinality(PastLog') \in Nat
<1>1. PastLog' = PastLog \union {r}
  BY DEF PastLog
<1>2. IsFiniteSet(PastLog) /\ Cardinality(PastLog) \in Nat
  BY PastLogFinite
<1>3. PastLog' \subseteq Request
  BY DEF PastLog
<1> QED
  BY <1>1, <1>2, <1>3, FS_AddElement, FS_Subset, FS_CardinalityType

(* Before do_log, and between its end and the answer, the log is as it was.  *)
LEMMA MoveKeeps ==
  ASSUME ServerInv, NEW r \in Request, NEW from, NEW to, Goto(r, from, to),
         from \notin {"wait", "log"},
         from \in {"check", "lock"} \/ to \notin {"check", "lock", "read", "log"},
         to \in {"lock", "read", "log", "entry", "unlock", "enter", "wait", "respond", "done"},
         UNCHANGED <<woken, log>>
  PROVE  /\ pc' \in [Request -> Places]
         /\ woken' \subseteq {q \in Request : pc'[q] = "wait"}
         /\ LogBound'
<1>1. pc \in [Request -> Places]
      /\ woken \subseteq {q \in Request : pc[q] = "wait"}
      /\ log \in Seq(Request \union Foreign)
  BY DEF ServerInv, TypeOK
<1>2. woken' \subseteq {q \in Request : pc'[q] = "wait"}
  BY <1>1 DEF Goto
<1>3. CASE to \in {"lock", "read", "log"}
  <2>1. PastLog' = PastLog
    BY <1>1, <1>3 DEF PastLog, Goto
  <2> QED BY <1>1, <1>2, <1>3, <2>1 DEF ServerInv, LogBound, Goto
<1>4. CASE to \notin {"lock", "read", "log"}
  <2>1. Cardinality(PastLog) <= Cardinality(PastLog')
        /\ Cardinality(PastLog') \in Nat /\ Cardinality(PastLog) \in Nat
    BY <1>1, <1>4, PastLogGrows, PastLogFinite DEF Goto
  <2>2. LogBound'
    BY <1>1, <2>1 DEF ServerInv, LogBound
  <2> QED BY <1>1, <1>2, <2>2 DEF Goto
<1> QED BY <1>3, <1>4

LEMMA CheckLeaderKeeps == ASSUME ServerInv, NEW r \in Request, CheckLeader(r) PROVE ServerInv'
<1> USE DEF CheckLeader, lockVars, raftVars, applyVars
<1>1. \E to \in {"lock", "done"} : Goto(r, "check", to)
  OBVIOUS
<1>2. /\ pc' \in [Request -> Places]
      /\ woken' \subseteq {q \in Request : pc'[q] = "wait"}
      /\ LogBound'
  BY <1>1, MoveKeeps
<1>3. TypeOK'
  BY <1>2 DEF ServerInv, TypeOK, Reply, LastIndex
<1>4. AnsweredAtEnd' /\ ReadersRead'
  BY <1>2 DEF ServerInv, TypeOK, AnsweredAtEnd, ReadersRead, Reply, Goto
<1> QED BY <1>2, <1>3, <1>4 DEF ServerInv, AppliesCommitted

LEMMA LockServerKeeps == ASSUME ServerInv, NEW r \in Request, LockServer(r) PROVE ServerInv'
<1> USE DEF LockServer, raftVars, applyVars
<1>1. \E to \in {"read", "log"} : Goto(r, "lock", to)
  OBVIOUS
<1>2. /\ pc' \in [Request -> Places]
      /\ woken' \subseteq {q \in Request : pc'[q] = "wait"}
      /\ LogBound'
  BY <1>1, MoveKeeps
<1>3. TypeOK'
  BY <1>2 DEF ServerInv, TypeOK, LastIndex
<1>4. AnsweredAtEnd' /\ ReadersRead'
  BY <1>1 DEF ServerInv, TypeOK, AnsweredAtEnd, ReadersRead, Goto
<1> QED BY <1>2, <1>3, <1>4 DEF ServerInv, AppliesCommitted

LEMMA ReadDatabaseKeeps == ASSUME ServerInv, NEW r \in Request, ReadDatabase(r) PROVE ServerInv'
<1> USE DEF ReadDatabase, raftVars, applyVars
<1>2. /\ pc' \in [Request -> Places]
      /\ woken' \subseteq {q \in Request : pc'[q] = "wait"}
      /\ LogBound'
  BY MoveKeeps
<1>3. TypeOK'
  BY <1>2 DEF ServerInv, TypeOK, Reply, LastIndex
<1>4. AnsweredAtEnd' /\ ReadersRead'
  BY <1>2 DEF ServerInv, TypeOK, AnsweredAtEnd, ReadersRead, Reply, Goto
<1> QED BY <1>2, <1>3, <1>4 DEF ServerInv, AppliesCommitted

(* The handler finds the log no longer than the others can have made it, so *)
(* the index it gets is one that map_ can have.                             *)
LEMMA DoLogKeeps == ASSUME ServerInv, NEW r \in Request, DoLog(r) PROVE ServerInv'
<1> USE DEF DoLog, lockVars, applyVars
<1>1. /\ pc \in [Request -> Places]
      /\ woken \subseteq {q \in Request : pc[q] = "wait"}
      /\ log \in Seq(Request \union Foreign) /\ Len(log) \in Nat
      /\ index \in [Request -> Keys]
  BY DEF ServerInv, TypeOK
<1>2. r \notin PastLog
  BY DEF Goto, PastLog
<1>3. /\ Cardinality(PastLog') = Cardinality(PastLog) + 1
      /\ Cardinality(PastLog') <= Cardinality(Request)
      /\ Cardinality(PastLog) \in Nat /\ Cardinality(Request) \in Nat
  <2>1. pc' = [pc EXCEPT ![r] = "entry"]
    BY DEF Goto
  <2> QED BY <1>1, <1>2, <2>1, PastLogGrows, PastLogFinite
<1>4. Len(log) \in Keys /\ NotLeader \in Keys
  BY <1>1, <1>3 DEF ServerInv, LogBound, Keys
<1>5. /\ log' \in Seq(Request \union Foreign)
      /\ Len(log') \in {Len(log), Len(log) + 1}
  BY <1>1
<1>6. LogBound' /\ Len(log') <= MaxLog + Cardinality(Request)
  BY <1>1, <1>3, <1>5 DEF ServerInv, LogBound
<1>7. index' \in [Request -> Keys]
  BY <1>1, <1>4
<1>8. pc' \in [Request -> Places]
      /\ woken' \subseteq {q \in Request : pc'[q] = "wait"}
  BY <1>1 DEF Goto
<1>9. commitIndex' \in -1 .. LastIndex'
  BY <1>1, <1>5 DEF ServerInv, TypeOK, LastIndex
<1>10. TypeOK'
  BY <1>5, <1>6, <1>7, <1>8, <1>9 DEF ServerInv, TypeOK
<1>11. AnsweredAtEnd' /\ ReadersRead'
  BY <1>1 DEF ServerInv, AnsweredAtEnd, ReadersRead, Goto
<1> QED BY <1>6, <1>10, <1>11 DEF ServerInv, AppliesCommitted

LEMMA LockEntryKeeps == ASSUME ServerInv, NEW r \in Request, LockEntry(r) PROVE ServerInv'
<1> USE DEF LockEntry, raftVars, applyVars
<1>1. /\ pc' \in [Request -> Places]
      /\ woken' \subseteq {q \in Request : pc'[q] = "wait"}
      /\ LogBound'
  BY MoveKeeps
<1>2. TypeOK'
  BY <1>1 DEF ServerInv, TypeOK, LastIndex
<1>3. AnsweredAtEnd' /\ ReadersRead'
  BY DEF ServerInv, TypeOK, AnsweredAtEnd, ReadersRead, Goto
<1> QED BY <1>1, <1>2, <1>3 DEF ServerInv, AppliesCommitted

LEMMA UnlockServerKeeps == ASSUME ServerInv, NEW r \in Request, UnlockServer(r) PROVE ServerInv'
<1> USE DEF UnlockServer, raftVars, applyVars
<1>1. /\ pc' \in [Request -> Places]
      /\ woken' \subseteq {q \in Request : pc'[q] = "wait"}
      /\ LogBound'
  BY MoveKeeps
<1>2. TypeOK'
  BY <1>1 DEF ServerInv, TypeOK, LastIndex
<1>3. AnsweredAtEnd' /\ ReadersRead'
  BY DEF ServerInv, TypeOK, AnsweredAtEnd, ReadersRead, Goto
<1> QED BY <1>1, <1>2, <1>3 DEF ServerInv, AppliesCommitted

LEMMA EnterWaitKeeps == ASSUME ServerInv, NEW r \in Request, EnterWait(r) PROVE ServerInv'
<1> USE DEF EnterWait, raftVars, applyVars
<1>1. /\ pc' \in [Request -> Places]
      /\ woken' \subseteq {q \in Request : pc'[q] = "wait"}
      /\ LogBound'
  BY MoveKeeps
<1>2. TypeOK'
  BY <1>1 DEF ServerInv, TypeOK, LastIndex
<1>3. AnsweredAtEnd' /\ ReadersRead'
  BY DEF ServerInv, TypeOK, AnsweredAtEnd, ReadersRead, Goto
<1> QED BY <1>1, <1>2, <1>3 DEF ServerInv, AppliesCommitted

LEMMA RespondKeeps == ASSUME ServerInv, NEW r \in Request, Respond(r) PROVE ServerInv'
<1> USE DEF Respond, lockVars, raftVars, applyVars
<1>1. /\ pc' \in [Request -> Places]
      /\ woken' \subseteq {q \in Request : pc'[q] = "wait"}
      /\ LogBound'
  BY MoveKeeps
<1>2. TypeOK'
  BY <1>1 DEF ServerInv, TypeOK, LastIndex, Reply
<1>3. AnsweredAtEnd' /\ ReadersRead'
  BY DEF ServerInv, TypeOK, AnsweredAtEnd, ReadersRead, Goto, Reply
<1> QED BY <1>1, <1>2, <1>3 DEF ServerInv, AppliesCommitted

LEMMA LeaveWaitKeeps ==
  ASSUME ServerInv, NEW r \in Request, NEW to \in {"respond", "done"}, LeaveWait(r, to),
         faults' \in [change : 0 .. MaxChange, spurious : 0 .. MaxSpurious],
         UNCHANGED answer \/ (to = "done" /\ Reply(r, "FAIL"))
  PROVE  ServerInv'
<1> USE DEF LeaveWait, lockVars, raftVars, applyVars
<1>1. pc \in [Request -> Places] /\ woken \subseteq {q \in Request : pc[q] = "wait"}
  BY DEF ServerInv, TypeOK
<1>2. pc' \in [Request -> Places] /\ woken' \subseteq {q \in Request : pc'[q] = "wait"}
  BY <1>1 DEF Goto
<1>3. PastLog' = PastLog
  BY <1>1 DEF PastLog, Goto
<1>4. LogBound'
  BY <1>3 DEF ServerInv, LogBound
<1>5. answer' \in [Request -> {None, "SUCCESS", "FAIL", "AGAIN"}]
  BY DEF ServerInv, TypeOK, Reply
<1>6. TypeOK'
  BY <1>2, <1>5 DEF ServerInv, TypeOK, LastIndex
<1>7. AnsweredAtEnd' /\ ReadersRead'
  BY <1>1 DEF ServerInv, TypeOK, AnsweredAtEnd, ReadersRead, Goto, Reply
<1> QED BY <1>4, <1>6, <1>7 DEF ServerInv, AppliesCommitted

(* do_apply, and what Raft does to the log.                                 *)
LEMMA ApplyCallbackKeeps == ASSUME ServerInv, ApplyCallback PROVE ServerInv'
<1> USE DEF ApplyCallback, handlerVars, lockVars, raftVars
<1>1. lastApplied + 2 \in 1 .. Len(log) /\ log \in Seq(Request \union Foreign)
  BY DEF ServerInv, TypeOK, AppliesCommitted, LastIndex
<1>2. log[lastApplied + 2] \in Request \union Foreign
  BY <1>1, ElementOfSeq
<1>3. TypeOK'
  BY <1>2 DEF ServerInv, TypeOK, LastIndex
<1>4. PastLog' = PastLog
  BY DEF PastLog
<1> QED BY <1>3, <1>4 DEF ServerInv, AppliesCommitted, LogBound, AnsweredAtEnd, ReadersRead

LEMMA ApplyNotifyKeeps == ASSUME ServerInv, ApplyNotify PROVE ServerInv'
<1> USE DEF ApplyNotify, lockVars, raftVars
<1>1. woken' \subseteq {q \in Request : pc'[q] = "wait"}
  BY DEF NotifyOne, Waiters, ServerInv, TypeOK
<1>2. lastApplied' \in -1 .. commitIndex
      /\ (lastApplied' < commitIndex <=> applying' # "idle")
      /\ applying' \in {"idle", "callback", "notify"}
  BY DEF ServerInv, TypeOK, AppliesCommitted
<1>3. TypeOK'
  BY <1>1, <1>2 DEF ServerInv, TypeOK, LastIndex
<1>4. PastLog' = PastLog
  BY DEF PastLog
<1> QED BY <1>2, <1>3, <1>4 DEF ServerInv, AppliesCommitted, LogBound, AnsweredAtEnd, ReadersRead

LEMMA RaftKeeps == ASSUME ServerInv, RaftNode PROVE ServerInv'
<1> USE DEF handlerVars, lockVars, applyVars
<1>1. PastLog' = PastLog
  BY DEF PastLog, RaftNode, Commit, ChangeLeader, FollowLog
<1>2. CASE Commit
  <2>1. TypeOK'
    BY <1>2 DEF Commit, ServerInv, TypeOK, AppliesCommitted, LastIndex
  <2>2. AppliesCommitted'
    BY <1>2 DEF Commit, ServerInv, TypeOK, AppliesCommitted, LastIndex
  <2> QED BY <1>1, <1>2, <2>1, <2>2 DEF Commit, ServerInv, LogBound, AnsweredAtEnd, ReadersRead
<1>3. CASE ChangeLeader
  <2>1. TypeOK'
    BY <1>3 DEF ChangeLeader, ServerInv, TypeOK, LastIndex
  <2> QED BY <1>1, <1>3, <2>1 DEF ChangeLeader, ServerInv, AppliesCommitted, LogBound, AnsweredAtEnd, ReadersRead
<1>4. CASE FollowLog
  <2> USE <1>4 DEF FollowLog
  <2>1. PICK kept \in commitIndex + 1 .. Len(log), e \in Foreign :
          kept < MaxLog /\ log' = Append(SubSeq(log, 1, kept), e)
    OBVIOUS
  <2>2. /\ log \in Seq(Request \union Foreign) /\ Len(log) \in Nat
        /\ commitIndex \in -1 .. Len(log) - 1 /\ kept \in 0 .. Len(log)
    BY <2>1 DEF ServerInv, TypeOK, LastIndex
  <2>3. SubSeq(log, 1, kept) \in Seq(Request \union Foreign) /\ Len(SubSeq(log, 1, kept)) = kept
    BY <2>2, SubSeqProperties
  <2>4. log' \in Seq(Request \union Foreign) /\ Len(log') = kept + 1
    BY <2>1, <2>3
  <2>5. Cardinality(PastLog) \in Nat /\ Cardinality(Request) \in Nat
    BY PastLogFinite
  <2>6. LogBound' /\ Len(log') <= MaxLog + Cardinality(Request)
    BY <1>1, <2>1, <2>2, <2>4, <2>5 DEF LogBound
  <2>7. TypeOK'
    BY <2>1, <2>2, <2>4, <2>6 DEF ServerInv, TypeOK, LastIndex
  <2> QED BY <2>6, <2>7 DEF ServerInv, AppliesCommitted, AnsweredAtEnd, ReadersRead
<1> QED BY <1>2, <1>3, <1>4 DEF RaftNode

LEMMA ServerInit == Init => ServerInv
<1> SUFFICES ASSUME Init PROVE ServerInv
  OBVIOUS
<1> USE DEF Init
<1>1. Cardinality(PastLog) \in Nat /\ Cardinality(Request) \in Nat
  BY PastLogFinite
<1>2. NotLeader \in Keys
  BY DEF Keys
<1>3. log \in Seq(Request \union Foreign) /\ Len(log) = 0
  OBVIOUS
<1>4. TypeOK
  BY <1>1, <1>2, <1>3 DEF TypeOK, LastIndex
<1> QED BY <1>1, <1>3, <1>4 DEF ServerInv, LogBound, AppliesCommitted, AnsweredAtEnd, ReadersRead

LEMMA ServerStutter == ASSUME ServerInv, UNCHANGED vars PROVE ServerInv'
<1> USE DEF vars
<1>1. TypeOK'
  BY DEF ServerInv, TypeOK, LastIndex
<1>2. PastLog' = PastLog
  BY DEF PastLog
<1> QED BY <1>1, <1>2 DEF ServerInv, LogBound, AppliesCommitted, AnsweredAtEnd, ReadersRead

LEMMA ServerNext == ServerInv /\ [Next]_vars => ServerInv'
<1> SUFFICES ASSUME ServerInv, [Next]_vars PROVE ServerInv'
  OBVIOUS
<1>1. ASSUME NEW r \in Request, Handler(r) PROVE ServerInv'
  <2>1. CASE CheckLeader(r) \/ LockServer(r) \/ ReadDatabase(r) \/ DoLog(r)
    BY <2>1, CheckLeaderKeeps, LockServerKeeps, ReadDatabaseKeeps, DoLogKeeps
  <2>2. CASE LockEntry(r) \/ UnlockServer(r) \/ EnterWait(r) \/ Respond(r)
    BY <2>2, LockEntryKeeps, UnlockServerKeeps, EnterWaitKeeps, RespondKeeps
  <2>3. CASE Notified(r) \/ TimedOut(r)
    <3>1. faults' \in [change : 0 .. MaxChange, spurious : 0 .. MaxSpurious]
      BY <2>3 DEF Notified, TimedOut, ServerInv, TypeOK
    <3> QED BY <2>3, <3>1, LeaveWaitKeeps DEF Notified, TimedOut
  <2> QED BY <1>1, <2>1, <2>2, <2>3 DEF Handler
<1>2. ASSUME NEW r \in Request, Spurious(r) PROVE ServerInv'
  <2>1. faults' \in [change : 0 .. MaxChange, spurious : 0 .. MaxSpurious]
    BY <1>2 DEF Spurious, ServerInv, TypeOK
  <2> QED BY <1>2, <2>1, LeaveWaitKeeps DEF Spurious
<1>3. CASE DoApply
  BY <1>3, ApplyCallbackKeeps, ApplyNotifyKeeps DEF DoApply
<1>4. CASE RaftNode
  BY <1>4, RaftKeeps
<1>5. CASE UNCHANGED vars
  BY <1>5, ServerStutter
<1> QED BY <1>1, <1>2, <1>3, <1>4, <1>5 DEF Next

(* Every step of a handler, of do_apply and of Raft keeps the state well     *)
(* typed; in particular the index that a handler waits on is a key of map_. *)
THEOREM WellTyped == Spec => []TypeOK
<1>1. ServerInv => TypeOK
  BY DEF ServerInv
<1> QED BY <1>1, ServerInit, ServerNext, PTL DEF Spec

THEOREM ServerInvariant == Spec => []ServerInv
BY ServerInit, ServerNext, PTL DEF Spec
-----------------------------------------------------------------------------
(* One success per entry.  What a step can add to the successes of an index *)
(* is the one handler that was notified, and then only for the index that   *)
(* is applied, which had none before, or one that wakes up by itself.       *)

LEMMA SuccessesFinite ==
  ASSUME NEW i PROVE IsFiniteSet(Successes(i)) /\ Cardinality(Successes(i)) \in Nat
BY FS_Subset, FS_CardinalityType DEF Successes

(* The steps that make nobody else a success.                               *)
LEMMA FewerSuccesses ==
  ASSUME ServerInv, OneSuccessPerEntry, faults'.spurious = faults.spurious,
         lastApplied' = lastApplied,
         \A i \in Keys : Successes(i)' \subseteq Successes(i)
  PROVE  OneSuccessPerEntry'
<1>1. ASSUME NEW i \in Keys PROVE Cardinality(Successes(i)') <= Cardinality(Successes(i))
                                 /\ Cardinality(Successes(i)') \in Nat
  BY SuccessesFinite, FS_Subset, FS_CardinalityType
<1>2. ASSUME NEW i \in Keys PROVE Cardinality(Successes(i)) \in Nat
  BY SuccessesFinite
<1>3. faults.spurious \in Nat
  BY DEF ServerInv, TypeOK
<1> QED BY <1>1, <1>2, <1>3 DEF OneSuccessPerEntry

(* The steps that make one handler a success.                               *)
LEMMA OneMoreSuccess ==
  ASSUME NEW r, NEW i, Successes(i)' \subseteq Successes(i) \union {r}
  PROVE  /\ Cardinality(Successes(i)') <= Cardinality(Successes(i)) + 1
         /\ Cardinality(Successes(i)') \in Nat
<1>1. IsFiniteSet(Successes(i)) /\ Cardinality(Successes(i)) \in Nat
  BY SuccessesFinite
<1>2. /\ IsFiniteSet(Successes(i) \union {r})
      /\ Cardinality(Successes(i) \union {r}) <= Cardinality(Successes(i)) + 1
      /\ Cardinality(Successes(i) \union {r}) \in Nat
  <2>1. /\ IsFiniteSet(Successes(i) \union {r})
        /\ Cardinality(Successes(i) \union {r})
             = IF r \in Successes(i) THEN Cardinality(Successes(i)) ELSE Cardinality(Successes(i)) + 1
    BY <1>1, FS_AddElement
  <2> QED BY <1>1, <2>1
<1>3. /\ IsFiniteSet(Successes(i)')
      /\ Cardinality(Successes(i)') <= Cardinality(Successes(i) \union {r})
  BY <1>2, FS_Subset
<1>4. Cardinality(Successes(i)') \in Nat
  BY <1>3, FS_CardinalityType
<1> QED BY <1>1, <1>2, <1>3, <1>4

LEMMA HandlerSuccesses ==
  ASSUME ServerInv, OneSuccessPerEntry, NEW r \in Request, Handler(r)
  PROVE  OneSuccessPerEntry'
<1>1. faults'.spurious = faults.spurious /\ lastApplied' = lastApplied
  BY DEF Handler, CheckLeader, LockServer, ReadDatabase, DoLog, LockEntry, UnlockServer,
         EnterWait, Notified, TimedOut, LeaveWait, Respond, applyVars
<1>2. ASSUME NEW i \in Keys PROVE Successes(i)' \subseteq Successes(i)
  <2> SUFFICES ASSUME NEW q \in Request \ Reading, q \in Successes(i)'
               PROVE  q \in Successes(i)
    BY DEF Successes
  <2> USE DEF Successes, Goto, Reply
  <2>1. /\ pc \in [Request -> Places] /\ answer \in [Request -> {None, "SUCCESS", "FAIL", "AGAIN"}]
        /\ index \in [Request -> Keys]
        /\ woken \subseteq {p \in Request : pc[p] = "wait"}
        /\ \A p \in Request : answer[p] # None => pc[p] = "done"
    BY DEF ServerInv, TypeOK, AnsweredAtEnd, ReadersRead
  <2>2. CASE CheckLeader(r) \/ LockServer(r)
    BY <2>1, <2>2 DEF CheckLeader, LockServer
  <2>3. CASE ReadDatabase(r)
    BY <2>1, <2>3 DEF ReadDatabase, ServerInv, ReadersRead
  <2>4. CASE DoLog(r)
    <3>1. q # r
      BY <2>1, <2>4 DEF DoLog
    <3>2. index'[q] = index[q]
      BY <2>1, <2>4, <3>1 DEF DoLog
    <3> QED BY <2>1, <2>4, <3>1, <3>2 DEF DoLog
  <2>5. CASE LockEntry(r) \/ UnlockServer(r) \/ EnterWait(r)
    BY <2>1, <2>5 DEF LockEntry, UnlockServer, EnterWait
  <2>6. CASE Notified(r) \/ TimedOut(r)
    BY <2>1, <2>6 DEF Notified, TimedOut, LeaveWait
  <2>7. CASE Respond(r)
    BY <2>1, <2>7 DEF Respond
  <2> QED BY <2>2, <2>3, <2>4, <2>5, <2>6, <2>7 DEF Handler
<1> QED BY <1>1, <1>2, FewerSuccesses

LEMMA SpuriousSuccesses ==
  ASSUME ServerInv, OneSuccessPerEntry, NEW r \in Request, Spurious(r)
  PROVE  OneSuccessPerEntry'
<1>1. faults'.spurious = faults.spurious + 1 /\ lastApplied' = lastApplied
      /\ faults.spurious \in Nat
  BY DEF Spurious, LeaveWait, applyVars, ServerInv, TypeOK
<1>2. ASSUME NEW i \in Keys PROVE Successes(i)' \subseteq Successes(i) \union {r}
  BY DEF Spurious, LeaveWait, Successes, Goto, ServerInv, TypeOK
<1>3. ASSUME NEW i \in Keys
      PROVE  /\ Cardinality(Successes(i)') <= Cardinality(Successes(i)) + 1
             /\ Cardinality(Successes(i)') \in Nat /\ Cardinality(Successes(i)) \in Nat
  BY <1>2, OneMoreSuccess, SuccessesFinite
<1> QED BY <1>1, <1>3 DEF OneSuccessPerEntry

(* notify_one: nobody was a success at the index that is being applied.     *)
LEMMA NotifySuccesses ==
  ASSUME ServerInv, OneSuccessPerEntry, ApplyNotify
  PROVE  OneSuccessPerEntry'
<1>1. /\ faults' = faults /\ faults.spurious \in Nat
      /\ lastApplied' = lastApplied + 1 /\ lastApplied \in Int /\ lastApplied >= -1
  BY DEF ApplyNotify, ServerInv, TypeOK
<1>2. ASSUME NEW i \in Keys, i # lastApplied + 1 PROVE Successes(i)' \subseteq Successes(i)
  BY <1>2 DEF ApplyNotify, NotifyOne, Waiters, Successes
<1>3. \E r : \A i \in Keys : Successes(i)' \subseteq Successes(i) \union {r}
  <2>1. \E r : woken' \subseteq woken \union {r}
    BY DEF ApplyNotify, NotifyOne
  <2>2. pc' = pc /\ index' = index /\ answer' = answer
    BY DEF ApplyNotify
  <2>3. PICK r : woken' \subseteq woken \union {r}
    BY <2>1
  <2>4. ASSUME NEW i \in Keys PROVE Successes(i)' \subseteq Successes(i) \union {r}
    BY <2>2, <2>3 DEF Successes
  <2> QED BY <2>4
<1>4. ASSUME NEW i \in Keys
      PROVE  Cardinality(Successes(i)') <= (IF i \in 0 .. lastApplied' THEN 1 ELSE 0) + faults'.spurious
  <2>1. /\ Cardinality(Successes(i)) <= (IF i \in 0 .. lastApplied THEN 1 ELSE 0) + faults.spurious
        /\ Cardinality(Successes(i)) \in Nat
    BY SuccessesFinite DEF OneSuccessPerEntry
  <2>2. CASE i = lastApplied + 1
    <3>0. PICK r : Successes(i)' \subseteq Successes(i) \union {r}
      BY <1>3
    <3>1. /\ Cardinality(Successes(i)') <= Cardinality(Successes(i)) + 1
          /\ Cardinality(Successes(i)') \in Nat
      BY <3>0, OneMoreSuccess
    <3> QED BY <1>1, <2>1, <2>2, <3>1
  <2>3. CASE i # lastApplied + 1
    <3>1. /\ Cardinality(Successes(i)') <= Cardinality(Successes(i))
          /\ Cardinality(Successes(i)') \in Nat
      BY <1>2, <2>3, SuccessesFinite, FS_Subset, FS_CardinalityType
    <3>2. i \in Int
      BY DEF Keys, NotLeader
    <3>3. i \in 0 .. lastApplied <=> i \in 0 .. lastApplied'
      BY <1>1, <2>3, <3>2
    <3> QED BY <1>1, <2>1, <3>1, <3>3
  <2> QED BY <2>2, <2>3
<1> QED BY <1>4 DEF OneSuccessPerEntry

(* However the leadership changes and whatever index is given out anew, the  *)
(* entry that is applied at an index is a success for one client at most,    *)
(* and for none before it is applied: only spurious wakeups add to them.     *)
THEOREM OneSuccess == Spec => []OneSuccessPerEntry
<1>1. Init => OneSuccessPerEntry
  <2> SUFFICES ASSUME Init PROVE OneSuccessPerEntry
    OBVIOUS
  <2>1. ASSUME NEW i \in Keys PROVE Successes(i) = {}
    BY RequestAssumption DEF Init, Successes
  <2>2. faults.spurious = 0 /\ lastApplied = -1 /\ 0 .. lastApplied = {}
    BY DEF Init
  <2>3. Cardinality({}) = 0
    BY FS_EmptySet
  <2>4. ASSUME NEW i \in Keys
        PROVE  Cardinality(Successes(i)) <= (IF i \in 0 .. lastApplied THEN 1 ELSE 0) + faults.spurious
    BY <2>1, <2>2, <2>3
  <2> QED BY <2>4 DEF OneSuccessPerEntry
<1>2. ServerInv /\ OneSuccessPerEntry /\ [Next]_vars => OneSuccessPerEntry'
  <2> SUFFICES ASSUME ServerInv, OneSuccessPerEntry, [Next]_vars PROVE OneSuccessPerEntry'
    OBVIOUS
  <2>1. CASE ApplyCallback \/ RaftNode \/ UNCHANGED vars
    <3>1. /\ faults'.spurious = faults.spurious /\ lastApplied' = lastApplied
          /\ UNCHANGED handlerVars
      BY <2>1 DEF ApplyCallback, RaftNode, Commit, ChangeLeader, FollowLog, vars, handlerVars, applyVars, ServerInv, TypeOK
    <3>2. \A i \in Keys : Successes(i)' \subseteq Successes(i)
      BY <3>1 DEF Successes, handlerVars
    <3> QED BY <3>1, <3>2, FewerSuccesses
  <2> QED BY <2>1, HandlerSuccesses, SpuriousSuccesses, NotifySuccesses DEF Next, DoApply
<1> QED BY <1>1, <1>2, ServerInvariant, PTL DEF Spec
=============================================================================
