--------------------------- MODULE ServerRequests ---------------------------
(***************************************************************************)
(* How a client's request travels through one server (KvServer,            *)
(* ShardmasterServer): the RPC handler threads, the server's mutex, the     *)
(* condition variable in map_[index] on which a handler waits for its log   *)
(* entry, and the thread that applies the log (RaftNode::do_apply).         *)
(*                                                                         *)
(* Raft is seen from this one node: it leads or not, its log grows, what is *)
(* not committed may be replaced while another node leads, what is          *)
(* committed is applied in order.  Everything that RaftNode does under its  *)
(* own mutex is one step, except do_apply, which other threads may watch    *)
(* between a callback and the notification that follows it.                 *)
(*                                                                         *)
(* Just before some definitions stands a faulty variant of them, used by    *)
(* nothing here: PROJECT.json names the property each variant must break.   *)
(***************************************************************************)
EXTENDS Integers, Sequences, FiniteSets

CONSTANTS
  Request,    \* the requests, each handled by a thread of its own
  Reading,    \* the requests that are a GET of KvServer, which is not logged
  Refused,    \* the requests whose callback sets flag = false (ShardmasterServer)
  Foreign,    \* the entries that other nodes put into the log
  None,
  MaxLog,     \* bound: the entries of the log when another node adds to it
  MaxChange,  \* bound: how often the leadership is won or lost
  MaxSpurious \* bound: spurious wakeups of a condition variable

ASSUME RequestAssumption == /\ IsFiniteSet(Request) /\ Reading \subseteq Request
                            /\ Refused \subseteq Request
                            /\ Request \cap Foreign = {}
                            /\ None \notin Request \union {"SUCCESS", "FAIL", "AGAIN"}
ASSUME BoundAssumption == MaxLog \in Nat /\ MaxChange \in Nat /\ MaxSpurious \in Nat

VARIABLES
  pc,          \* where the handler of each request is
  index,       \* what do_log returned to it
  woken,       \* the handlers that were notified and have not yet run
  answer,      \* the flag of the response
  serverMu,    \* who holds kv_mut (shardmasterServerMu)
  mapKeys,     \* the keys of map_
  mapMu,       \* per key of map_: who holds its mutex
  leads,       \* node->state = Leader
  log,         \* node->logs, the entries as the requests they carry
  commitIndex,
  lastApplied,
  flag,        \* the verdict of the last callback, shared by all handlers
  applying,    \* where do_apply is: "idle", "callback" or "notify"
  executed,    \* history: the entries given to the state machine
  faults       \* history: leadership changes and spurious wakeups so far

handlerVars == <<pc, index, woken, answer>>
lockVars    == <<serverMu, mapKeys, mapMu>>
applyVars   == <<lastApplied, applying, executed, flag>>
raftVars    == <<leads, log, commitIndex>>
vars == <<pc, index, woken, answer, serverMu, mapKeys, mapMu, leads, log,
          commitIndex, lastApplied, flag, applying, executed, faults>>
-----------------------------------------------------------------------------
NotLeader == -3                        \* -NUFT_NOT_LEADER, taken for an index
Keys == 0 .. MaxLog + Cardinality(Request) - 1 \union {NotLeader}
LastIndex == Len(log) - 1

Init ==
  /\ pc = [r \in Request |-> "check"]
  /\ index = [r \in Request |-> NotLeader]
  /\ woken = {}
  /\ answer = [r \in Request |-> None]
  /\ serverMu = None
  /\ mapKeys = {}
  /\ mapMu = [k \in Keys |-> None]
  /\ leads \in BOOLEAN
  /\ log = <<>>
  /\ commitIndex = -1
  /\ lastApplied = -1
  /\ flag = TRUE
  /\ applying = "idle"
  /\ executed = {}
  /\ faults = [change |-> 0, spurious |-> 0]

Goto(r, from, to) == pc[r] = from /\ pc' = [pc EXCEPT ![r] = to]
Reply(r, verdict) == answer' = [answer EXCEPT ![r] = verdict]
-----------------------------------------------------------------------------
(* The handler of one request.                                              *)

(* node->state is read without any lock.                                    *)
CheckLeader(r) ==
  /\ IF leads THEN Goto(r, "check", "lock") /\ UNCHANGED answer
              ELSE Goto(r, "check", "done") /\ Reply(r, "AGAIN")
  /\ UNCHANGED <<index, woken, lockVars, raftVars, applyVars, faults>>

LockServer(r) ==
  /\ serverMu = None
  /\ serverMu' = r
  /\ Goto(r, "lock", IF r \in Reading THEN "read" ELSE "log")
  /\ UNCHANGED <<index, woken, answer, mapKeys, mapMu, raftVars, applyVars, faults>>

(* A GET looks into the database of this server, whatever the log holds.    *)
ReadDatabase(r) ==
  /\ Goto(r, "read", "done")
  /\ Reply(r, IF executed = {} THEN "FAIL" ELSE "SUCCESS")
  /\ serverMu' = None
  /\ UNCHANGED <<index, woken, mapKeys, mapMu, raftVars, applyVars, faults>>

(* do_log, under the mutex of the node.                                     *)
DoLog(r) ==
  /\ applying = "idle"
  /\ Goto(r, "log", "entry")
  /\ IF leads
     THEN /\ log' = Append(log, r)
          /\ index' = [index EXCEPT ![r] = Len(log)]
     ELSE index' = [index EXCEPT ![r] = NotLeader] /\ UNCHANGED log
  /\ UNCHANGED <<woken, answer, lockVars, leads, commitIndex, applyVars, faults>>

(* std::unique_lock lk(map_[index].first) makes the key of map_.            *)
LockEntry(r) ==
  /\ Goto(r, "entry", "unlock")
  /\ mapMu[index[r]] = None
  /\ mapMu' = [mapMu EXCEPT ![index[r]] = r]
  /\ mapKeys' = mapKeys \union {index[r]}
  /\ UNCHANGED <<index, woken, answer, serverMu, raftVars, applyVars, faults>>

UnlockServerForgotten(r) ==
  /\ Goto(r, "unlock", "enter")
  /\ UNCHANGED <<index, woken, answer, lockVars, raftVars, applyVars, faults>>
UnlockServer(r) ==
  /\ Goto(r, "unlock", "enter")
  /\ serverMu' = None
  /\ UNCHANGED <<index, woken, answer, mapKeys, mapMu, raftVars, applyVars, faults>>

(* wait_for gives the mutex back and waits for at most 60 seconds; it tests *)
(* no predicate.                                                            *)
EnterWait(r) ==
  /\ Goto(r, "enter", "wait")
  /\ mapMu' = [mapMu EXCEPT ![index[r]] = None]
  /\ UNCHANGED <<index, woken, answer, serverMu, mapKeys, raftVars, applyVars, faults>>

LeaveWaitWoken(r, to) ==
  /\ Goto(r, "wait", to)
  /\ mapMu[index[r]] = None
  /\ UNCHANGED <<index, woken, lockVars, raftVars, applyVars>>
LeaveWait(r, to) ==
  /\ Goto(r, "wait", to)
  /\ mapMu[index[r]] = None
  /\ woken' = woken \ {r}
  /\ UNCHANGED <<index, lockVars, raftVars, applyVars>>

Notified(r) == r \in woken /\ LeaveWait(r, "respond") /\ UNCHANGED <<answer, faults>>
TimedOut(r) == LeaveWait(r, "done") /\ Reply(r, "FAIL") /\ UNCHANGED faults
Spurious(r) ==
  /\ faults.spurious < MaxSpurious
  /\ faults' = [faults EXCEPT !.spurious = @ + 1]
  /\ r \notin woken
  /\ LeaveWait(r, "respond")
  /\ UNCHANGED answer

(* flag is read after lk.unlock(), whichever callback set it last.          *)
Respond(r) ==
  /\ Goto(r, "respond", "done")
  /\ Reply(r, IF flag THEN "SUCCESS" ELSE "FAIL")
  /\ UNCHANGED <<index, woken, lockVars, raftVars, applyVars, faults>>
-----------------------------------------------------------------------------
(* do_apply: for every committed entry a callback, then the notification of *)
(* whoever waits for its index.                                             *)
ApplyCallback ==
  /\ applying = "callback"
  /\ applying' = "notify"
  /\ executed' = executed \union {log[lastApplied + 2]}
  /\ flag' = (log[lastApplied + 2] \notin Refused)
  /\ UNCHANGED <<handlerVars, lockVars, raftVars, lastApplied, faults>>

Waiters(i) == {r \in Request : pc[r] = "wait" /\ index[r] = i /\ r \notin woken}
NotifyAll(i) == woken' = woken \union Waiters(i)
NotifyOne(i) ==
  IF i \notin mapKeys \/ Waiters(i) = {} THEN UNCHANGED woken
  ELSE \E r \in Waiters(i) : woken' = woken \union {r}

ApplyNotify ==
  /\ applying = "notify"
  /\ NotifyOne(lastApplied + 1)
  /\ lastApplied' = lastApplied + 1
  /\ applying' = IF lastApplied' = commitIndex THEN "idle" ELSE "callback"
  /\ UNCHANGED <<pc, index, answer, lockVars, raftVars, executed, flag, faults>>
-----------------------------------------------------------------------------
(* Raft, as this node sees it.                                              *)
Commit ==
  /\ applying = "idle"
  /\ commitIndex' \in commitIndex + 1 .. LastIndex
  /\ applying' = "callback"
  /\ UNCHANGED <<handlerVars, lockVars, leads, log, lastApplied, executed, flag, faults>>

ChangeLeader ==
  /\ applying = "idle"
  /\ faults.change < MaxChange
  /\ faults' = [faults EXCEPT !.change = @ + 1]
  /\ leads' = ~leads
  /\ UNCHANGED <<handlerVars, lockVars, log, commitIndex, applyVars>>

(* Another leader's AppendEntries replaces what is not committed.           *)
FollowLog ==
  /\ applying = "idle"
  /\ ~leads
  /\ \E kept \in commitIndex + 1 .. Len(log), e \in Foreign :
       /\ kept < MaxLog
       /\ log' = Append(SubSeq(log, 1, kept), e)
  /\ UNCHANGED <<handlerVars, lockVars, leads, commitIndex, applyVars, faults>>
-----------------------------------------------------------------------------
Handler(r) ==
  \/ CheckLeader(r) \/ LockServer(r) \/ ReadDatabase(r) \/ DoLog(r)
  \/ LockEntry(r) \/ UnlockServer(r) \/ EnterWait(r)
  \/ Notified(r) \/ TimedOut(r) \/ Respond(r)
DoApply == ApplyCallback \/ ApplyNotify
RaftNode == Commit \/ ChangeLeader \/ FollowLog

Next == (\E r \in Request : Handler(r) \/ Spurious(r)) \/ DoApply \/ RaftNode

(* Threads are scheduled, a mutex that is free is eventually taken by who   *)
(* wants it, and 60 seconds pass; nothing is assumed of Raft, and a handler *)
(* is not assumed to be notified.                                           *)
Fairness == /\ \A r \in Request : WF_vars(Handler(r))
            /\ WF_vars(DoApply)
Spec == Init /\ [][Next]_vars
FairSpec == Spec /\ Fairness
-----------------------------------------------------------------------------
(* Properties.                                                              *)

Places == {"check", "lock", "read", "log", "entry", "unlock", "enter", "wait", "respond", "done"}

TypeOK ==
  /\ pc \in [Request -> Places]
  /\ index \in [Request -> Keys]
  /\ woken \subseteq {r \in Request : pc[r] = "wait"}
  /\ answer \in [Request -> {None, "SUCCESS", "FAIL", "AGAIN"}]
  /\ serverMu \in Request \union {None}
  /\ mapKeys \subseteq Keys
  /\ mapMu \in [Keys -> Request \union {None}]
  /\ leads \in BOOLEAN
  /\ log \in Seq(Request \union Foreign) /\ Len(log) <= MaxLog + Cardinality(Request)
  /\ commitIndex \in -1 .. LastIndex
  /\ lastApplied \in -1 .. commitIndex
  /\ flag \in BOOLEAN
  /\ applying \in {"idle", "callback", "notify"}
  /\ executed \subseteq Request \union Foreign
  /\ faults \in [change : 0 .. MaxChange, spurious : 0 .. MaxSpurious]

(* A client is told SUCCESS only when its own entry has been applied.       *)
SuccessMeansExecuted ==
  \A r \in Request \ Reading : answer[r] = "SUCCESS" => r \in executed

(* However often an index is given out anew when the leadership changes,    *)
(* the entry applied there wakes at most one client to be told SUCCESS      *)
(* (notify_one), and nobody is told before that; only a spurious wakeup     *)
(* adds to them.                                                            *)
Successes(i) == {r \in Request \ Reading :
                   index[r] = i /\ (r \in woken \/ pc[r] = "respond" \/ answer[r] = "SUCCESS")}
OneSuccessPerEntry ==
  \A i \in Keys : Cardinality(Successes(i)) <=
                   (IF i \in 0 .. lastApplied THEN 1 ELSE 0) + faults.spurious

(* Every request is answered: handlers, the applying thread and the two     *)
(* kinds of mutexes never wait for each other in a circle, and nobody is    *)
(* left holding the server's mutex.                                         *)
EveryRequestAnswered == \A r \in Request : <>(answer[r] # None)
=============================================================================
