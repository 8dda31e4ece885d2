------------------------------ MODULE RaftNode ------------------------------
(***************************************************************************)
(* A cluster of RaftNode objects (node.h, node.cpp, node_state.cpp,        *)
(* node_rpc_r.cpp, node_rpc_a.cpp, node_persister.cpp): elections, log     *)
(* replication, persistence, crash and restart, pause and resume, and the  *)
(* asynchronous RPCs between the nodes.  Every handler of the code runs    *)
(* under the node's mutex, so every handler is one action.                 *)
(*                                                                         *)
(* The membership is fixed (trans_conf = nullptr, every peer has voting    *)
(* rights) and no log is compacted, so that get_base_index() is 0 for a    *)
(* log that is not empty and -1 for an empty one.  Log indices are those   *)
(* of the code: the first entry has index 0.                               *)
(*                                                                         *)
(* Just before some definitions stands a faulty variant of them, used by    *)
(* nothing here: PROJECT.json names the property each variant must break.   *)
(***************************************************************************)
EXTENDS Integers, Sequences, FiniteSets

CONSTANTS
  Node,       \* the nodes of the cluster
  None,       \* vote_for_none, and the empty leader_name
  Timely,     \* TRUE: an RPC that is overtaken by another one, or by its
              \* sender's next term, is lost; FALSE: it may arrive late
  MaxElection,\* bound: elections started in the whole run, so also of terms
  MaxSend,    \* bound: calls of do_append_entries in the whole run
  MaxLog,     \* bound: the entries of a log
  MaxCrash,   \* bound: crashes of the whole run
  MaxPause,   \* bound: calls of stop()
  MaxCut      \* bound: calls of disable_send()

ASSUME NodeAssumption == IsFiniteSet(Node) /\ None \notin Node
ASSUME BoundAssumption == /\ Timely \in BOOLEAN
                          /\ MaxElection \in Nat /\ MaxSend \in Nat
                          /\ MaxLog \in Nat /\ MaxCrash \in Nat
                          /\ MaxPause \in Nat /\ MaxCut \in Nat

VARIABLES
  state,        \* NodeState
  paused,       \* set by stop(), cleared by resume()
  currentTerm,  \* current_term
  voteFor,      \* vote_for
  leaderName,   \* leader_name
  lastSeq,      \* last_seq: the last sequence number accepted from anybody
  logs,         \* logs, each entry with its term and the leader that logged it
  commitIndex,  \* commit_index
  lastApplied,  \* last_applied
  electArmed,   \* elect_timeout_due # UINT64_MAX
  failArmed,    \* election_fail_timeout_due # UINT64_MAX
  votes,        \* per peer: the term of the grant behind voted_for_me, 0 = false
  nextIndex,    \* per peer: next_index
  matchIndex,   \* per peer: match_index
  seq,          \* per peer: the sequence number of the next RPC
  sendEnabled,  \* the peers whose send_enabled is set
  disk,         \* the .persist file
  msgs,         \* RPCs and answers under way
  grants,       \* history: every vote granted to a peer
  elected,      \* history: every election won, with the votes counted
  applied,      \* history: every [index, entry] given to a state machine
  faults        \* history: elections, sends, crashes, pauses and cuts so far (for the bounds)

coreVars   == <<state, currentTerm, voteFor>>
timerVars  == <<electArmed, failArmed>>
logVars    == <<logs, commitIndex, lastApplied, applied>>
peerVars   == <<nextIndex, matchIndex>>
histVars   == <<grants, elected, faults>>
vars == <<state, paused, currentTerm, voteFor, leaderName, lastSeq, logs,
          commitIndex, lastApplied, electArmed, failArmed, votes, nextIndex,
          matchIndex, seq, sendEnabled, disk, msgs, grants, elected, applied,
          faults>>
-----------------------------------------------------------------------------
States == {"Follower", "Candidate", "Leader", "NotRunning"}
Peers(n) == Node \ {n}

LastIndexOf(log) == Len(log) - 1
LastTermOf(log) == IF log = <<>> THEN 0 ELSE log[Len(log)].term
BaseIndexOf(log) == IF log = <<>> THEN -1 ELSE 0
TermAt(log, i) == log[i + 1].term
Entry(n) == [term |-> currentTerm[n], owner |-> n]
EmptyDisk == [term |-> 0, voteFor |-> None, logs |-> <<>>]

Running(n) == state[n] # "NotRunning" /\ ~paused[n]
EnoughVotesHalf(count) == count >= Cardinality(Node) \div 2
EnoughVotes(count) == count > Cardinality(Node) \div 2
LesserOf(a, b) == IF a <= b THEN a ELSE b
GreaterOf(a, b) == IF a >= b THEN a ELSE b

(* Persister::Dump: a node that is paused or not running writes nothing.   *)
DumpNoVote(n) ==
  disk' = IF Running(n)
          THEN [disk EXCEPT ![n] = [term |-> currentTerm'[n], voteFor |-> None,
                                    logs |-> logs'[n]]]
          ELSE disk
DumpNoTerm(n) == disk' = [disk EXCEPT ![n].voteFor = voteFor'[n], ![n].logs = logs'[n]]
Dump(n) ==
  disk' = IF Running(n)
          THEN [disk EXCEPT ![n] = [term |-> currentTerm'[n],
                                    voteFor |-> voteFor'[n],
                                    logs |-> logs'[n]]]
          ELSE disk

ResetElectionTimeoutForgotten(n) ==
  failArmed' = [failArmed EXCEPT ![n] = FALSE] /\ UNCHANGED electArmed
ResetElectionTimeout(n) ==
  /\ electArmed' = [electArmed EXCEPT ![n] = TRUE]
  /\ failArmed' = [failArmed EXCEPT ![n] = FALSE]

BecomeFollower(n, term) ==
  /\ state' = [state EXCEPT ![n] = "Follower"]
  /\ currentTerm' = [currentTerm EXCEPT ![n] = term]
  /\ voteFor' = [voteFor EXCEPT ![n] = None]
  /\ lastSeq' = [lastSeq EXCEPT ![n] = 0]

BecomeLeader(n) ==
  /\ state' = [state EXCEPT ![n] = "Leader"]
  /\ leaderName' = [leaderName EXCEPT ![n] = n]
  /\ nextIndex' = [nextIndex EXCEPT ![n] = [p \in Node |-> commitIndex[n] + 1]]
  /\ matchIndex' = [matchIndex EXCEPT ![n] = [p \in Node |-> -1]]
  /\ seq' = [seq EXCEPT ![n] = [p \in Node |-> 1]]
  /\ elected' = elected \union
       {[term |-> currentTerm[n], node |-> n, votes |-> votes'[n]]}

TestElection(n, got) ==
  EnoughVotes(1 + Cardinality({p \in Peers(n) : got[p] # 0}))

(* valid_seq: "initial" is the flag of an RPC with sequence number 1.      *)
ValidSeq(m, last) == m.seq = 1 \/ m.seq > last
-----------------------------------------------------------------------------
(* The transport: gRPC calls that may be delayed, reordered or lost and are *)
(* never duplicated.  A message that is lost, or that its handler ignores   *)
(* at once, stays in msgs for ever.  "asked" is the term of the call that   *)
(* an answer belongs to; "live" is FALSE once the calling process is gone,  *)
(* and with it the completion queue that waits for the answer.              *)
IsRequest(m) == m.type \in {"VoteRequest", "AppendRequest"}

Deliverable(m) ==
  Timely => IF IsRequest(m) THEN m.live /\ m.term = currentTerm[m.from]
                            ELSE m.asked = currentTerm[m.to]

Overtaken(m) == {o \in msgs : /\ o.type = m.type /\ o.from = m.from
                              /\ o.to = m.to /\ o.term = m.term
                              /\ o.seq < m.seq}
Consumed(m) == IF Timely /\ m.type = "AppendRequest"
               THEN {m} \union Overtaken(m) ELSE {m}

Receive(m) == msgs' = msgs \ Consumed(m)
Reply(m, r) == msgs' = (msgs \ Consumed(m)) \union (IF m.live THEN {r} ELSE {})

VoteResponse(m, term, granted) ==
  [type |-> "VoteResponse", from |-> m.to, to |-> m.from, asked |-> m.term,
   term |-> term, granted |-> granted, seq |-> m.seq]
AppendResponse(m, term, success, last) ==
  [type |-> "AppendResponse", from |-> m.to, to |-> m.from, asked |-> m.term,
   term |-> term, success |-> success, last |-> last, seq |-> m.seq]
-----------------------------------------------------------------------------
Start ==
  /\ state = [n \in Node |-> "Follower"]
  /\ paused = [n \in Node |-> FALSE]
  /\ currentTerm = [n \in Node |-> 0]
  /\ voteFor = [n \in Node |-> None]
  /\ leaderName = [n \in Node |-> None]
  /\ lastSeq = [n \in Node |-> 0]
  /\ logs = [n \in Node |-> <<>>]
  /\ commitIndex = [n \in Node |-> -1]
  /\ lastApplied = [n \in Node |-> -1]
  /\ electArmed = [n \in Node |-> TRUE]
  /\ failArmed = [n \in Node |-> FALSE]
  /\ votes = [n \in Node |-> [p \in Node |-> 0]]
  /\ nextIndex = [n \in Node |-> [p \in Node |-> 0]]
  /\ matchIndex = [n \in Node |-> [p \in Node |-> -1]]
  /\ seq = [n \in Node |-> [p \in Node |-> 1]]
  /\ sendEnabled = [n \in Node |-> Peers(n)]
  /\ disk = [n \in Node |-> EmptyDisk]
  /\ msgs = {}
  /\ grants = {}
  /\ elected = {}
  /\ applied = {}

Init ==
  /\ Start
  /\ faults = [election |-> 0, send |-> 0, crash |-> 0, pause |-> 0, cut |-> 0]
-----------------------------------------------------------------------------
(* on_timer, the three things it may do; none of them excludes that the     *)
(* timer fires late, so a due time is only "armed" or not.                  *)

VoteRequest(n, p) ==
  [type |-> "VoteRequest", from |-> n, to |-> p, live |-> TRUE,
   term |-> currentTerm[n] + 1, lastIndex |-> LastIndexOf(logs[n]),
   lastTerm |-> LastTermOf(logs[n]), seq |-> seq[n][p]]

(* do_election: a peer that is cut off keeps its voted_for_me.              *)
OnTimerElection(n) ==
  /\ Running(n)
  /\ state[n] \in {"Follower", "Candidate"}
  /\ electArmed[n]
  /\ faults.election < MaxElection
  /\ faults' = [faults EXCEPT !.election = @ + 1]
  /\ state' = [state EXCEPT ![n] = "Candidate"]
  /\ currentTerm' = [currentTerm EXCEPT ![n] = @ + 1]
  /\ voteFor' = [voteFor EXCEPT ![n] = n]
  /\ UNCHANGED logVars
  /\ Dump(n)
  /\ failArmed' = [failArmed EXCEPT ![n] = TRUE]
  /\ electArmed' = [electArmed EXCEPT ![n] = FALSE]
  /\ leaderName' = [leaderName EXCEPT ![n] = None]
  /\ votes' = [votes EXCEPT ![n] =
                 [p \in Node |-> IF p \in sendEnabled[n] THEN 0 ELSE @[p]]]
  /\ seq' = [seq EXCEPT ![n] =
               [p \in Node |-> IF p \in sendEnabled[n] THEN @[p] + 1 ELSE @[p]]]
  /\ msgs' = msgs \union {VoteRequest(n, p) : p \in sendEnabled[n]}
  /\ UNCHANGED <<paused, lastSeq, peerVars, sendEnabled, grants, elected>>

OnTimerElectionFail(n) ==
  /\ Running(n)
  /\ state[n] = "Candidate"
  /\ failArmed[n]
  /\ IF TestElection(n, votes[n])
     THEN /\ UNCHANGED votes
          /\ BecomeLeader(n)
          /\ UNCHANGED timerVars
     ELSE /\ ResetElectionTimeout(n)
          /\ UNCHANGED <<state, leaderName, peerVars, seq, votes, elected>>
  /\ UNCHANGED <<paused, currentTerm, voteFor, lastSeq, logVars, sendEnabled,
                 disk, msgs, grants, faults>>

(* do_append_entries with the log the leader has after the step.  Reading   *)
(* the term of an entry past the end of the log is undefined: garbage is    *)
(* what such a read finds.                                                  *)
PrevTerm(log, i, garbage) ==
  IF i = -1 THEN 0 ELSE IF i <= LastIndexOf(log) THEN TermAt(log, i) ELSE garbage
EntriesFrom(log, i) == SubSeq(log, i + 1, Len(log))

AppendRequest(n, p, log, garbage) ==
  LET prev == nextIndex[n][p] - 1
  IN [type |-> "AppendRequest", from |-> n, to |-> p, live |-> TRUE,
      term |-> currentTerm[n], prev |-> prev,
      prevTerm |-> PrevTerm(log, prev, garbage), commit |-> commitIndex[n],
      entries |-> EntriesFrom(log, nextIndex[n][p]), seq |-> seq[n][p]]

DoAppendEntries(n, log) ==
  /\ faults.send < MaxSend
  /\ faults' = [faults EXCEPT !.send = @ + 1]
  /\ \E garbage \in IF \A p \in sendEnabled[n] : nextIndex[n][p] <= Len(log)
                    THEN {0} ELSE 0 .. MaxElection :
       msgs' = msgs \union {AppendRequest(n, p, log, garbage) : p \in sendEnabled[n]}
  /\ seq' = [seq EXCEPT ![n] =
               [p \in Node |-> IF p \in sendEnabled[n] THEN @[p] + 1 ELSE @[p]]]

OnTimerHeartbeat(n) ==
  /\ Running(n)
  /\ state[n] = "Leader"
  /\ DoAppendEntries(n, logs[n])
  /\ UNCHANGED <<coreVars, paused, leaderName, lastSeq, logVars, timerVars,
                 votes, peerVars, sendEnabled, disk, grants, elected>>

DoLog(n) ==
  /\ Running(n)
  /\ state[n] = "Leader"
  /\ Len(logs[n]) < MaxLog
  /\ logs' = [logs EXCEPT ![n] = Append(@, Entry(n))]
  /\ UNCHANGED <<coreVars, paused, leaderName, lastSeq, commitIndex,
                 lastApplied, applied, timerVars, votes, peerVars,
                 sendEnabled, grants, elected>>
  /\ Dump(n)
  /\ DoAppendEntries(n, logs'[n])
-----------------------------------------------------------------------------
VoteBeforeForgotten(m) ==
  IF m.term >= currentTerm[m.to] THEN None ELSE voteFor[m.to]
VoteBefore(m) == IF m.term > currentTerm[m.to] THEN None ELSE voteFor[m.to]

NamedAfterVoteTooSoon(m, grant) ==
  IF m.term > currentTerm[m.to] \/ grant THEN m.from ELSE leaderName[m.to]
NamedAfterVote(m, grant) ==
  IF m.term > currentTerm[m.to] \/ grant THEN None ELSE leaderName[m.to]

UpToDateByTerm(m, log) == m.lastTerm >= LastTermOf(log)
UpToDateByIndex(m, log) == m.lastIndex >= LastIndexOf(log)
UpToDate(m, log) ==
  \/ m.lastTerm > LastTermOf(log)
  \/ m.lastTerm = LastTermOf(log) /\ m.lastIndex >= LastIndexOf(log)

(* on_vote_request.  An out-of-order request that would be granted gets no  *)
(* answer and nothing is persisted.                                         *)
OnVoteRequest(m) ==
  LET n     == m.to
      newer == m.term > currentTerm[n]
      vote  == VoteBefore(m)
      last  == IF newer THEN 0 ELSE lastSeq[n]
      ask   == /\ m.term >= currentTerm[n]
               /\ vote \in {None, m.from}
               /\ UpToDate(m, logs[n])
      valid == ValidSeq(m, last)
      grant == ask /\ valid
      term  == GreaterOf(m.term, currentTerm[n])
  IN /\ m.type = "VoteRequest"
     /\ Running(n)
     /\ Deliverable(m)
     /\ state' = IF newer THEN [state EXCEPT ![n] = "Follower"] ELSE state
     /\ currentTerm' = [currentTerm EXCEPT ![n] = term]
     /\ voteFor' = [voteFor EXCEPT ![n] = IF grant THEN m.from ELSE vote]
     /\ lastSeq' = [lastSeq EXCEPT ![n] = IF grant THEN m.seq ELSE last]
     /\ leaderName' = [leaderName EXCEPT ![n] = NamedAfterVote(m, grant)]
     /\ IF newer THEN ResetElectionTimeout(n) ELSE UNCHANGED timerVars
     /\ UNCHANGED logVars
     /\ grants' = grants \union
          (IF grant THEN {[voter |-> n, term |-> m.term, cand |-> m.from]} ELSE {})
     /\ IF ask /\ ~valid
        THEN Receive(m) /\ UNCHANGED disk
        ELSE Reply(m, VoteResponse(m, term, grant)) /\ Dump(n)
     /\ UNCHANGED <<paused, votes, peerVars, seq, sendEnabled, elected, faults>>

(* on_vote_response: neither the term of the answer nor the election it     *)
(* belongs to is compared with the election under way.  A paused node still *)
(* handles answers.                                                         *)
OnVoteResponseNewer(m) ==
  /\ m.type = "VoteResponse"
  /\ Deliverable(m)
  /\ state[m.to] = "Candidate"
  /\ m.term > currentTerm[m.to]
  /\ BecomeFollower(m.to, m.term)
  /\ UNCHANGED logVars
  /\ Dump(m.to)
  /\ Receive(m)
  /\ UNCHANGED <<paused, leaderName, timerVars, votes, peerVars, seq,
                 sendEnabled, histVars>>

OnVoteResponseCounted(m) ==
  LET n == m.to
  IN /\ m.type = "VoteResponse"
     /\ Deliverable(m)
     /\ state[n] = "Candidate"
     /\ m.term <= currentTerm[n]
     /\ votes' = IF votes[n][m.from] = 0 /\ m.granted
                 THEN [votes EXCEPT ![n][m.from] = m.term] ELSE votes
     /\ IF TestElection(n, votes'[n])
        THEN BecomeLeader(n)
        ELSE UNCHANGED <<state, leaderName, peerVars, seq, elected>>
     /\ Receive(m)
     /\ UNCHANGED <<paused, currentTerm, voteFor, lastSeq, logVars, timerVars,
                    sendEnabled, disk, grants, faults>>
-----------------------------------------------------------------------------
(* handle_request_routine for a request that is not of an older term: a     *)
(* candidate of the same term becomes a follower, and so forgets its vote   *)
(* for itself.                                                              *)
StepsDown(m) == m.term > currentTerm[m.to] \/ state[m.to] = "Candidate"
SeqBefore(m) == IF StepsDown(m) THEN 0 ELSE lastSeq[m.to]

HandleRequestRoutine(m) ==
  LET n == m.to
  IN /\ m.term >= currentTerm[n]
     /\ ResetElectionTimeout(n)
     /\ currentTerm' = [currentTerm EXCEPT ![n] = m.term]
     /\ state' = IF StepsDown(m) THEN [state EXCEPT ![n] = "Follower"] ELSE state
     /\ voteFor' = IF StepsDown(m) THEN [voteFor EXCEPT ![n] = None] ELSE voteFor
     /\ leaderName' =
          IF StepsDown(m) \/ (state[n] = "Follower" /\ leaderName[n] = None)
          THEN [leaderName EXCEPT ![n] = m.from] ELSE leaderName

(* do_apply: the entries up to commit_index, each once.                     *)
DoApplyLast(n, log, commit) ==
  /\ lastApplied' = [lastApplied EXCEPT ![n] = GreaterOf(@, commit)]
  /\ applied' = applied \union
       {[index |-> i, entry |-> log[i + 1]] : i \in {commit} \ 0 .. lastApplied[n]}
DoApply(n, log, commit) ==
  /\ lastApplied' = [lastApplied EXCEPT ![n] = GreaterOf(@, commit)]
  /\ applied' = applied \union
       {[index |-> i, entry |-> log[i + 1]] : i \in lastApplied[n] + 1 .. commit}

(* on_append_entries_request: the five ways through it.                     *)
AppendOldTerm(m) ==
  LET n == m.to
  IN /\ m.term < currentTerm[n]
     /\ UNCHANGED <<coreVars, leaderName, lastSeq, logVars, timerVars>>
     /\ Dump(n)
     /\ Reply(m, AppendResponse(m, currentTerm[n], FALSE, LastIndexOf(logs[n])))

AppendOutOfOrder(m) ==
  /\ HandleRequestRoutine(m)
  /\ ~ValidSeq(m, SeqBefore(m))
  /\ lastSeq' = [lastSeq EXCEPT ![m.to] = SeqBefore(m)]
  /\ UNCHANGED <<logVars, disk>>
  /\ Receive(m)

AppendMissing(m) ==
  LET n == m.to
  IN /\ HandleRequestRoutine(m)
     /\ ValidSeq(m, SeqBefore(m))
     /\ lastSeq' = [lastSeq EXCEPT ![n] = m.seq]
     /\ m.prev > LastIndexOf(logs[n])
     /\ UNCHANGED logVars
     /\ Dump(n)
     /\ Reply(m, AppendResponse(m, m.term, FALSE, LastIndexOf(logs[n])))

(* The comparison of terms is skipped for the first entry of the log.       *)
ConflictsNever(m, log) == FALSE
Conflicts(m, log) == /\ m.prev > BaseIndexOf(log)
                     /\ TermAt(log, m.prev) # m.prevTerm
(* kept is the last index before prev whose term is another one than prev's *)
KeptUpTo(log, prev, kept) ==
  /\ kept >= 0 => TermAt(log, kept) # TermAt(log, prev)
  /\ \A j \in kept + 1 .. prev - 1 : TermAt(log, j) = TermAt(log, prev)

AppendConflict(m) ==
  LET n == m.to
  IN /\ HandleRequestRoutine(m)
     /\ ValidSeq(m, SeqBefore(m))
     /\ lastSeq' = [lastSeq EXCEPT ![n] = m.seq]
     /\ m.prev <= LastIndexOf(logs[n])
     /\ Conflicts(m, logs[n])
     /\ \E kept \in -1 .. m.prev - 1 :
          /\ KeptUpTo(logs[n], m.prev, kept)
          /\ logs' = [logs EXCEPT ![n] = SubSeq(@, 1, kept + 1)]
          /\ Dump(n)
          /\ Reply(m, AppendResponse(m, m.term, FALSE, kept))
     /\ UNCHANGED <<commitIndex, lastApplied, applied>>

(* A request with prev = -1 changes nothing in a log that is not empty, and *)
(* still moves commit_index and succeeds.                                   *)
AfterAppendOffByOne(m, log) == SubSeq(log, 1, m.prev) \o m.entries
AfterAppend(m, log) ==
  IF m.prev >= BaseIndexOf(log) THEN SubSeq(log, 1, m.prev + 1) \o m.entries ELSE log

FollowCommitUnguarded(m, log) ==
  LET commit == LesserOf(m.commit, LastIndexOf(log))
  IN commitIndex' = [commitIndex EXCEPT ![m.to] = commit] /\ DoApply(m.to, log, commit)
FollowCommit(m, log) ==
  LET commit == LesserOf(m.commit, LastIndexOf(log))
  IN IF m.commit > commitIndex[m.to]
     THEN commitIndex' = [commitIndex EXCEPT ![m.to] = commit] /\ DoApply(m.to, log, commit)
     ELSE UNCHANGED <<commitIndex, lastApplied, applied>>

AppendAccept(m) ==
  LET n   == m.to
      log == AfterAppend(m, logs[n])
  IN /\ HandleRequestRoutine(m)
     /\ ValidSeq(m, SeqBefore(m))
     /\ lastSeq' = [lastSeq EXCEPT ![n] = m.seq]
     /\ m.prev <= LastIndexOf(logs[n])
     /\ ~Conflicts(m, logs[n])
     /\ logs' = [logs EXCEPT ![n] = log]
     /\ FollowCommit(m, log)
     /\ Dump(n)
     /\ Reply(m, AppendResponse(m, m.term, TRUE, LastIndexOf(log)))

OnAppendEntriesRequest(m) ==
  /\ m.type = "AppendRequest"
  /\ Running(m.to)
  /\ Deliverable(m)
  /\ \/ AppendOldTerm(m) \/ AppendOutOfOrder(m) \/ AppendMissing(m)
     \/ AppendConflict(m) \/ AppendAccept(m)
  /\ UNCHANGED <<paused, votes, peerVars, seq, sendEnabled, histVars>>
-----------------------------------------------------------------------------
SetPeerIndexBehind(m, last) ==
  /\ nextIndex' = [nextIndex EXCEPT ![m.to][m.from] = last]
  /\ matchIndex' = [matchIndex EXCEPT ![m.to][m.from] = last]
SetPeerIndexAhead(m, last) ==
  /\ nextIndex' = [nextIndex EXCEPT ![m.to][m.from] = last + 1]
  /\ matchIndex' = [matchIndex EXCEPT ![m.to][m.from] = last + 1]
SetPeerIndex(m, last) ==
  /\ nextIndex' = [nextIndex EXCEPT ![m.to][m.from] = last + 1]
  /\ matchIndex' = [matchIndex EXCEPT ![m.to][m.from] = last]

(* on_append_entries_response.  Only a rejection carries a newer term.      *)
OnAppendEntriesResponseNewer(m) ==
  LET n == m.to
  IN /\ m.type = "AppendResponse"
     /\ Deliverable(m)
     /\ state[n] = "Leader"
     /\ m.term > currentTerm[n]
     /\ BecomeFollower(n, m.term)
     /\ leaderName' = [leaderName EXCEPT ![n] = None]
     /\ UNCHANGED logVars
     /\ Dump(n)
     /\ SetPeerIndex(m, m.last)
     /\ Receive(m)
     /\ UNCHANGED <<paused, timerVars, votes, seq, sendEnabled, histVars>>

OnAppendEntriesResponseFailed(m) ==
  /\ m.type = "AppendResponse"
  /\ Deliverable(m)
  /\ state[m.to] = "Leader"
  /\ m.term = currentTerm[m.to]
  /\ ~m.success
  /\ SetPeerIndex(m, m.last)
  /\ Receive(m)
  /\ UNCHANGED <<coreVars, paused, leaderName, lastSeq, logVars, timerVars,
                 votes, seq, sendEnabled, disk, histVars>>

Replicated(n, i) ==
  EnoughVotes(1 + Cardinality({p \in Peers(n) : matchIndex'[n][p] >= i}))

OnAppendEntriesResponseSuccess(m) ==
  LET n == m.to
  IN /\ m.type = "AppendResponse"
     /\ Deliverable(m)
     /\ state[n] = "Leader"
     /\ m.term = currentTerm[n]
     /\ m.success
     /\ SetPeerIndex(m, LesserOf(m.last, LastIndexOf(logs[n])))
     /\ IF /\ m.last <= LastIndexOf(logs[n])
           /\ m.last > commitIndex[n]
           /\ TermAt(logs[n], m.last) = currentTerm[n]
           /\ Replicated(n, m.last)
        THEN /\ commitIndex' = [commitIndex EXCEPT ![n] = m.last]
             /\ DoApply(n, logs[n], m.last)
        ELSE UNCHANGED <<commitIndex, lastApplied, applied>>
     /\ Receive(m)
     /\ UNCHANGED <<coreVars, paused, leaderName, lastSeq, logs, timerVars,
                    votes, seq, sendEnabled, disk, histVars>>
-----------------------------------------------------------------------------
(* The process dies: what it has not persisted is gone (Persister::Load     *)
(* gives the next RaftNode its term, vote and log, and neither last_seq nor *)
(* commit_index), nobody hears the answers to its calls, and RPCs sent to   *)
(* it before its restart are older than its start_timepoint.                *)
Crash(n) ==
  /\ state[n] # "NotRunning"
  /\ faults.crash < MaxCrash
  /\ faults' = [faults EXCEPT !.crash = @ + 1]
  /\ state' = [state EXCEPT ![n] = "NotRunning"]
  /\ paused' = [paused EXCEPT ![n] = FALSE]
  /\ currentTerm' = [currentTerm EXCEPT ![n] = disk[n].term]
  /\ voteFor' = [voteFor EXCEPT ![n] = disk[n].voteFor]
  /\ logs' = [logs EXCEPT ![n] = disk[n].logs]
  /\ leaderName' = [leaderName EXCEPT ![n] = None]
  /\ lastSeq' = [lastSeq EXCEPT ![n] = 0]
  /\ commitIndex' = [commitIndex EXCEPT ![n] = -1]
  /\ lastApplied' = [lastApplied EXCEPT ![n] = -1]
  /\ electArmed' = [electArmed EXCEPT ![n] = FALSE]
  /\ failArmed' = [failArmed EXCEPT ![n] = FALSE]
  /\ votes' = [votes EXCEPT ![n] = [p \in Node |-> 0]]
  /\ nextIndex' = [nextIndex EXCEPT ![n] = [p \in Node |-> 0]]
  /\ matchIndex' = [matchIndex EXCEPT ![n] = [p \in Node |-> -1]]
  /\ seq' = [seq EXCEPT ![n] = [p \in Node |-> 1]]
  /\ sendEnabled' = [sendEnabled EXCEPT ![n] = Peers(n)]
  /\ msgs' = {m \in msgs : m.to # n /\ (m.from # n \/ ~IsRequest(m))} \union
             {[m EXCEPT !.live = FALSE] :
                m \in {r \in msgs : r.to # n /\ r.from = n /\ IsRequest(r)}}
  /\ UNCHANGED <<disk, applied, grants, elected>>

(* run(name) *)
Restart(n) ==
  /\ state[n] = "NotRunning"
  /\ state' = [state EXCEPT ![n] = "Follower"]
  /\ ResetElectionTimeout(n)
  /\ UNCHANGED <<paused, currentTerm, voteFor, leaderName, lastSeq, logVars,
                 votes, peerVars, seq, sendEnabled, disk, msgs, histVars>>

(* stop() and resume().                                                     *)
Pause(n) ==
  /\ Running(n)
  /\ faults.pause < MaxPause
  /\ faults' = [faults EXCEPT !.pause = @ + 1]
  /\ paused' = [paused EXCEPT ![n] = TRUE]
  /\ UNCHANGED <<coreVars, leaderName, lastSeq, logVars, timerVars, votes,
                 peerVars, seq, sendEnabled, disk, msgs, grants, elected>>

Resume(n) ==
  /\ state[n] # "NotRunning"
  /\ paused[n]
  /\ paused' = [paused EXCEPT ![n] = FALSE]
  /\ UNCHANGED <<coreVars, leaderName, lastSeq, logVars, timerVars, votes,
                 peerVars, seq, sendEnabled, disk, msgs, histVars>>

(* disable_send() and enable_send().                                        *)
DisableSend(n, p) ==
  /\ p \in sendEnabled[n]
  /\ faults.cut < MaxCut
  /\ faults' = [faults EXCEPT !.cut = @ + 1]
  /\ sendEnabled' = [sendEnabled EXCEPT ![n] = @ \ {p}]
  /\ UNCHANGED <<coreVars, paused, leaderName, lastSeq, logVars, timerVars,
                 votes, peerVars, seq, disk, msgs, grants, elected>>

EnableSend(n, p) ==
  /\ p \notin sendEnabled[n]
  /\ sendEnabled' = [sendEnabled EXCEPT ![n] = @ \union {p}]
  /\ UNCHANGED <<coreVars, paused, leaderName, lastSeq, logVars, timerVars,
                 votes, peerVars, seq, disk, msgs, histVars>>
-----------------------------------------------------------------------------
Timer(n)  == OnTimerElection(n) \/ OnTimerElectionFail(n) \/ OnTimerHeartbeat(n)
Handle(m) == \/ OnVoteRequest(m)
             \/ OnVoteResponseNewer(m) \/ OnVoteResponseCounted(m)
             \/ OnAppendEntriesRequest(m)
             \/ OnAppendEntriesResponseNewer(m)
             \/ OnAppendEntriesResponseFailed(m)
             \/ OnAppendEntriesResponseSuccess(m)
Fault(n)  == \/ Crash(n) \/ Restart(n) \/ Pause(n) \/ Resume(n)
             \/ \E p \in Peers(n) : DisableSend(n, p) \/ EnableSend(n, p)

Next == \/ \E n \in Node : Timer(n) \/ DoLog(n) \/ Fault(n)
        \/ \E m \in msgs : Handle(m)

Spec == Init /\ [][Next]_vars

-----------------------------------------------------------------------------
(* Properties.                                                              *)

Index == Nat \union {-1}
Entries == [term : Nat, owner : Node]
Records == [term : Nat, voteFor : Node \union {None}, logs : Seq(Entries)]
Messages ==
  [type : {"VoteRequest"}, from : Node, to : Node, live : BOOLEAN,
   term : Nat, lastIndex : Index, lastTerm : Nat, seq : Nat]
  \union
  [type : {"VoteResponse"}, from : Node, to : Node, asked : Nat,
   term : Nat, granted : BOOLEAN, seq : Nat]
  \union
  [type : {"AppendRequest"}, from : Node, to : Node, live : BOOLEAN,
   term : Nat, prev : Index, prevTerm : Nat, commit : Index,
   entries : Seq(Entries), seq : Nat]
  \union
  [type : {"AppendResponse"}, from : Node, to : Node, asked : Nat,
   term : Nat, success : BOOLEAN, last : Index, seq : Nat]

(* The type invariant, in the groups in which the steps change the state.  *)
CoreTypeOK ==
  /\ state \in [Node -> States]
  /\ currentTerm \in [Node -> Nat]
  /\ voteFor \in [Node -> Node \union {None}]
  /\ leaderName \in [Node -> Node \union {None}]
  /\ lastSeq \in [Node -> Nat]
FlagTypeOK ==
  /\ paused \in [Node -> BOOLEAN]
  /\ electArmed \in [Node -> BOOLEAN]
  /\ failArmed \in [Node -> BOOLEAN]
LogTypeOK ==
  /\ logs \in [Node -> Seq(Entries)]
  /\ commitIndex \in [Node -> Index]
  /\ lastApplied \in [Node -> Index]
  /\ applied \in SUBSET [index : Nat, entry : Entries]
  /\ disk \in [Node -> Records]
PeerTypeOK ==
  /\ votes \in [Node -> [Node -> Nat]]
  /\ nextIndex \in [Node -> [Node -> Nat]]
  /\ matchIndex \in [Node -> [Node -> Index]]
  /\ seq \in [Node -> [Node -> Nat]]
  /\ sendEnabled \in [Node -> SUBSET Node]
HistoryTypeOK ==
  /\ grants \in SUBSET [voter : Node, term : Nat, cand : Node]
  /\ elected \in SUBSET [term : Nat, node : Node, votes : [Node -> Nat]]
  /\ faults \in [election : Nat, send : Nat, crash : Nat, pause : Nat, cut : Nat]
TypeOK == /\ CoreTypeOK /\ FlagTypeOK /\ LogTypeOK /\ PeerTypeOK
          /\ HistoryTypeOK /\ msgs \in SUBSET Messages

(* A vote given to a peer is on disk before the peer can count it, and      *)
(* neither a crash nor a pause makes the voter forget it within its term    *)
(* (on_vote_request, Persister::Dump and Load).                             *)
VotePersisted ==
  \A g \in grants :
    \/ disk[g.voter].term > g.term
    \/ disk[g.voter].term = g.term /\ disk[g.voter].voteFor = g.cand

(* A node votes for at most one peer in a term, whatever crashes, pauses,   *)
(* late requests and steps down to follower lie between the two requests.   *)
OneVotePerTerm ==
  \A g, h \in grants : g.voter = h.voter /\ g.term = h.term => g.cand = h.cand

(* No message carries a term its sender has not persisted: a node that      *)
(* restarts never falls behind a term it has already spoken in.             *)
PersistBeforeSend == \A m \in msgs : m.term <= disk[m.from].term

(* Whoever a node names as leader (get_leader_name, which redirects the     *)
(* clients) has won an election of the term that node is in.                *)
LeaderNameWon ==
  \A n \in Node : leaderName[n] # None =>
    \E e \in elected : e.node = leaderName[n] /\ e.term = currentTerm[n]

(* Two nodes win the election of the same term only if at least one of them *)
(* counted a vote that it had been granted in an earlier term: the term of  *)
(* an answer is not compared in on_vote_response, and everything else in    *)
(* the election is safe.                                                    *)
Fresh(e) == \A p \in Node : e.votes[p] \in {0, e.term}
FreshElectionSafety ==
  \A e, f \in elected :
    e.term = f.term /\ Fresh(e) /\ Fresh(f) => e.node = f.node

(* At most one leader is elected in a term.                                 *)
ElectionSafety ==
  \A e, f \in elected : e.term = f.term => e.node = f.node

(* Two state machines are never given different entries for one index.      *)
StateMachineSafety ==
  \A a, b \in applied : a.index = b.index => a.entry = b.entry

(* Two logs that agree on an entry agree on everything before it.           *)
LogMatching ==
  \A n, o \in Node : \A i \in DOMAIN logs[n] \cap DOMAIN logs[o] :
    logs[n][i].term = logs[o][i].term =>
      SubSeq(logs[n], 1, i) = SubSeq(logs[o], 1, i)

(* Whatever has been applied anywhere is in the log of the leader of the    *)
(* latest term, so no later leader overwrites it.                           *)
Holds(log, a) == a.index <= LastIndexOf(log) /\ log[a.index + 1] = a.entry
LeaderCompleteness ==
  \A n \in Node :
    (state[n] = "Leader" /\ \A e \in elected : e.term <= currentTerm[n])
      => \A a \in applied : Holds(logs[n], a)

(* Whatever has been applied anywhere is on the disks of a majority, and    *)
(* so survives the loss of any minority.                                    *)
AppliedOnMajority ==
  \A a \in applied : EnoughVotes(Cardinality({n \in Node : Holds(disk[n].logs, a)}))

(* Where match_index counts towards a commit, that is beyond commit_index,  *)
(* the peer does hold the leader's entries.  (Below it, the last index of a *)
(* peer that has just refused a request is taken for a match.)              *)
MatchIndexTrue ==
  \A n \in Node : state[n] = "Leader" =>
    \A p \in Peers(n) :
      currentTerm[p] = currentTerm[n] /\ state[p] = "Follower" =>
        \A i \in commitIndex[n] + 1 .. LesserOf(matchIndex[n][p], LastIndexOf(logs[n])) :
          Holds(logs[p], [index |-> i, entry |-> logs[n][i + 1]])

(* commit_index moves back only with a crash, or where a refused request    *)
(* has cut off the log below it: what is left of the log is all that is     *)
(* taken for committed then.                                                *)
CommitMovesWithLog ==
  [][\A n \in Node : \/ commitIndex'[n] >= commitIndex[n]
                     \/ state'[n] = "NotRunning"
                     \/ commitIndex[n] > LastIndexOf(logs[n])]_vars

(* An entry is erased from the disk of a node only by a leader of a newer   *)
(* term than the entry's: a late RPC of the same leader takes nothing back. *)
SameLeaderErasesNothing ==
  [][\A n \in Node : \A i \in DOMAIN disk[n].logs :
       disk[n].logs[i].term = currentTerm'[n] =>
         i <= Len(disk'[n].logs) /\ disk'[n].logs[i] = disk[n].logs[i]]_vars

(* A majority that runs without a leader will elect one: one of its nodes   *)
(* has a timer set (or leads), or an RPC that sets one is on its way.       *)
SetsTimer(m) == \/ m.type = "VoteRequest" /\ m.term > currentTerm[m.to]
                \/ m.type = "AppendRequest" /\ m.term >= currentTerm[m.to]
SomebodyActs ==
  EnoughVotes(Cardinality({n \in Node : Running(n)})) =>
    \/ \E n \in Node : /\ Running(n)
                       /\ \/ state[n] = "Leader"
                          \/ electArmed[n]
                          \/ state[n] = "Candidate" /\ failArmed[n]
    \/ \E m \in msgs : Running(m.to) /\ SetsTimer(m)
-----------------------------------------------------------------------------
(* What was given to the state machines, as a log: None where nothing was.  *)
GivenAt(i) == {a \in applied : a.index = i}
GivenLog ==
  [i \in 1 .. Cardinality({a.index : a \in applied}) |->
     IF GivenAt(i - 1) = {} THEN None ELSE (CHOOSE a \in GivenAt(i - 1) : TRUE).entry]

Commands == INSTANCE CommandLog
              WITH Server <- Node, Command <- Entries, log <- GivenLog,
                   given <- [n \in Node |-> lastApplied[n] + 1]

(* do_apply gives the servers one log that only grows, each of them in      *)
(* order, without a gap and nothing twice, over elections, conflicting logs *)
(* and several entries at a time: RaftNode implements CommandLog.           *)
GivesOneLog == [][Commands!Next]_Commands!vars
=============================================================================
