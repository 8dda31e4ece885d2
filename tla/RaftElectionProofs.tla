------------------------- MODULE RaftElectionProofs -------------------------
(* Types, votes, elections and leaders of RaftNode, for every set of nodes   *)
(* and all bounds: every state is well typed, a vote once given is never     *)
(* forgotten within its term, the elections decided by votes of their own    *)
(* term are safe, and whomever a node takes for the leader has won its term. *)
EXTENDS RaftNode, SequenceTheorems, FiniteSetTheorems, TLAPS

-----------------------------------------------------------------------------
(* What the operators on logs return.                                       *)

LEMMA PrefixType ==
  ASSUME NEW log \in Seq(Entries), NEW i \in Int, i <= Len(log)
  PROVE  SubSeq(log, 1, i) \in Seq(Entries)
<1>1. \A j \in 1 .. i : log[j] \in Entries
  BY ElementOfSeq, LenProperties
<1> QED BY <1>1, SubSeqProperties

LEMMA SuffixType ==
  ASSUME NEW log \in Seq(Entries), NEW i \in Nat
  PROVE  EntriesFrom(log, i) \in Seq(Entries)
<1>1. \A j \in i + 1 .. Len(log) : log[j] \in Entries
  BY ElementOfSeq, LenProperties
<1> QED BY <1>1, SubSeqProperties, LenProperties DEF EntriesFrom

LEMMA LogType ==
  ASSUME NEW log \in Seq(Entries)
  PROVE  /\ LastIndexOf(log) \in Index
         /\ LastTermOf(log) \in Nat
         /\ BaseIndexOf(log) \in Index
         /\ \A i \in 0 .. LastIndexOf(log) : log[i + 1] \in Entries /\ TermAt(log, i) \in Nat
<1>1. Len(log) \in Nat /\ (log # <<>> => Len(log) > 0)
  BY EmptySeq, LenProperties
<1>2. \A i \in 1 .. Len(log) : log[i] \in Entries
  BY ElementOfSeq
<1>3. \A e \in Entries : e.term \in Nat
  BY DEF Entries
<1>4. LastIndexOf(log) \in Index
  BY <1>1 DEF LastIndexOf, Index
<1>5. BaseIndexOf(log) \in Index
  BY DEF BaseIndexOf, Index
<1>6. LastTermOf(log) \in Nat
  BY <1>1, <1>2, <1>3 DEF LastTermOf
<1>7. \A i \in 0 .. LastIndexOf(log) : log[i + 1] \in Entries /\ TermAt(log, i) \in Nat
  BY <1>1, <1>2, <1>3 DEF LastIndexOf, TermAt
<1> QED BY <1>4, <1>5, <1>6, <1>7

-----------------------------------------------------------------------------
(* What a message carries, and what the handlers make of it.                *)

LEMMA MessageType ==
  ASSUME NEW m \in Messages
  PROVE  /\ m.from \in Node /\ m.to \in Node /\ m.term \in Nat /\ m.seq \in Nat
         /\ IsRequest(m) => m.live \in BOOLEAN
         /\ m.type = "VoteRequest" => m.lastIndex \in Index /\ m.lastTerm \in Nat
         /\ m.type = "VoteResponse" => m.asked \in Nat /\ m.granted \in BOOLEAN
         /\ m.type = "AppendRequest" =>
              /\ m.prev \in Index /\ m.prevTerm \in Nat /\ m.commit \in Index
              /\ m.entries \in Seq(Entries)
         /\ m.type = "AppendResponse" =>
              m.asked \in Nat /\ m.success \in BOOLEAN /\ m.last \in Index
BY DEF Messages, IsRequest

LEMMA VoteResponseType ==
  ASSUME NEW m \in Messages, NEW term \in Nat, NEW granted \in BOOLEAN
  PROVE  VoteResponse(m, term, granted) \in Messages
BY MessageType DEF VoteResponse, Messages

LEMMA AppendResponseType ==
  ASSUME NEW m \in Messages, NEW term \in Nat, NEW success \in BOOLEAN, NEW last \in Index
  PROVE  AppendResponse(m, term, success, last) \in Messages
BY MessageType DEF AppendResponse, Messages

LEMMA ReceiveType ==
  ASSUME msgs \subseteq Messages, NEW m, Receive(m)
  PROVE  msgs' \subseteq Messages
BY DEF Receive

LEMMA ReplyType ==
  ASSUME msgs \subseteq Messages, NEW m, NEW r \in Messages, Reply(m, r)
  PROVE  msgs' \subseteq Messages
BY DEF Reply

LEMMA DumpType ==
  ASSUME NEW n \in Node, LogTypeOK, CoreTypeOK', logs' \in [Node -> Seq(Entries)], Dump(n)
  PROVE  disk' \in [Node -> Records]
BY DEF Dump, LogTypeOK, CoreTypeOK, Records
-----------------------------------------------------------------------------
LEMMA TypeInit == Init => TypeOK
<1> SUFFICES ASSUME Init PROVE TypeOK
  OBVIOUS
<1> USE DEF Init, Start
<1>1. CoreTypeOK
  BY DEF CoreTypeOK, States
<1>2. FlagTypeOK
  BY DEF FlagTypeOK
<1>3. LogTypeOK
  BY EmptySeq DEF LogTypeOK, Index, Records, EmptyDisk
<1>4. PeerTypeOK
  BY DEF PeerTypeOK, Index, Peers
<1>5. HistoryTypeOK
  BY DEF HistoryTypeOK
<1> QED BY <1>1, <1>2, <1>3, <1>4, <1>5 DEF TypeOK

LEMMA TypePause ==
  ASSUME TypeOK, NEW n \in Node, Pause(n) \/ Resume(n)
  PROVE  TypeOK'
<1> USE DEF Pause, Resume, TypeOK
<1>1. CoreTypeOK'
  BY DEF CoreTypeOK, coreVars
<1>2. FlagTypeOK'
  BY Zenon DEF FlagTypeOK, timerVars
<1>3. LogTypeOK'
  BY DEF LogTypeOK, logVars
<1>4. PeerTypeOK'
  BY DEF PeerTypeOK, peerVars
<1>5. HistoryTypeOK'
  BY DEF HistoryTypeOK, histVars
<1> QED BY <1>1, <1>2, <1>3, <1>4, <1>5

LEMMA TypeCut ==
  ASSUME TypeOK, NEW n \in Node, NEW p \in Peers(n), DisableSend(n, p) \/ EnableSend(n, p)
  PROVE  TypeOK'
<1> USE DEF DisableSend, EnableSend, TypeOK
<1>1. CoreTypeOK'
  BY DEF CoreTypeOK, coreVars
<1>2. FlagTypeOK'
  BY DEF FlagTypeOK, timerVars
<1>3. LogTypeOK'
  BY DEF LogTypeOK, logVars
<1>4. PeerTypeOK'
  <2>1. CASE DisableSend(n, p)
    BY <2>1 DEF PeerTypeOK, peerVars
  <2>2. CASE EnableSend(n, p)
    <3>1. sendEnabled' \in [Node -> SUBSET Node]
      BY <2>2, Zenon DEF PeerTypeOK, Peers
    <3> QED BY <2>2, <3>1 DEF PeerTypeOK, peerVars
  <2> QED BY <2>1, <2>2
<1>5. HistoryTypeOK'
  BY DEF HistoryTypeOK, histVars
<1> QED BY <1>1, <1>2, <1>3, <1>4, <1>5

LEMMA TypeCrash == ASSUME TypeOK, NEW n \in Node, Crash(n) PROVE TypeOK'
<1> USE DEF Crash, TypeOK
<1>0. disk[n] \in Records
  BY DEF LogTypeOK
<1>1. CoreTypeOK'
  BY <1>0 DEF CoreTypeOK, Records, States
<1>2. FlagTypeOK'
  BY Zenon DEF FlagTypeOK
<1>3. LogTypeOK'
  BY <1>0 DEF LogTypeOK, Records, Index
<1>4. PeerTypeOK'
  BY DEF PeerTypeOK, Index, Peers
<1>5. HistoryTypeOK'
  BY DEF HistoryTypeOK
<1>6. msgs' \subseteq Messages
  <2>1. ASSUME NEW m \in Messages, IsRequest(m)
        PROVE  [m EXCEPT !.live = FALSE] \in Messages
    BY <2>1 DEF Messages, IsRequest
  <2> QED BY <2>1
<1> QED BY <1>1, <1>2, <1>3, <1>4, <1>5, <1>6

LEMMA TypeRestart == ASSUME TypeOK, NEW n \in Node, Restart(n) PROVE TypeOK'
<1> USE DEF Restart, TypeOK
<1>1. CoreTypeOK'
  BY DEF CoreTypeOK, States
<1>2. FlagTypeOK'
  BY Zenon DEF FlagTypeOK, ResetElectionTimeout
<1>3. LogTypeOK'
  BY DEF LogTypeOK, logVars
<1>4. PeerTypeOK'
  BY DEF PeerTypeOK, peerVars
<1>5. HistoryTypeOK'
  BY DEF HistoryTypeOK, histVars
<1> QED BY <1>1, <1>2, <1>3, <1>4, <1>5
-----------------------------------------------------------------------------
(* The timer.                                                               *)

LEMMA TypeElection == ASSUME TypeOK, NEW n \in Node, OnTimerElection(n) PROVE TypeOK'
<1> USE DEF OnTimerElection, TypeOK
<1>1. CoreTypeOK'
  BY DEF CoreTypeOK, States
<1>2. FlagTypeOK'
  BY Zenon DEF FlagTypeOK
<1>3. LogTypeOK'
  BY <1>1, DumpType DEF LogTypeOK, logVars
<1>4. PeerTypeOK'
  BY DEF PeerTypeOK, peerVars
<1>5. HistoryTypeOK'
  BY DEF HistoryTypeOK
<1>6. msgs' \subseteq Messages
  <2>1. logs[n] \in Seq(Entries) /\ currentTerm[n] + 1 \in Nat /\ sendEnabled[n] \subseteq Node
    BY DEF LogTypeOK, CoreTypeOK, PeerTypeOK
  <2>2. \A p \in Node : seq[n][p] \in Nat
    BY DEF PeerTypeOK
  <2>3. LastIndexOf(logs[n]) \in Index /\ LastTermOf(logs[n]) \in Nat
    BY <2>1, LogType
  <2>4. \A p \in sendEnabled[n] : VoteRequest(n, p) \in Messages
    <3> HIDE DEF OnTimerElection, TypeOK
    <3> QED BY <2>1, <2>2, <2>3 DEF Messages, VoteRequest
  <2> QED BY <2>4
<1> QED BY <1>1, <1>2, <1>3, <1>4, <1>5, <1>6

LEMMA BecomeLeaderType ==
  ASSUME TypeOK, NEW n \in Node, votes' \in [Node -> [Node -> Nat]], BecomeLeader(n)
  PROVE  /\ state' \in [Node -> States]
         /\ leaderName' \in [Node -> Node \union {None}]
         /\ nextIndex' \in [Node -> [Node -> Nat]]
         /\ matchIndex' \in [Node -> [Node -> Index]]
         /\ seq' \in [Node -> [Node -> Nat]]
         /\ elected' \in SUBSET [term : Nat, node : Node, votes : [Node -> Nat]]
<1> USE DEF BecomeLeader, TypeOK
<1>1. state' \in [Node -> States] /\ leaderName' \in [Node -> Node \union {None}]
  BY DEF CoreTypeOK, States
<1>2. commitIndex[n] + 1 \in Nat
  <2>1. commitIndex[n] \in Nat \union {-1}
    BY Zenon DEF LogTypeOK, Index
  <2> HIDE DEF BecomeLeader, TypeOK
  <2> QED BY <2>1
<1>3. /\ nextIndex' \in [Node -> [Node -> Nat]]
      /\ matchIndex' \in [Node -> [Node -> Index]]
      /\ seq' \in [Node -> [Node -> Nat]]
  BY <1>2 DEF PeerTypeOK, Index
<1>4. elected' \in SUBSET [term : Nat, node : Node, votes : [Node -> Nat]]
  BY DEF HistoryTypeOK, CoreTypeOK
<1> QED BY <1>1, <1>3, <1>4

LEMMA TypeElectionFail == ASSUME TypeOK, NEW n \in Node, OnTimerElectionFail(n) PROVE TypeOK'
<1> USE DEF OnTimerElectionFail, TypeOK
<1>0. votes' = votes
  BY DEF OnTimerElectionFail
<1>1. CoreTypeOK'
  BY BecomeLeaderType, <1>0 DEF CoreTypeOK, PeerTypeOK
<1>2. FlagTypeOK'
  BY Zenon DEF FlagTypeOK, timerVars, ResetElectionTimeout
<1>3. LogTypeOK'
  BY DEF LogTypeOK, logVars
<1>4. PeerTypeOK'
  BY BecomeLeaderType, <1>0 DEF PeerTypeOK, peerVars
<1>5. HistoryTypeOK'
  BY BecomeLeaderType, <1>0 DEF HistoryTypeOK, PeerTypeOK
<1> QED BY <1>1, <1>2, <1>3, <1>4, <1>5

LEMMA DoAppendEntriesType ==
  ASSUME TypeOK, NEW n \in Node, NEW log \in Seq(Entries), DoAppendEntries(n, log)
  PROVE  /\ msgs' \subseteq Messages
         /\ seq' \in [Node -> [Node -> Nat]]
         /\ faults' \in [election : Nat, send : Nat, crash : Nat, pause : Nat, cut : Nat]
<1> USE DEF DoAppendEntries, TypeOK
<1>1. faults' \in [election : Nat, send : Nat, crash : Nat, pause : Nat, cut : Nat]
  BY DEF HistoryTypeOK
<1>2. seq' \in [Node -> [Node -> Nat]]
  BY DEF PeerTypeOK
<1>3. ASSUME NEW garbage \in Nat, NEW p \in sendEnabled[n]
      PROVE  AppendRequest(n, p, log, garbage) \in Messages
  <2>1. p \in Node
    BY DEF PeerTypeOK
  <2>2. nextIndex[n][p] \in Nat /\ seq[n][p] \in Nat
    BY <2>1 DEF PeerTypeOK
  <2>3. nextIndex[n][p] - 1 \in Index
    BY <2>2 DEF Index
  <2>4. PrevTerm(log, nextIndex[n][p] - 1, garbage) \in Nat
    BY <2>3, LogType DEF PrevTerm, Index
  <2>5. EntriesFrom(log, nextIndex[n][p]) \in Seq(Entries)
    BY <2>2, SuffixType
  <2>6. currentTerm[n] \in Nat /\ commitIndex[n] \in Index
    BY DEF CoreTypeOK, LogTypeOK
  <2> HIDE DEF DoAppendEntries, TypeOK
  <2> QED BY <2>1, <2>2, <2>3, <2>4, <2>5, <2>6 DEF Messages, AppendRequest
<1>4. PICK garbage \in Nat :
        msgs' = msgs \union {AppendRequest(n, p, log, garbage) : p \in sendEnabled[n]}
  <2>1. {0} \subseteq Nat /\ 0 .. MaxElection \subseteq Nat
    BY BoundAssumption
  <2> QED BY <2>1, Zenon
<1>5. msgs' \subseteq Messages
  BY <1>3, <1>4
<1> QED BY <1>1, <1>2, <1>5

LEMMA TypeHeartbeat == ASSUME TypeOK, NEW n \in Node, OnTimerHeartbeat(n) PROVE TypeOK'
<1> USE DEF OnTimerHeartbeat, TypeOK
<1>0. logs[n] \in Seq(Entries)
  BY DEF LogTypeOK
<1>1. CoreTypeOK'
  BY DEF CoreTypeOK, coreVars
<1>2. FlagTypeOK'
  BY DEF FlagTypeOK, timerVars
<1>3. LogTypeOK'
  BY DEF LogTypeOK, logVars
<1>4. PeerTypeOK'
  BY <1>0, DoAppendEntriesType DEF PeerTypeOK, peerVars
<1>5. HistoryTypeOK'
  BY <1>0, DoAppendEntriesType DEF HistoryTypeOK
<1>6. msgs' \subseteq Messages
  BY <1>0, DoAppendEntriesType
<1> QED BY <1>1, <1>2, <1>3, <1>4, <1>5, <1>6

LEMMA TypeDoLog == ASSUME TypeOK, NEW n \in Node, DoLog(n) PROVE TypeOK'
<1> USE DEF DoLog, TypeOK
<1>0. logs'[n] \in Seq(Entries) /\ logs' \in [Node -> Seq(Entries)]
  <2>1. Entry(n) \in Entries
    BY DEF Entry, Entries, CoreTypeOK
  <2>2. Append(logs[n], Entry(n)) \in Seq(Entries)
    BY <2>1, AppendProperties DEF LogTypeOK
  <2> QED BY <2>2 DEF LogTypeOK
<1>1. CoreTypeOK'
  BY DEF CoreTypeOK, coreVars
<1>2. FlagTypeOK'
  BY DEF FlagTypeOK, timerVars
<1>3. LogTypeOK'
  BY <1>0, <1>1, DumpType DEF LogTypeOK
<1>4. PeerTypeOK'
  BY <1>0, DoAppendEntriesType DEF PeerTypeOK, peerVars
<1>5. HistoryTypeOK'
  BY <1>0, DoAppendEntriesType DEF HistoryTypeOK
<1>6. msgs' \subseteq Messages
  BY <1>0, DoAppendEntriesType
<1> QED BY <1>1, <1>2, <1>3, <1>4, <1>5, <1>6
-----------------------------------------------------------------------------
(* The handlers of votes.                                                   *)

LEMMA TypeVoteRequest == ASSUME TypeOK, NEW m \in msgs, OnVoteRequest(m) PROVE TypeOK'
<1> DEFINE n == m.to
<1> USE DEF TypeOK
<1>0. /\ m \in Messages /\ n \in Node /\ m.from \in Node /\ m.term \in Nat /\ m.seq \in Nat
  BY MessageType
<1>1. CoreTypeOK'
  <2>1. /\ state' \in [Node -> States]
        /\ GreaterOf(m.term, currentTerm[n]) \in Nat
    BY <1>0 DEF OnVoteRequest, CoreTypeOK, States, GreaterOf
  <2>2. VoteBefore(m) \in Node \union {None}
    BY <1>0 DEF VoteBefore, CoreTypeOK
  <2>3. \A grant \in BOOLEAN : NamedAfterVote(m, grant) \in Node \union {None}
    BY <1>0 DEF NamedAfterVote, CoreTypeOK
  <2> QED BY <1>0, <2>1, <2>2, <2>3 DEF OnVoteRequest, CoreTypeOK
<1>2. FlagTypeOK'
  BY Zenon DEF OnVoteRequest, FlagTypeOK, timerVars, ResetElectionTimeout
<1>3. LogTypeOK'
  BY <1>0, <1>1, DumpType DEF OnVoteRequest, LogTypeOK, logVars
<1>4. PeerTypeOK'
  BY DEF OnVoteRequest, PeerTypeOK, peerVars
<1>5. HistoryTypeOK'
  BY <1>0 DEF OnVoteRequest, HistoryTypeOK
<1>6. msgs' \subseteq Messages
  <2>1. \A granted \in BOOLEAN :
          VoteResponse(m, GreaterOf(m.term, currentTerm[n]), granted) \in Messages
    BY <1>0, VoteResponseType DEF CoreTypeOK, GreaterOf
  <2>2. ValidSeq(m, IF m.term > currentTerm[n] THEN 0 ELSE lastSeq[n]) \in BOOLEAN
    BY DEF ValidSeq
  <2> QED BY <2>1, <2>2, ReceiveType, ReplyType DEF OnVoteRequest
<1> QED BY <1>1, <1>2, <1>3, <1>4, <1>5, <1>6

LEMMA TypeVoteResponseNewer ==
  ASSUME TypeOK, NEW m \in msgs, OnVoteResponseNewer(m)
  PROVE  TypeOK'
<1> USE DEF OnVoteResponseNewer, TypeOK
<1>0. m \in Messages /\ m.to \in Node /\ m.term \in Nat
  BY MessageType
<1>1. CoreTypeOK'
  BY <1>0 DEF CoreTypeOK, BecomeFollower, States
<1>2. FlagTypeOK'
  BY DEF FlagTypeOK, timerVars
<1>3. LogTypeOK'
  BY <1>0, <1>1, DumpType DEF LogTypeOK, logVars
<1>4. PeerTypeOK'
  BY DEF PeerTypeOK, peerVars
<1>5. HistoryTypeOK'
  BY DEF HistoryTypeOK, histVars
<1>6. msgs' \subseteq Messages
  BY ReceiveType
<1> QED BY <1>1, <1>2, <1>3, <1>4, <1>5, <1>6

LEMMA TypeVoteResponseCounted ==
  ASSUME TypeOK, NEW m \in msgs, OnVoteResponseCounted(m)
  PROVE  TypeOK'
<1> USE DEF OnVoteResponseCounted, TypeOK
<1>0. m \in Messages /\ m.to \in Node /\ m.from \in Node /\ m.term \in Nat
  BY MessageType
<1>v. votes' \in [Node -> [Node -> Nat]]
  BY <1>0 DEF PeerTypeOK
<1>l. \/ BecomeLeader(m.to)
      \/ UNCHANGED <<state, leaderName, peerVars, seq, elected>>
  OBVIOUS
<1>1. CoreTypeOK'
  BY <1>0, <1>v, <1>l, BecomeLeaderType DEF CoreTypeOK
<1>2. FlagTypeOK'
  BY DEF FlagTypeOK, timerVars
<1>3. LogTypeOK'
  BY DEF LogTypeOK, logVars
<1>4. PeerTypeOK'
  BY <1>0, <1>v, <1>l, BecomeLeaderType DEF PeerTypeOK, peerVars
<1>5. HistoryTypeOK'
  BY <1>0, <1>v, <1>l, BecomeLeaderType DEF HistoryTypeOK
<1>6. msgs' \subseteq Messages
  BY ReceiveType
<1> QED BY <1>1, <1>2, <1>3, <1>4, <1>5, <1>6
-----------------------------------------------------------------------------
(* The handlers of log replication.                                         *)

LEMMA HandleRequestRoutineType ==
  ASSUME TypeOK, NEW m \in msgs, HandleRequestRoutine(m), lastSeq' \in [Node -> Nat]
  PROVE  CoreTypeOK' /\ electArmed' \in [Node -> BOOLEAN] /\ failArmed' \in [Node -> BOOLEAN]
<1>0. m.to \in Node /\ m.from \in Node /\ m.term \in Nat
  BY MessageType DEF TypeOK
<1>1. CoreTypeOK'
  BY <1>0 DEF HandleRequestRoutine, TypeOK, CoreTypeOK, States
<1>2. electArmed' \in [Node -> BOOLEAN] /\ failArmed' \in [Node -> BOOLEAN]
  BY Zenon DEF HandleRequestRoutine, ResetElectionTimeout, TypeOK, FlagTypeOK
<1> QED BY <1>1, <1>2

LEMMA DoApplyType ==
  ASSUME TypeOK, NEW n \in Node, NEW log \in Seq(Entries), NEW commit \in Index,
         commit <= LastIndexOf(log), DoApply(n, log, commit)
  PROVE  /\ lastApplied' \in [Node -> Index]
         /\ applied' \in SUBSET [index : Nat, entry : Entries]
<1>1. lastApplied[n] \in Index
  BY DEF TypeOK, LogTypeOK
<1>2. lastApplied' \in [Node -> Index]
  BY <1>1 DEF DoApply, TypeOK, LogTypeOK, GreaterOf
<1>3. \A i \in lastApplied[n] + 1 .. commit : i \in Nat /\ log[i + 1] \in Entries
  BY <1>1, LogType DEF Index
<1>4. applied' \in SUBSET [index : Nat, entry : Entries]
  BY <1>3 DEF DoApply, TypeOK, LogTypeOK
<1> QED BY <1>2, <1>4

LEMMA TypeAppendRequest ==
  ASSUME TypeOK, NEW m \in msgs, OnAppendEntriesRequest(m)
  PROVE  TypeOK'
<1> DEFINE n == m.to
<1>0. /\ m \in Messages /\ n \in Node /\ m.from \in Node /\ m.term \in Nat /\ m.seq \in Nat
      /\ m.prev \in Index /\ m.prevTerm \in Nat /\ m.commit \in Index
      /\ m.entries \in Seq(Entries)
  BY MessageType DEF TypeOK, OnAppendEntriesRequest
<1>1. /\ logs[n] \in Seq(Entries) /\ LastIndexOf(logs[n]) \in Index
      /\ LastIndexOf(logs[n]) = Len(logs[n]) - 1 /\ Len(logs[n]) \in Nat
      /\ currentTerm[n] \in Nat /\ lastSeq[n] \in Nat
  BY <1>0, LogType, LenProperties DEF TypeOK, LogTypeOK, CoreTypeOK, LastIndexOf
<1>2. /\ paused' = paused /\ votes' = votes /\ nextIndex' = nextIndex
      /\ matchIndex' = matchIndex /\ seq' = seq /\ sendEnabled' = sendEnabled
      /\ grants' = grants /\ elected' = elected /\ faults' = faults
  BY DEF OnAppendEntriesRequest, peerVars, histVars
<1>3. PeerTypeOK' /\ HistoryTypeOK' /\ paused' \in [Node -> BOOLEAN]
  BY <1>2 DEF TypeOK, PeerTypeOK, HistoryTypeOK, FlagTypeOK
<1>4. SUFFICES /\ CoreTypeOK' /\ LogTypeOK' /\ msgs' \subseteq Messages
               /\ electArmed' \in [Node -> BOOLEAN] /\ failArmed' \in [Node -> BOOLEAN]
  BY <1>3 DEF TypeOK, FlagTypeOK
<1>5. SeqBefore(m) \in Nat
  BY <1>1 DEF SeqBefore
<1>6. CASE AppendOldTerm(m)
  <2> USE <1>6 DEF AppendOldTerm
  <2>1. CoreTypeOK' /\ electArmed' \in [Node -> BOOLEAN] /\ failArmed' \in [Node -> BOOLEAN]
    BY DEF TypeOK, CoreTypeOK, FlagTypeOK, coreVars, timerVars
  <2>2. LogTypeOK'
    BY <1>0, <2>1, DumpType DEF TypeOK, LogTypeOK, logVars
  <2>3. msgs' \subseteq Messages
    BY <1>0, <1>1, AppendResponseType, ReplyType DEF TypeOK
  <2> QED BY <2>1, <2>2, <2>3
<1>7. CASE AppendOutOfOrder(m)
  <2> USE <1>7 DEF AppendOutOfOrder
  <2>0. lastSeq' \in [Node -> Nat]
    BY <1>0, <1>5 DEF TypeOK, CoreTypeOK
  <2>1. CoreTypeOK' /\ electArmed' \in [Node -> BOOLEAN] /\ failArmed' \in [Node -> BOOLEAN]
    BY <2>0, HandleRequestRoutineType
  <2>2. LogTypeOK'
    BY DEF TypeOK, LogTypeOK, logVars
  <2>3. msgs' \subseteq Messages
    BY ReceiveType DEF TypeOK
  <2> QED BY <2>1, <2>2, <2>3
<1>8. CASE AppendMissing(m)
  <2> USE <1>8 DEF AppendMissing
  <2>0. lastSeq' \in [Node -> Nat]
    BY <1>0 DEF TypeOK, CoreTypeOK
  <2>1. CoreTypeOK' /\ electArmed' \in [Node -> BOOLEAN] /\ failArmed' \in [Node -> BOOLEAN]
    BY <2>0, HandleRequestRoutineType
  <2>2. LogTypeOK'
    BY <1>0, <2>1, DumpType DEF TypeOK, LogTypeOK, logVars
  <2>3. msgs' \subseteq Messages
    BY <1>0, <1>1, AppendResponseType, ReplyType DEF TypeOK
  <2> QED BY <2>1, <2>2, <2>3
<1>9. CASE AppendConflict(m)
  <2>0. lastSeq' \in [Node -> Nat]
    BY <1>0, <1>9 DEF AppendConflict, TypeOK, CoreTypeOK
  <2>1. CoreTypeOK' /\ electArmed' \in [Node -> BOOLEAN] /\ failArmed' \in [Node -> BOOLEAN]
    BY <2>0, <1>9, HandleRequestRoutineType DEF AppendConflict
  <2>2. PICK kept \in -1 .. m.prev - 1 :
          /\ logs' = [logs EXCEPT ![n] = SubSeq(@, 1, kept + 1)]
          /\ Dump(n)
          /\ Reply(m, AppendResponse(m, m.term, FALSE, kept))
    BY <1>9, Zenon DEF AppendConflict
  <2>3. m.prev <= LastIndexOf(logs[n]) /\ UNCHANGED <<commitIndex, lastApplied, applied>>
    BY <1>9 DEF AppendConflict
  <2>4. kept \in Index /\ kept \in Int /\ kept + 1 \in Int /\ kept + 1 <= Len(logs[n])
    BY <1>0, <1>1, <2>3 DEF Index
  <2>5. SubSeq(logs[n], 1, kept + 1) \in Seq(Entries)
    BY <1>1, <2>4, PrefixType
  <2>6. logs' \in [Node -> Seq(Entries)]
    BY <2>2, <2>5 DEF TypeOK, LogTypeOK
  <2>7. LogTypeOK'
    BY <1>0, <2>1, <2>2, <2>3, <2>6, DumpType DEF TypeOK, LogTypeOK
  <2>8. msgs' \subseteq Messages
    BY <1>0, <2>2, <2>4, AppendResponseType, ReplyType DEF TypeOK
  <2> QED BY <2>1, <2>7, <2>8
<1>10. CASE AppendAccept(m)
  <2> DEFINE log == AfterAppend(m, logs[n])
             commit == LesserOf(m.commit, LastIndexOf(log))
  <2>0. lastSeq' \in [Node -> Nat]
    BY <1>0, <1>10 DEF AppendAccept, TypeOK, CoreTypeOK
  <2>1. CoreTypeOK' /\ electArmed' \in [Node -> BOOLEAN] /\ failArmed' \in [Node -> BOOLEAN]
    BY <2>0, <1>10, HandleRequestRoutineType DEF AppendAccept
  <2>2. /\ m.prev <= LastIndexOf(logs[n])
        /\ logs' = [logs EXCEPT ![n] = log]
        /\ FollowCommit(m, log)
        /\ Dump(n)
        /\ Reply(m, AppendResponse(m, m.term, TRUE, LastIndexOf(log)))
    BY <1>10 DEF AppendAccept
  <2>3. log \in Seq(Entries)
    <3>1. SubSeq(logs[n], 1, m.prev + 1) \in Seq(Entries)
      BY <1>0, <1>1, <2>2, PrefixType DEF Index
    <3>2. SubSeq(logs[n], 1, m.prev + 1) \o m.entries \in Seq(Entries)
      BY <1>0, <3>1, ConcatProperties
    <3> QED BY <1>1, <3>2 DEF AfterAppend
  <2>4. /\ LastIndexOf(log) \in Index /\ commit \in Index /\ commit <= LastIndexOf(log)
    <3>1. LastIndexOf(log) \in Index
      BY <2>3, LogType
    <3> HIDE DEF log
    <3> QED BY <1>0, <3>1 DEF LesserOf, Index
  <2>5. logs' \in [Node -> Seq(Entries)]
    BY <2>2, <2>3 DEF TypeOK, LogTypeOK
  <2>6. /\ commitIndex' \in [Node -> Index] /\ lastApplied' \in [Node -> Index]
        /\ applied' \in SUBSET [index : Nat, entry : Entries]
    <3> HIDE DEF log
    <3> QED BY <1>0, <2>2, <2>3, <2>4, DoApplyType DEF FollowCommit, TypeOK, LogTypeOK
  <2>7. LogTypeOK'
    BY <1>0, <2>1, <2>2, <2>5, <2>6, DumpType DEF TypeOK, LogTypeOK
  <2>8. msgs' \subseteq Messages
    BY <1>0, <2>2, <2>4, AppendResponseType, ReplyType DEF TypeOK
  <2> QED BY <2>1, <2>7, <2>8
<1> QED BY <1>6, <1>7, <1>8, <1>9, <1>10 DEF OnAppendEntriesRequest

LEMMA SetPeerIndexType ==
  ASSUME TypeOK, NEW m \in Messages, NEW last \in Index, SetPeerIndex(m, last)
  PROVE  nextIndex' \in [Node -> [Node -> Nat]] /\ matchIndex' \in [Node -> [Node -> Index]]
<1>1. m.to \in Node /\ m.from \in Node /\ last + 1 \in Nat
  BY MessageType DEF Index
<1> QED BY <1>1 DEF SetPeerIndex, TypeOK, PeerTypeOK

LEMMA TypeAppendResponseNewer ==
  ASSUME TypeOK, NEW m \in msgs, OnAppendEntriesResponseNewer(m)
  PROVE  TypeOK'
<1> USE DEF OnAppendEntriesResponseNewer, TypeOK
<1>0. m \in Messages /\ m.to \in Node /\ m.term \in Nat /\ m.last \in Index
  BY MessageType
<1>1. CoreTypeOK'
  BY <1>0 DEF CoreTypeOK, BecomeFollower, States
<1>2. FlagTypeOK'
  BY DEF FlagTypeOK, timerVars
<1>3. LogTypeOK'
  BY <1>0, <1>1, DumpType DEF LogTypeOK, logVars
<1>4. PeerTypeOK'
  BY <1>0, SetPeerIndexType DEF PeerTypeOK
<1>5. HistoryTypeOK'
  BY DEF HistoryTypeOK, histVars
<1>6. msgs' \subseteq Messages
  BY ReceiveType
<1> QED BY <1>1, <1>2, <1>3, <1>4, <1>5, <1>6

LEMMA TypeAppendResponseFailed ==
  ASSUME TypeOK, NEW m \in msgs, OnAppendEntriesResponseFailed(m)
  PROVE  TypeOK'
<1> USE DEF OnAppendEntriesResponseFailed, TypeOK
<1>0. m \in Messages /\ m.last \in Index
  BY MessageType
<1>1. CoreTypeOK'
  BY DEF CoreTypeOK, coreVars
<1>2. FlagTypeOK'
  BY DEF FlagTypeOK, timerVars
<1>3. LogTypeOK'
  BY DEF LogTypeOK, logVars
<1>4. PeerTypeOK'
  BY <1>0, SetPeerIndexType DEF PeerTypeOK
<1>5. HistoryTypeOK'
  BY DEF HistoryTypeOK, histVars
<1>6. msgs' \subseteq Messages
  BY ReceiveType
<1> QED BY <1>1, <1>2, <1>3, <1>4, <1>5, <1>6

LEMMA TypeAppendResponseSuccess ==
  ASSUME TypeOK, NEW m \in msgs, OnAppendEntriesResponseSuccess(m)
  PROVE  TypeOK'
<1> DEFINE n == m.to
<1> USE DEF OnAppendEntriesResponseSuccess, TypeOK
<1>0. m \in Messages /\ n \in Node /\ m.last \in Index
  BY MessageType
<1>l. logs[n] \in Seq(Entries) /\ LastIndexOf(logs[n]) \in Index
  BY <1>0, LogType DEF LogTypeOK
<1>1. CoreTypeOK'
  BY DEF CoreTypeOK, coreVars
<1>2. FlagTypeOK'
  BY DEF FlagTypeOK, timerVars
<1>3. LogTypeOK'
  <2>1. CASE m.last <= LastIndexOf(logs[n]) /\ commitIndex' = [commitIndex EXCEPT ![n] = m.last]
             /\ DoApply(n, logs[n], m.last)
    <3>1. /\ lastApplied' \in [Node -> Index]
          /\ applied' \in SUBSET [index : Nat, entry : Entries]
      BY <1>0, <1>l, <2>1, DoApplyType
    <3> QED BY <1>0, <2>1, <3>1 DEF LogTypeOK
  <2>2. CASE UNCHANGED <<commitIndex, lastApplied, applied>>
    BY <2>2 DEF LogTypeOK
  <2> QED BY <2>1, <2>2
<1>4. PeerTypeOK'
  <2>1. LesserOf(m.last, LastIndexOf(logs[n])) \in Index
    BY <1>0, <1>l DEF LesserOf
  <2> QED BY <1>0, <2>1, SetPeerIndexType DEF PeerTypeOK
<1>5. HistoryTypeOK'
  BY DEF HistoryTypeOK, histVars
<1>6. msgs' \subseteq Messages
  BY ReceiveType
<1> QED BY <1>1, <1>2, <1>3, <1>4, <1>5, <1>6
-----------------------------------------------------------------------------
LEMMA TypeStutter == ASSUME TypeOK, UNCHANGED vars PROVE TypeOK'
<1> USE DEF vars, TypeOK
<1>1. CoreTypeOK' /\ LogTypeOK'
  BY DEF CoreTypeOK, LogTypeOK
<1>2. FlagTypeOK'
  BY Zenon DEF FlagTypeOK
<1>3. PeerTypeOK' /\ HistoryTypeOK'
  BY DEF PeerTypeOK, HistoryTypeOK
<1> QED BY <1>1, <1>2, <1>3

LEMMA TypeNext == TypeOK /\ [Next]_vars => TypeOK'
<1> SUFFICES ASSUME TypeOK, [Next]_vars PROVE TypeOK'
  OBVIOUS
<1>1. ASSUME NEW n \in Node, Timer(n) \/ DoLog(n) PROVE TypeOK'
  BY <1>1, TypeElection, TypeElectionFail, TypeHeartbeat, TypeDoLog DEF Timer
<1>2. ASSUME NEW n \in Node, Fault(n) PROVE TypeOK'
  BY <1>2, TypeCrash, TypeRestart, TypePause, TypeCut DEF Fault
<1>3. ASSUME NEW m \in msgs, Handle(m) PROVE TypeOK'
  BY <1>3, TypeVoteRequest, TypeVoteResponseNewer, TypeVoteResponseCounted,
     TypeAppendRequest, TypeAppendResponseNewer, TypeAppendResponseFailed,
     TypeAppendResponseSuccess DEF Handle
<1> QED BY <1>1, <1>2, <1>3, TypeStutter DEF Next

(* Type correctness: whatever the handlers, the crashes and the transport   *)
(* do, every variable keeps its type; in particular next_index is never     *)
(* negative and every applied entry was read inside the log.                *)
THEOREM TypeCorrect == Spec => []TypeOK
BY TypeInit, TypeNext, PTL DEF Spec

-----------------------------------------------------------------------------
(* The inductive invariant.                                                 *)

(* Neither its memory nor its disk lets n vote in term t for another than c.*)
Remembers(n, t, c) ==
  /\ currentTerm[n] > t \/ (currentTerm[n] = t /\ voteFor[n] = c)
  /\ disk[n].term > t \/ (disk[n].term = t /\ disk[n].voteFor = c)

Grant(p, t, c) == [voter |-> p, term |-> t, cand |-> c]

(* Who runs for leader has voted for itself, also on disk.                  *)
VoteSelf ==
  \A n \in Node : state[n] \in {"Candidate", "Leader"} =>
    voteFor[n] = n /\ disk[n].term = currentTerm[n] /\ disk[n].voteFor = n

DiskBehind == \A n \in Node : disk[n].term <= currentTerm[n]

PeersOnly ==
  /\ \A n \in Node : n \notin sendEnabled[n]
  /\ \A m \in msgs : m.from # m.to
  /\ \A g \in grants : g.voter # g.cand

VotesKept == \A g \in grants : Remembers(g.voter, g.term, g.cand)

(* Every vote on its way, and every vote counted, has been given.           *)
AnswersGranted ==
  \A m \in msgs : m.type = "VoteResponse" /\ m.granted =>
    Grant(m.from, m.term, m.to) \in grants /\ m.asked = m.term
CountsGranted ==
  \A n, p \in Node : votes[n][p] # 0 => Grant(p, votes[n][p], n) \in grants

(* Who has won an election keeps the vote it gave itself.                   *)
WinnersFaithful ==
  \A e \in elected :
    /\ Remembers(e.node, e.term, e.node)
    /\ ~(currentTerm[e.node] = e.term /\ state[e.node] = "Candidate")
    /\ \A g \in grants : ~(g.voter = e.node /\ g.term = e.term)
WinnersCounted ==
  \A e \in elected :
    /\ TestElection(e.node, e.votes)
    /\ \A p \in Node : e.votes[p] # 0 => Grant(p, e.votes[p], e.node) \in grants

ElectionInv ==
  /\ VoteSelf /\ DiskBehind /\ PeersOnly /\ VotesKept /\ AnswersGranted
  /\ CountsGranted /\ WinnersFaithful /\ WinnersCounted
  /\ OneVotePerTerm /\ PersistBeforeSend
-----------------------------------------------------------------------------
(* What a handler does to the ballot of its node n, as far as elections go: *)
(* the term never falls; within a term a vote is given once, and forgotten  *)
(* only by a candidate that steps down; what is sent has been persisted.    *)
SavedAs(n, t, c) == disk'[n].term = t /\ disk'[n].voteFor = c

BallotStep(n) ==
  /\ \A k \in Node \ {n} :
       /\ state'[k] = state[k] /\ currentTerm'[k] = currentTerm[k]
       /\ voteFor'[k] = voteFor[k] /\ disk'[k] = disk[k]
  /\ UNCHANGED <<votes, elected, sendEnabled>>
  /\ \/ currentTerm'[n] > currentTerm[n] /\ state'[n] = "Follower"
     \/ /\ currentTerm'[n] = currentTerm[n]
        /\ \/ voteFor'[n] = voteFor[n] /\ state'[n] \in {state[n], "Follower"}
           \/ voteFor[n] = None /\ state'[n] = state[n]
           \/ voteFor'[n] = None /\ state[n] = "Candidate" /\ state'[n] = "Follower"
  /\ \/ SavedAs(n, disk[n].term, disk[n].voteFor)
     \/ SavedAs(n, currentTerm'[n], voteFor'[n])
  /\ \/ grants' = grants
     \/ /\ grants' = grants \union {Grant(n, currentTerm'[n], voteFor'[n])}
        /\ voteFor'[n] \in Peers(n)
        /\ SavedAs(n, currentTerm'[n], voteFor'[n])
  /\ \A m \in msgs' \ msgs :
       /\ m.from = n /\ m.to # n /\ m.term <= disk'[n].term
       /\ m.type = "VoteResponse" /\ m.granted =>
            Grant(n, m.term, m.to) \in grants' /\ m.asked = m.term

LEMMA BallotTypes ==
  ASSUME TypeOK, NEW n \in Node
  PROVE  /\ currentTerm[n] \in Nat /\ disk[n].term \in Nat
         /\ voteFor[n] \in Node \union {None} /\ disk[n].voteFor \in Node \union {None}
BY DEF TypeOK, CoreTypeOK, LogTypeOK, Records

LEMMA BallotTypesNext ==
  ASSUME TypeOK', NEW n \in Node
  PROVE  /\ currentTerm'[n] \in Nat /\ disk'[n].term \in Nat
         /\ voteFor'[n] \in Node \union {None} /\ disk'[n].voteFor \in Node \union {None}
BY DEF TypeOK, CoreTypeOK, LogTypeOK, Records

LEMMA BallotStepRemembers ==
  ASSUME TypeOK, TypeOK', VoteSelf, DiskBehind, NEW n \in Node, BallotStep(n),
         NEW k \in Node, NEW t \in Nat, NEW c \in Node, Remembers(k, t, c),
         c = k => ~(currentTerm[k] = t /\ state[k] = "Candidate")
  PROVE  Remembers(k, t, c)'
<1>1. CASE k # n
  BY <1>1 DEF BallotStep, Remembers
<1>2. CASE k = n
  <2>1. currentTerm'[n] > t \/ (currentTerm'[n] = t /\ voteFor'[n] = c)
    BY <1>2, BallotTypes, BallotTypesNext, NodeAssumption DEF BallotStep, Remembers, VoteSelf
  <2>2. disk'[n].term > t \/ (disk'[n].term = t /\ disk'[n].voteFor = c)
    BY <1>2, <2>1 DEF BallotStep, Remembers, SavedAs
  <2> QED BY <1>2, <2>1, <2>2 DEF Remembers
<1> QED BY <1>1, <1>2

LEMMA HistoryTypes ==
  ASSUME TypeOK
  PROVE  /\ \A g \in grants : g.voter \in Node /\ g.term \in Nat /\ g.cand \in Node
         /\ \A e \in elected : e.node \in Node /\ e.term \in Nat /\ e.votes \in [Node -> Nat]
         /\ \A m \in msgs : m.from \in Node /\ m.to \in Node /\ m.term \in Nat
BY MessageType DEF TypeOK, HistoryTypeOK

LEMMA BallotStepKeeps ==
  ASSUME TypeOK, TypeOK', ElectionInv, NEW n \in Node, BallotStep(n)
  PROVE  ElectionInv'
<1> DEFINE new == Grant(n, currentTerm'[n], voteFor'[n])
<1>0. /\ \A k \in Node : currentTerm[k] \in Nat /\ disk[k].term \in Nat
      /\ \A k \in Node : currentTerm'[k] \in Nat /\ disk'[k].term \in Nat
  BY BallotTypes, BallotTypesNext
<1>1. VoteSelf'
  BY NodeAssumption DEF ElectionInv, VoteSelf, BallotStep, SavedAs
<1>2. DiskBehind'
  BY <1>0 DEF ElectionInv, DiskBehind, BallotStep, SavedAs
<1>3. PeersOnly'
  <2>1. PeersOnly /\ sendEnabled' = sendEnabled
    BY DEF ElectionInv, BallotStep
  <2>2. \A m \in msgs' : m.from # m.to
    BY <2>1 DEF PeersOnly, BallotStep
  <2>3. \A g \in grants' : g.voter # g.cand
    BY <2>1 DEF PeersOnly, BallotStep, Grant, Peers
  <2> QED BY <2>1, <2>2, <2>3 DEF PeersOnly
<1>4. VotesKept'
  <2>1. ASSUME NEW g \in grants PROVE Remembers(g.voter, g.term, g.cand)'
    BY HistoryTypes, BallotStepRemembers DEF ElectionInv, VotesKept, PeersOnly
  <2>2. CASE grants' = grants
    BY <2>1, <2>2 DEF VotesKept
  <2>3. CASE grants' = grants \union {new} /\ SavedAs(n, currentTerm'[n], voteFor'[n])
    BY <2>1, <2>3 DEF VotesKept, Grant, Remembers, SavedAs
  <2> QED BY <2>2, <2>3 DEF BallotStep
<1>5. grants \subseteq grants'
  BY DEF BallotStep
<1>6. AnswersGranted'
  BY <1>5 DEF ElectionInv, AnswersGranted, BallotStep
<1>7. CountsGranted'
  BY <1>5 DEF ElectionInv, CountsGranted, BallotStep
<1>8. WinnersFaithful'
  <2> SUFFICES ASSUME NEW e \in elected'
               PROVE  /\ Remembers(e.node, e.term, e.node)'
                      /\ ~(currentTerm'[e.node] = e.term /\ state'[e.node] = "Candidate")
                      /\ \A g \in grants' : ~(g.voter = e.node /\ g.term = e.term)
    BY DEF WinnersFaithful
  <2>0. /\ e \in elected /\ e.node \in Node /\ e.term \in Nat
        /\ Remembers(e.node, e.term, e.node)
        /\ ~(currentTerm[e.node] = e.term /\ state[e.node] = "Candidate")
        /\ \A g \in grants : ~(g.voter = e.node /\ g.term = e.term)
    BY HistoryTypes DEF BallotStep, ElectionInv, WinnersFaithful
  <2>1. Remembers(e.node, e.term, e.node)'
    BY <2>0, BallotStepRemembers DEF ElectionInv
  <2>2. ~(currentTerm'[e.node] = e.term /\ state'[e.node] = "Candidate")
    <3>1. CASE e.node # n
      BY <2>0, <3>1 DEF BallotStep
    <3>2. CASE e.node = n
      BY <1>0, <2>0, <3>2 DEF BallotStep, Remembers
    <3> QED BY <3>1, <3>2
  <2>3. ASSUME grants' = grants \union {new}, voteFor'[n] \in Peers(n)
        PROVE  ~(n = e.node /\ currentTerm'[n] = e.term)
    BY <1>0, <2>1, <2>3 DEF Remembers, Peers
  <2>4. ASSUME NEW g \in grants' PROVE ~(g.voter = e.node /\ g.term = e.term)
    BY <2>0, <2>3 DEF BallotStep, Grant
  <2> QED BY <2>1, <2>2, <2>4
<1>9. WinnersCounted'
  BY <1>5 DEF ElectionInv, WinnersCounted, BallotStep, TestElection
<1>10. OneVotePerTerm'
  <2>1. ASSUME NEW g \in grants, grants' = grants \union {new}, voteFor'[n] \in Peers(n),
               g.voter = n, g.term = currentTerm'[n]
        PROVE  g.cand = voteFor'[n]
    <3>1. g \in grants'
      BY <2>1
    <3>2. \/ currentTerm'[g.voter] > g.term
          \/ currentTerm'[g.voter] = g.term /\ voteFor'[g.voter] = g.cand
      BY <1>4, <3>1 DEF VotesKept, Remembers
    <3> QED BY <1>0, <2>1, <3>2
  <2>2. CASE grants' = grants
    BY <2>2 DEF ElectionInv, OneVotePerTerm
  <2>3. CASE grants' = grants \union {new} /\ voteFor'[n] \in Peers(n)
    BY <2>1, <2>3 DEF ElectionInv, OneVotePerTerm, Grant
  <2> QED BY <2>2, <2>3 DEF BallotStep
<1>11. PersistBeforeSend'
  <2>1. disk'[n].term >= disk[n].term
    BY <1>0 DEF BallotStep, SavedAs, ElectionInv, DiskBehind
  <2>2. ASSUME NEW m \in msgs, m \in msgs' PROVE m.term <= disk'[m.from].term
    <3>1. m.from \in Node /\ m.term \in Nat /\ m.term <= disk[m.from].term
      BY HistoryTypes DEF ElectionInv, PersistBeforeSend
    <3> QED BY <1>0, <2>1, <3>1 DEF BallotStep
  <2> QED BY <2>2 DEF PersistBeforeSend, BallotStep
<1> QED BY <1>1, <1>2, <1>3, <1>4, <1>6, <1>7, <1>8, <1>9, <1>10, <1>11 DEF ElectionInv
-----------------------------------------------------------------------------
(* The handlers that take a ballot step.                                    *)

LEMMA DumpSaves ==
  ASSUME TypeOK, NEW n \in Node, Dump(n)
  PROVE  /\ \A k \in Node \ {n} : disk'[k] = disk[k]
         /\ disk'[n] = disk[n] \/ SavedAs(n, currentTerm'[n], voteFor'[n])
         /\ Running(n) => SavedAs(n, currentTerm'[n], voteFor'[n])
BY DEF Dump, SavedAs, TypeOK, LogTypeOK

LEMMA AppendRequestsBallot ==
  ASSUME TypeOK, ElectionInv, NEW n \in Node, NEW log, state[n] = "Leader",
         DoAppendEntries(n, log), NEW m \in msgs' \ msgs
  PROVE  m.from = n /\ m.to # n /\ m.term <= disk[n].term /\ m.type # "VoteResponse"
<1>1. PICK p \in sendEnabled[n] : \E garbage : m = AppendRequest(n, p, log, garbage)
  BY Zenon DEF DoAppendEntries
<1>2. /\ m.from = n /\ m.to = p /\ m.term = currentTerm[n] /\ m.type = "AppendRequest"
  BY <1>1 DEF AppendRequest
<1>3. p # n /\ disk[n].term = currentTerm[n] /\ currentTerm[n] \in Nat
  BY BallotTypes DEF ElectionInv, PeersOnly, VoteSelf
<1> QED BY <1>2, <1>3

LEMMA HeartbeatBallot ==
  ASSUME TypeOK, ElectionInv, NEW n \in Node, OnTimerHeartbeat(n)
  PROVE  BallotStep(n)
<1>1. /\ UNCHANGED <<state, currentTerm, voteFor, disk, votes, elected, sendEnabled, grants>>
      /\ state[n] = "Leader" /\ DoAppendEntries(n, logs[n])
  BY DEF OnTimerHeartbeat, coreVars
<1> QED BY <1>1, AppendRequestsBallot DEF BallotStep, SavedAs

LEMMA DoLogBallot ==
  ASSUME TypeOK, ElectionInv, NEW n \in Node, DoLog(n)
  PROVE  BallotStep(n)
<1>1. /\ UNCHANGED <<state, currentTerm, voteFor, votes, elected, sendEnabled, grants>>
      /\ state[n] = "Leader" /\ DoAppendEntries(n, logs'[n]) /\ Dump(n)
  BY DEF DoLog, coreVars
<1>2. SavedAs(n, disk[n].term, disk[n].voteFor)
  BY <1>1, DumpSaves DEF ElectionInv, VoteSelf, SavedAs
<1> QED BY <1>1, <1>2, DumpSaves, AppendRequestsBallot DEF BallotStep, SavedAs

LEMMA VoteRequestBallot ==
  ASSUME TypeOK, TypeOK', ElectionInv, NEW m \in msgs, OnVoteRequest(m)
  PROVE  BallotStep(m.to)
<1> DEFINE n     == m.to
           newer == m.term > currentTerm[n]
           last  == IF newer THEN 0 ELSE lastSeq[n]
           ask   == /\ m.term >= currentTerm[n]
                    /\ VoteBefore(m) \in {None, m.from}
                    /\ UpToDate(m, logs[n])
           valid == ValidSeq(m, last)
           grant == ask /\ valid
           term  == GreaterOf(m.term, currentTerm[n])
           r     == VoteResponse(m, term, grant)
<1>0. n \in Node /\ m.from \in Node /\ m.term \in Nat /\ m.from # n /\ None \notin Node
  BY HistoryTypes, NodeAssumption DEF ElectionInv, PeersOnly
<1>1. /\ state' = IF newer THEN [state EXCEPT ![n] = "Follower"] ELSE state
      /\ currentTerm' = [currentTerm EXCEPT ![n] = term]
      /\ voteFor' = [voteFor EXCEPT ![n] = IF grant THEN m.from ELSE VoteBefore(m)]
      /\ grants' = grants \union (IF grant THEN {Grant(n, m.term, m.from)} ELSE {})
      /\ IF ask /\ ~valid THEN Receive(m) /\ UNCHANGED disk ELSE Reply(m, r) /\ Dump(n)
      /\ UNCHANGED <<votes, sendEnabled, elected>> /\ Running(n)
  BY Zenon DEF OnVoteRequest, Grant
<1>t. currentTerm[n] \in Nat /\ voteFor[n] \in Node \union {None}
  BY <1>0, BallotTypes
<1>2. /\ currentTerm'[n] = term
      /\ voteFor'[n] = IF grant THEN m.from ELSE VoteBefore(m)
      /\ state'[n] = IF newer THEN "Follower" ELSE state[n]
      /\ term = IF newer THEN m.term ELSE currentTerm[n]
      /\ VoteBefore(m) = IF newer THEN None ELSE voteFor[n]
      /\ \A k \in Node \ {n} : /\ state'[k] = state[k] /\ currentTerm'[k] = currentTerm[k]
                               /\ voteFor'[k] = voteFor[k]
  BY <1>0, <1>1, <1>t DEF TypeOK, CoreTypeOK, GreaterOf, VoteBefore
<1>3. grant => term = m.term
  BY <1>0, <1>2, <1>t
<1>4. \/ currentTerm'[n] > currentTerm[n] /\ state'[n] = "Follower"
      \/ /\ currentTerm'[n] = currentTerm[n]
         /\ \/ voteFor'[n] = voteFor[n] /\ state'[n] \in {state[n], "Follower"}
            \/ voteFor[n] = None /\ state'[n] = state[n]
  BY <1>0, <1>2, <1>t
<1>5. /\ \A k \in Node \ {n} : disk'[k] = disk[k]
      /\ SavedAs(n, disk[n].term, disk[n].voteFor) \/ SavedAs(n, currentTerm'[n], voteFor'[n])
      /\ ~(ask /\ ~valid) => SavedAs(n, currentTerm'[n], voteFor'[n])
  <2> HIDE DEF ask, valid, r
  <2> QED BY <1>0, <1>1, DumpSaves DEF SavedAs
<1>6. \/ grants' = grants
      \/ /\ grants' = grants \union {Grant(n, currentTerm'[n], voteFor'[n])}
         /\ voteFor'[n] \in Peers(n)
         /\ SavedAs(n, currentTerm'[n], voteFor'[n])
  <2> HIDE DEF ask, valid, term
  <2> QED BY <1>0, <1>1, <1>2, <1>3, <1>5 DEF Peers
<1>7. ASSUME NEW a \in msgs' \ msgs
      PROVE  /\ a.from = n /\ a.to # n /\ a.term <= disk'[n].term
             /\ a.type = "VoteResponse" /\ a.granted =>
                  Grant(n, a.term, a.to) \in grants' /\ a.asked = a.term
  <2>1. a = r /\ ~(ask /\ ~valid)
    <3> HIDE DEF ask, valid, r
    <3> QED BY <1>1, <1>7 DEF Receive, Reply
  <2>2. /\ r.from = n /\ r.to = m.from /\ r.term = term /\ r.asked = m.term
        /\ r.granted => grant
    BY DEF VoteResponse
  <2>3. disk'[n].term = term /\ term \in Nat
    BY <1>0, <1>2, <1>5, <1>t, <2>1 DEF SavedAs
  <2>4. grant => Grant(n, term, m.from) \in grants'
    <3> HIDE DEF ask, valid, term
    <3> QED BY <1>1, <1>3
  <2> HIDE DEF ask, valid, term, r
  <2>5. a.from = n /\ a.to # n /\ a.term <= disk'[n].term
    BY <1>0, <2>1, <2>2, <2>3
  <2>6. a.granted => Grant(n, a.term, a.to) \in grants'
    BY <2>1, <2>2, <2>4, Zenon
  <2>7. a.granted => a.asked = a.term
    BY <1>3, <2>1, <2>2, Zenon
  <2> QED BY <2>5, <2>6, <2>7
<1>8. UNCHANGED <<votes, elected, sendEnabled>>
  BY <1>1
<1> HIDE DEF ask, valid, term, r
<1> QED BY <1>2, <1>4, <1>5, <1>6, <1>7, <1>8 DEF BallotStep

LEMMA StepDownBallot ==
  ASSUME TypeOK, ElectionInv, NEW m \in msgs, m.term > currentTerm[m.to],
         BecomeFollower(m.to, m.term), Dump(m.to), Receive(m),
         UNCHANGED <<votes, elected, sendEnabled, grants>>
  PROVE  BallotStep(m.to)
<1>0. m.to \in Node
  BY HistoryTypes
<1>1. /\ state' = [state EXCEPT ![m.to] = "Follower"]
      /\ currentTerm' = [currentTerm EXCEPT ![m.to] = m.term]
      /\ voteFor' = [voteFor EXCEPT ![m.to] = None]
  BY DEF BecomeFollower
<1>2. msgs' \subseteq msgs
  BY DEF Receive
<1>3. /\ \A k \in Node \ {m.to} : disk'[k] = disk[k]
      /\ \/ SavedAs(m.to, disk[m.to].term, disk[m.to].voteFor)
         \/ SavedAs(m.to, currentTerm'[m.to], voteFor'[m.to])
  BY <1>0, DumpSaves DEF SavedAs
<1> QED BY <1>0, <1>1, <1>2, <1>3 DEF BallotStep, TypeOK, CoreTypeOK

LEMMA ResponseBallot ==
  ASSUME TypeOK, ElectionInv, NEW m \in msgs,
         \/ OnVoteResponseNewer(m) \/ OnAppendEntriesResponseNewer(m)
         \/ OnAppendEntriesResponseFailed(m) \/ OnAppendEntriesResponseSuccess(m)
  PROVE  BallotStep(m.to)
<1>1. CASE OnVoteResponseNewer(m)
  BY <1>1, StepDownBallot DEF OnVoteResponseNewer, histVars
<1>2. CASE OnAppendEntriesResponseNewer(m)
  BY <1>2, StepDownBallot DEF OnAppendEntriesResponseNewer, histVars
<1>3. CASE OnAppendEntriesResponseFailed(m) \/ OnAppendEntriesResponseSuccess(m)
  <2>1. /\ UNCHANGED <<state, currentTerm, voteFor, disk, votes, elected, sendEnabled, grants>>
        /\ Receive(m)
    BY <1>3 DEF OnAppendEntriesResponseFailed, OnAppendEntriesResponseSuccess, coreVars, histVars
  <2> QED BY <2>1 DEF BallotStep, SavedAs, Receive
<1> QED BY <1>1, <1>2, <1>3
LEMMA AppendReplyBallot ==
  ASSUME NEW m \in msgs, NEW term, NEW success, NEW last, m.from # m.to,
         Reply(m, AppendResponse(m, term, success, last)), NEW a \in msgs' \ msgs
  PROVE  a.from = m.to /\ a.to # m.to /\ a.term = term /\ a.type = "AppendResponse"
<1>1. a = AppendResponse(m, term, success, last)
  BY DEF Reply
<1> HIDE DEF Reply
<1> QED BY <1>1 DEF AppendResponse

LEMMA AppendRequestBallot ==
  ASSUME TypeOK, TypeOK', ElectionInv, NEW m \in msgs, OnAppendEntriesRequest(m)
  PROVE  BallotStep(m.to)
<1> DEFINE n == m.to
<1>0. n \in Node /\ m.from \in Node /\ m.term \in Nat /\ m.from # n /\ currentTerm[n] \in Nat
  BY HistoryTypes, BallotTypes DEF ElectionInv, PeersOnly
<1>1. UNCHANGED <<votes, elected, sendEnabled, grants>> /\ Running(n)
  BY DEF OnAppendEntriesRequest, histVars
<1>2. CASE AppendOldTerm(m)
  <2>1. /\ UNCHANGED <<state, currentTerm, voteFor>> /\ Dump(n)
        /\ Reply(m, AppendResponse(m, currentTerm[n], FALSE, LastIndexOf(logs[n])))
    BY <1>2 DEF AppendOldTerm, coreVars
  <2>2. SavedAs(n, currentTerm[n], voteFor[n]) /\ \A k \in Node \ {n} : disk'[k] = disk[k]
    BY <1>0, <1>1, <2>1, DumpSaves
  <2>3. ASSUME NEW a \in msgs' \ msgs
        PROVE  a.from = n /\ a.to # n /\ a.term <= disk'[n].term /\ a.type # "VoteResponse"
    <3>1. a.from = n /\ a.to # n /\ a.term = currentTerm[n] /\ a.type = "AppendResponse"
      BY <1>0, <2>1, AppendReplyBallot
    <3> QED BY <1>0, <2>2, <3>1 DEF SavedAs
  <2> QED BY <1>1, <2>1, <2>2, <2>3 DEF BallotStep, SavedAs
<1>3. CASE HandleRequestRoutine(m)
  <2>1. /\ \A k \in Node \ {n} : /\ state'[k] = state[k] /\ currentTerm'[k] = currentTerm[k]
                                 /\ voteFor'[k] = voteFor[k]
        /\ currentTerm'[n] = m.term /\ m.term >= currentTerm[n]
    BY <1>0, <1>3 DEF HandleRequestRoutine, TypeOK, CoreTypeOK
  <2>2. \/ currentTerm'[n] > currentTerm[n] /\ state'[n] = "Follower"
        \/ /\ currentTerm'[n] = currentTerm[n]
           /\ \/ voteFor'[n] = voteFor[n] /\ state'[n] \in {state[n], "Follower"}
              \/ voteFor'[n] = None /\ state[n] = "Candidate" /\ state'[n] = "Follower"
    BY <1>0, <1>3 DEF HandleRequestRoutine, StepsDown, TypeOK, CoreTypeOK
  <2>3. CASE UNCHANGED disk /\ Receive(m)
    BY <1>1, <2>1, <2>2, <2>3 DEF BallotStep, SavedAs, Receive
  <2>4. CASE Dump(n) /\ \E success, last : Reply(m, AppendResponse(m, m.term, success, last))
    <3>1. SavedAs(n, currentTerm'[n], voteFor'[n]) /\ \A k \in Node \ {n} : disk'[k] = disk[k]
      BY <1>0, <1>1, <2>4, DumpSaves
    <3>2. \A a \in msgs' \ msgs : /\ a.from = n /\ a.to # n /\ a.term <= disk'[n].term
                                  /\ a.type # "VoteResponse"
      BY <1>0, <2>1, <2>4, <3>1, AppendReplyBallot DEF SavedAs
    <3> QED BY <1>1, <2>1, <2>2, <3>1, <3>2 DEF BallotStep
  <2>5. CASE AppendOutOfOrder(m)
    BY <2>3, <2>5 DEF AppendOutOfOrder
  <2>6. CASE AppendMissing(m)
    BY <2>4, <2>6 DEF AppendMissing
  <2>7. CASE AppendConflict(m)
    BY <2>4, <2>7, Zenon DEF AppendConflict
  <2>8. CASE AppendAccept(m)
    BY <2>4, <2>8, Zenon DEF AppendAccept
  <2>9. CASE AppendOldTerm(m)
    BY <1>2, <2>9
  <2> QED BY <2>5, <2>6, <2>7, <2>8, <2>9 DEF OnAppendEntriesRequest
<1> QED BY <1>2, <1>3
    DEF OnAppendEntriesRequest, AppendOutOfOrder, AppendMissing, AppendConflict, AppendAccept

LEMMA QuietBallot ==
  ASSUME TypeOK, NEW n \in Node, Pause(n) \/ Resume(n) \/ Restart(n)
  PROVE  BallotStep(n)
<1>1. /\ UNCHANGED <<currentTerm, voteFor, votes, elected, sendEnabled, disk, grants, msgs>>
      /\ state' = state \/ state' = [state EXCEPT ![n] = "Follower"]
  BY DEF Pause, Resume, Restart, coreVars, histVars
<1> QED BY <1>1 DEF BallotStep, SavedAs, TypeOK, CoreTypeOK

LEMMA NoWinBallot ==
  ASSUME NEW n \in Node, OnTimerElectionFail(n), ~TestElection(n, votes[n])
  PROVE  BallotStep(n)
<1>1. UNCHANGED <<currentTerm, voteFor, votes, elected, sendEnabled, disk, grants, msgs, state>>
  BY Zenon DEF OnTimerElectionFail
<1> QED BY <1>1 DEF BallotStep, SavedAs
-----------------------------------------------------------------------------
(* The steps that are no ballot steps.                                      *)

LEMMA StartKeeps ==
  ASSUME TypeOK, TypeOK', ElectionInv, NEW n \in Node, OnTimerElection(n)
  PROVE  ElectionInv'
<1>0. /\ \A k \in Node : currentTerm[k] \in Nat /\ disk[k].term \in Nat
      /\ \A k \in Node : currentTerm'[k] \in Nat /\ disk'[k].term \in Nat
  BY BallotTypes, BallotTypesNext
<1>1. /\ Running(n) /\ Dump(n) /\ UNCHANGED <<grants, elected, sendEnabled>>
      /\ state' = [state EXCEPT ![n] = "Candidate"]
      /\ currentTerm' = [currentTerm EXCEPT ![n] = @ + 1]
      /\ voteFor' = [voteFor EXCEPT ![n] = n]
      /\ msgs' = msgs \union {VoteRequest(n, p) : p \in sendEnabled[n]}
      /\ votes' = [votes EXCEPT ![n] =
                     [p \in Node |-> IF p \in sendEnabled[n] THEN 0 ELSE @[p]]]
  BY Zenon DEF OnTimerElection
<1>2. /\ \A k \in Node \ {n} : /\ state'[k] = state[k] /\ currentTerm'[k] = currentTerm[k]
                               /\ voteFor'[k] = voteFor[k] /\ disk'[k] = disk[k]
      /\ state'[n] = "Candidate" /\ currentTerm'[n] = currentTerm[n] + 1 /\ voteFor'[n] = n
      /\ SavedAs(n, currentTerm'[n], n)
  BY <1>1, DumpSaves DEF TypeOK, CoreTypeOK, SavedAs
<1>3. \A a \in msgs' \ msgs : /\ a.from = n /\ a.to # n /\ a.term = currentTerm[n] + 1
                              /\ a.type = "VoteRequest"
  BY <1>1 DEF VoteRequest, ElectionInv, PeersOnly
<1>4. VoteSelf'
  BY <1>2 DEF ElectionInv, VoteSelf, SavedAs
<1>5. DiskBehind'
  BY <1>0, <1>2 DEF ElectionInv, DiskBehind, SavedAs
<1>6. PeersOnly'
  BY <1>1, <1>3 DEF ElectionInv, PeersOnly
<1>7. ASSUME NEW k \in Node, NEW t \in Nat, NEW c, Remembers(k, t, c) PROVE Remembers(k, t, c)'
  BY <1>0, <1>2, <1>7 DEF Remembers, SavedAs
<1>8. VotesKept'
  BY <1>1, <1>7, HistoryTypes DEF ElectionInv, VotesKept
<1>9. AnswersGranted'
  BY <1>1, <1>3 DEF ElectionInv, AnswersGranted
<1>10. CountsGranted'
  BY <1>1 DEF ElectionInv, CountsGranted, TypeOK, PeerTypeOK
<1>11. WinnersFaithful'
  <2> SUFFICES ASSUME NEW e \in elected
               PROVE  /\ Remembers(e.node, e.term, e.node)'
                      /\ ~(currentTerm'[e.node] = e.term /\ state'[e.node] = "Candidate")
                      /\ \A g \in grants : ~(g.voter = e.node /\ g.term = e.term)
    BY <1>1 DEF WinnersFaithful
  <2>1. /\ e.node \in Node /\ e.term \in Nat /\ Remembers(e.node, e.term, e.node)
        /\ ~(currentTerm[e.node] = e.term /\ state[e.node] = "Candidate")
        /\ \A g \in grants : ~(g.voter = e.node /\ g.term = e.term)
    BY HistoryTypes DEF ElectionInv, WinnersFaithful
  <2>2. Remembers(e.node, e.term, e.node)'
    BY <1>7, <2>1
  <2>3. ~(currentTerm'[e.node] = e.term /\ state'[e.node] = "Candidate")
    BY <1>0, <1>2, <2>1 DEF Remembers
  <2> QED BY <2>1, <2>2, <2>3
<1>12. WinnersCounted'
  BY <1>1 DEF ElectionInv, WinnersCounted, TestElection
<1>13. OneVotePerTerm'
  BY <1>1 DEF ElectionInv, OneVotePerTerm
<1>14. PersistBeforeSend'
  BY <1>0, <1>1, <1>2, <1>3, HistoryTypes DEF ElectionInv, PersistBeforeSend, SavedAs, DiskBehind
<1> QED BY <1>4, <1>5, <1>6, <1>8, <1>9, <1>10, <1>11, <1>12, <1>13, <1>14 DEF ElectionInv

(* The votes of a candidate are counted, and it may win.                    *)
LEMMA CountKeeps ==
  ASSUME TypeOK, ElectionInv, NEW n \in Node, CountsGranted', msgs' \subseteq msgs,
         UNCHANGED <<currentTerm, voteFor, disk, grants, sendEnabled>>,
         \/ UNCHANGED <<state, elected>>
         \/ state[n] = "Candidate" /\ TestElection(n, votes'[n]) /\ BecomeLeader(n)
  PROVE  ElectionInv'
<1> DEFINE win == [term |-> currentTerm[n], node |-> n, votes |-> votes'[n]]
<1>1. /\ \A k \in Node : state'[k] = state[k] \/ (k = n /\ state[n] = "Candidate" /\ state'[n] = "Leader")
      /\ \/ elected' = elected
         \/ elected' = elected \union {win} /\ state[n] = "Candidate" /\ state'[n] = "Leader"
            /\ TestElection(n, votes'[n])
  BY DEF BecomeLeader, TypeOK, CoreTypeOK
<1>2. VoteSelf'
  BY <1>1 DEF ElectionInv, VoteSelf
<1>3. DiskBehind' /\ PeersOnly' /\ VotesKept' /\ AnswersGranted' /\ OneVotePerTerm' /\ PersistBeforeSend'
  BY DEF ElectionInv, DiskBehind, PeersOnly, VotesKept, AnswersGranted, OneVotePerTerm,
         PersistBeforeSend, Remembers
<1>4. WinnersFaithful'
  <2> SUFFICES ASSUME NEW e \in elected'
               PROVE  /\ Remembers(e.node, e.term, e.node)'
                      /\ ~(currentTerm'[e.node] = e.term /\ state'[e.node] = "Candidate")
                      /\ \A g \in grants' : ~(g.voter = e.node /\ g.term = e.term)
    BY DEF WinnersFaithful
  <2>1. CASE e \in elected
    BY <1>1, <2>1, HistoryTypes DEF ElectionInv, WinnersFaithful, Remembers
  <2>2. CASE e = win /\ state[n] = "Candidate" /\ state'[n] = "Leader"
    <3>1. voteFor[n] = n /\ disk[n].term = currentTerm[n] /\ disk[n].voteFor = n
      BY <2>2 DEF ElectionInv, VoteSelf
    <3>2. ASSUME NEW g \in grants, g.voter = n, g.term = currentTerm[n] PROVE FALSE
      BY <3>1, <3>2, BallotTypes DEF ElectionInv, VotesKept, Remembers, PeersOnly
    <3> QED BY <2>2, <3>1, <3>2 DEF Remembers
  <2> QED BY <1>1, <2>1, <2>2
<1>5. WinnersCounted'
  <2> SUFFICES ASSUME NEW e \in elected'
               PROVE  /\ TestElection(e.node, e.votes)
                      /\ \A p \in Node : e.votes[p] # 0 => Grant(p, e.votes[p], e.node) \in grants
    BY DEF WinnersCounted, TestElection
  <2>1. CASE e \in elected
    BY <2>1 DEF ElectionInv, WinnersCounted
  <2>2. CASE e = win /\ TestElection(n, votes'[n])
    BY <2>2 DEF CountsGranted
  <2> QED BY <1>1, <2>1, <2>2
<1> QED BY <1>2, <1>3, <1>4, <1>5 DEF ElectionInv

LEMMA VoteCountedKeeps ==
  ASSUME TypeOK, ElectionInv, NEW m \in msgs, OnVoteResponseCounted(m)
  PROVE  ElectionInv'
<1> DEFINE n == m.to
<1>0. n \in Node /\ m.from \in Node /\ m.term \in Nat
  BY HistoryTypes
<1>1. /\ m.type = "VoteResponse" /\ state[n] = "Candidate" /\ Receive(m)
      /\ votes' = IF votes[n][m.from] = 0 /\ m.granted
                  THEN [votes EXCEPT ![n][m.from] = m.term] ELSE votes
      /\ IF TestElection(n, votes'[n]) THEN BecomeLeader(n)
                                       ELSE UNCHANGED <<state, leaderName, peerVars, seq, elected>>
      /\ UNCHANGED <<currentTerm, voteFor, disk, grants, sendEnabled>>
  BY Zenon DEF OnVoteResponseCounted
<1>2. CountsGranted'
  <2>1. m.granted => Grant(m.from, m.term, n) \in grants
    BY <1>1 DEF ElectionInv, AnswersGranted
  <2>2. votes \in [Node -> [Node -> Nat]]
    BY DEF TypeOK, PeerTypeOK
  <2>3. ASSUME NEW k \in Node, NEW p \in Node
        PROVE  votes'[k][p] = votes[k][p]
               \/ (k = n /\ p = m.from /\ votes'[k][p] = m.term /\ m.granted)
    BY <1>0, <1>1, <2>2
  <2> QED BY <1>1, <2>1, <2>3 DEF ElectionInv, CountsGranted
<1>3. msgs' \subseteq msgs
  BY <1>1 DEF Receive
<1> QED BY <1>0, <1>1, <1>2, <1>3, CountKeeps

LEMMA ElectionFailKeeps ==
  ASSUME TypeOK, TypeOK', ElectionInv, NEW n \in Node, OnTimerElectionFail(n)
  PROVE  ElectionInv'
<1>1. CASE TestElection(n, votes[n])
  <2>1. /\ state[n] = "Candidate" /\ BecomeLeader(n)
        /\ UNCHANGED <<votes, currentTerm, voteFor, disk, grants, sendEnabled, msgs>>
    BY <1>1, Zenon DEF OnTimerElectionFail
  <2>2. CountsGranted' /\ TestElection(n, votes'[n])
    BY <1>1, <2>1 DEF ElectionInv, CountsGranted
  <2> QED BY <2>1, <2>2, CountKeeps
<1>2. CASE ~TestElection(n, votes[n])
  BY <1>2, NoWinBallot, BallotStepKeeps
<1> QED BY <1>1, <1>2

(* A crash puts in the place of a node's memory what it has on its disk.    *)
LEMMA CrashKeeps ==
  ASSUME TypeOK, TypeOK', ElectionInv, NEW n \in Node, Crash(n)
  PROVE  ElectionInv'
<1>1. /\ state' = [state EXCEPT ![n] = "NotRunning"]
      /\ currentTerm' = [currentTerm EXCEPT ![n] = disk[n].term]
      /\ voteFor' = [voteFor EXCEPT ![n] = disk[n].voteFor]
      /\ votes' = [votes EXCEPT ![n] = [p \in Node |-> 0]]
      /\ sendEnabled' = [sendEnabled EXCEPT ![n] = Peers(n)]
      /\ msgs' = {m \in msgs : m.to # n /\ (m.from # n \/ ~IsRequest(m))} \union
                 {[m EXCEPT !.live = FALSE] :
                    m \in {r \in msgs : r.to # n /\ r.from = n /\ IsRequest(r)}}
      /\ UNCHANGED <<disk, grants, elected>>
  BY DEF Crash
<1>2. /\ \A k \in Node \ {n} : /\ state'[k] = state[k] /\ currentTerm'[k] = currentTerm[k]
                               /\ voteFor'[k] = voteFor[k] /\ sendEnabled'[k] = sendEnabled[k]
      /\ state'[n] = "NotRunning" /\ currentTerm'[n] = disk[n].term
      /\ voteFor'[n] = disk[n].voteFor /\ sendEnabled'[n] = Peers(n)
      /\ \A k, p \in Node : votes'[k][p] \in {0, votes[k][p]}
  BY <1>1 DEF TypeOK, CoreTypeOK, PeerTypeOK
<1>3. ASSUME NEW a \in msgs'
      PROVE  \E m \in msgs : /\ a.type = m.type /\ a.from = m.from /\ a.to = m.to
                             /\ a.term = m.term
                             /\ a.type = "VoteResponse" => a = m
  <2>1. CASE a \in msgs
    BY <2>1
  <2>2. ASSUME NEW m \in msgs, IsRequest(m), a = [m EXCEPT !.live = FALSE]
        PROVE  /\ a.type = m.type /\ a.from = m.from /\ a.to = m.to /\ a.term = m.term
               /\ a.type # "VoteResponse"
    <3>1. m \in Messages
      BY DEF TypeOK
    <3> QED BY <2>2, <3>1 DEF Messages, IsRequest
  <2> QED BY <1>1, <2>1, <2>2
<1>4. VoteSelf' /\ DiskBehind'
  BY <1>1, <1>2, BallotTypes DEF ElectionInv, VoteSelf, DiskBehind
<1>5. PeersOnly'
  BY <1>1, <1>2, <1>3 DEF ElectionInv, PeersOnly, Peers
<1>6. ASSUME NEW k \in Node, NEW t, NEW c, Remembers(k, t, c) PROVE Remembers(k, t, c)'
  BY <1>1, <1>2, <1>6 DEF Remembers
<1>7. VotesKept'
  BY <1>1, <1>6, HistoryTypes DEF ElectionInv, VotesKept
<1>8. AnswersGranted'
  BY <1>1, <1>3 DEF ElectionInv, AnswersGranted
<1>9. CountsGranted'
  BY <1>1, <1>2 DEF ElectionInv, CountsGranted
<1>10. WinnersFaithful'
  <2> SUFFICES ASSUME NEW e \in elected
               PROVE  /\ Remembers(e.node, e.term, e.node)'
                      /\ ~(currentTerm'[e.node] = e.term /\ state'[e.node] = "Candidate")
                      /\ \A g \in grants : ~(g.voter = e.node /\ g.term = e.term)
    BY <1>1 DEF WinnersFaithful
  <2>1. /\ e.node \in Node /\ Remembers(e.node, e.term, e.node)
        /\ ~(currentTerm[e.node] = e.term /\ state[e.node] = "Candidate")
        /\ \A g \in grants : ~(g.voter = e.node /\ g.term = e.term)
    BY HistoryTypes DEF ElectionInv, WinnersFaithful
  <2> QED BY <1>2, <1>6, <2>1
<1>11. WinnersCounted' /\ OneVotePerTerm'
  BY <1>1 DEF ElectionInv, WinnersCounted, OneVotePerTerm, TestElection
<1>12. PersistBeforeSend'
  BY <1>1, <1>3 DEF ElectionInv, PersistBeforeSend
<1> QED BY <1>4, <1>5, <1>7, <1>8, <1>9, <1>10, <1>11, <1>12 DEF ElectionInv

LEMMA CutKeeps ==
  ASSUME TypeOK, ElectionInv, NEW n \in Node, NEW p \in Peers(n),
         DisableSend(n, p) \/ EnableSend(n, p)
  PROVE  ElectionInv'
<1>1. /\ UNCHANGED <<state, currentTerm, voteFor, disk, votes, grants, elected, msgs>>
      /\ \A k \in Node : k \notin sendEnabled'[k]
  <2> USE DEF coreVars, histVars
  <2>1. UNCHANGED <<state, currentTerm, voteFor, disk, votes, grants, elected, msgs>>
    BY DEF DisableSend, EnableSend
  <2>2. /\ sendEnabled \in [Node -> SUBSET Node] /\ p # n
        /\ \A k \in Node : k \notin sendEnabled[k]
    BY DEF ElectionInv, PeersOnly, Peers, TypeOK, PeerTypeOK
  <2>3. \/ sendEnabled' = [sendEnabled EXCEPT ![n] = @ \ {p}]
        \/ sendEnabled' = [sendEnabled EXCEPT ![n] = @ \union {p}]
    BY DEF DisableSend, EnableSend
  <2> QED BY <2>1, <2>2, <2>3
<1>2. VoteSelf' /\ DiskBehind' /\ PeersOnly' /\ VotesKept' /\ AnswersGranted' /\ CountsGranted'
  BY <1>1 DEF ElectionInv, VoteSelf, DiskBehind, PeersOnly, VotesKept, AnswersGranted,
              CountsGranted, Remembers
<1>3. WinnersFaithful' /\ WinnersCounted' /\ OneVotePerTerm' /\ PersistBeforeSend'
  BY <1>1 DEF ElectionInv, WinnersFaithful, WinnersCounted, TestElection, OneVotePerTerm,
              PersistBeforeSend, Remembers
<1> QED BY <1>2, <1>3 DEF ElectionInv
-----------------------------------------------------------------------------
(* The invariant holds.                                                    *)

LEMMA ElectionInit == Init => ElectionInv
<1> SUFFICES ASSUME Init PROVE ElectionInv
  OBVIOUS
<1> USE DEF Init, Start
<1>1. VoteSelf /\ DiskBehind /\ PeersOnly
  BY DEF VoteSelf, DiskBehind, PeersOnly, Peers, EmptyDisk
<1>2. VotesKept /\ AnswersGranted /\ CountsGranted /\ WinnersFaithful /\ WinnersCounted
      /\ OneVotePerTerm /\ PersistBeforeSend
  BY DEF VotesKept, AnswersGranted, CountsGranted, WinnersFaithful, WinnersCounted,
         OneVotePerTerm, PersistBeforeSend
<1> QED BY <1>1, <1>2 DEF ElectionInv

LEMMA ElectionStutter == ASSUME ElectionInv, UNCHANGED vars PROVE ElectionInv'
<1> USE DEF ElectionInv, vars
<1>1. VoteSelf' /\ DiskBehind' /\ PeersOnly' /\ VotesKept' /\ AnswersGranted' /\ CountsGranted'
  BY DEF VoteSelf, DiskBehind, PeersOnly, VotesKept, AnswersGranted, CountsGranted, Remembers
<1>2. WinnersFaithful' /\ WinnersCounted' /\ OneVotePerTerm' /\ PersistBeforeSend'
  BY DEF WinnersFaithful, WinnersCounted, TestElection, OneVotePerTerm, PersistBeforeSend, Remembers
<1> QED BY <1>1, <1>2

LEMMA ElectionNext ==
  ASSUME TypeOK, TypeOK', ElectionInv, [Next]_vars
  PROVE  ElectionInv'
<1>1. ASSUME NEW n \in Node, Timer(n) \/ DoLog(n) PROVE ElectionInv'
  BY <1>1, StartKeeps, ElectionFailKeeps, HeartbeatBallot, DoLogBallot, BallotStepKeeps DEF Timer
<1>2. ASSUME NEW n \in Node, Fault(n) PROVE ElectionInv'
  <2>1. CASE Crash(n)
    BY <2>1, CrashKeeps
  <2>2. CASE Pause(n) \/ Resume(n) \/ Restart(n)
    <3>1. BallotStep(n)
      BY <2>2, QuietBallot
    <3> QED BY <3>1, BallotStepKeeps
  <2>3. ASSUME NEW p \in Peers(n), DisableSend(n, p) \/ EnableSend(n, p) PROVE ElectionInv'
    BY <2>3, CutKeeps
  <2> QED BY <1>2, <2>1, <2>2, <2>3 DEF Fault
<1>3. ASSUME NEW m \in msgs, Handle(m) PROVE ElectionInv'
  <2>1. CASE OnVoteResponseCounted(m)
    BY <2>1, VoteCountedKeeps
  <2>2. CASE ~OnVoteResponseCounted(m)
    <3>1. BallotStep(m.to)
      BY <1>3, <2>2, VoteRequestBallot, AppendRequestBallot, ResponseBallot DEF Handle
    <3> QED BY <3>1, HistoryTypes, BallotStepKeeps
  <2> QED BY <2>1, <2>2
<1> QED BY <1>1, <1>2, <1>3, ElectionStutter DEF Next

THEOREM ElectionInvariant == Spec => []ElectionInv
BY TypeCorrect, ElectionInit, ElectionNext, PTL DEF Spec
-----------------------------------------------------------------------------
(* What follows from it.                                                   *)

(* A vote given to a peer survives crashes and pauses (Persister::Dump and  *)
(* Load): the voter's disk holds it, or a later term.                       *)
THEOREM VotesPersist == Spec => []VotePersisted
<1>1. ElectionInv => VotePersisted
  BY DEF ElectionInv, VotesKept, Remembers, VotePersisted
<1> QED BY <1>1, ElectionInvariant, PTL

(* on_vote_request never votes for two peers in one term, whatever crashes, *)
(* pauses and late requests lie between.                                    *)
THEOREM VotesOnce == Spec => []OneVotePerTerm
<1>1. ElectionInv => OneVotePerTerm
  BY DEF ElectionInv
<1> QED BY <1>1, ElectionInvariant, PTL

(* Every handler persists its term before it sends or answers in it.        *)
THEOREM TermsPersist == Spec => []PersistBeforeSend
<1>1. ElectionInv => PersistBeforeSend
  BY DEF ElectionInv
<1> QED BY <1>1, ElectionInvariant, PTL

(* The voters behind a won election: the winner and the peers it counted.   *)
Voters(e) == {e.node} \union {p \in Peers(e.node) : e.votes[p] # 0}

LEMMA VotersMajority ==
  ASSUME TypeOK, ElectionInv, NEW e \in elected
  PROVE  Voters(e) \subseteq Node /\ Cardinality(Voters(e)) > Cardinality(Node) \div 2
<1> DEFINE Q == {p \in Peers(e.node) : e.votes[p] # 0}
<1>1. e.node \in Node /\ TestElection(e.node, e.votes)
  BY HistoryTypes DEF ElectionInv, WinnersCounted
<1>2. Q \subseteq Node /\ e.node \notin Q /\ IsFiniteSet(Q)
  <2>1. Q \in SUBSET Node /\ e.node \notin Q
    BY DEF Peers
  <2> QED BY <2>1, NodeAssumption, FS_Subset
<1>3. Voters(e) = Q \union {e.node}
  BY DEF Voters
<1>4. 1 + Cardinality(Q) > Cardinality(Node) \div 2
  BY <1>1 DEF TestElection, EnoughVotes
<1> HIDE DEF Q
<1>5. Cardinality(Q \union {e.node}) = Cardinality(Q) + 1 /\ Cardinality(Q) \in Nat
  BY <1>2, FS_AddElement, FS_CardinalityType
<1>6. Cardinality(Node) \in Nat
  BY NodeAssumption, FS_CardinalityType
<1> QED BY <1>1, <1>2, <1>3, <1>4, <1>5, <1>6

LEMMA FreshVotesAgree ==
  ASSUME TypeOK, ElectionInv, NEW e \in elected, NEW f \in elected,
         e.term = f.term, Fresh(e), Fresh(f)
  PROVE  e.node = f.node
<1>1. \E q \in Node : q \in Voters(e) /\ q \in Voters(f)
  <2>1. /\ Voters(e) \subseteq Node /\ Cardinality(Voters(e)) > Cardinality(Node) \div 2
        /\ Voters(f) \subseteq Node /\ Cardinality(Voters(f)) > Cardinality(Node) \div 2
    BY VotersMajority
  <2>2. /\ Cardinality(Node) \in Nat
        /\ Cardinality(Voters(e)) \in Nat /\ Cardinality(Voters(f)) \in Nat
    BY <2>1, NodeAssumption, FS_Subset, FS_CardinalityType
  <2>3. Cardinality(Voters(e)) + Cardinality(Voters(f)) > Cardinality(Node)
    BY <2>1, <2>2
  <2>4. Voters(e) \cap Voters(f) # {}
    BY <2>1, <2>3, NodeAssumption, FS_MajoritiesIntersect
  <2> QED BY <2>1, <2>4
<1>2. PICK q \in Node : q \in Voters(e) /\ q \in Voters(f)
  BY <1>1
<1>3. \A w \in {e, f} :
        /\ w.node \in Node /\ w.term = e.term
        /\ q = w.node \/ Grant(q, e.term, w.node) \in grants
        /\ \A g \in grants : ~(g.voter = w.node /\ g.term = e.term)
  BY <1>2, HistoryTypes DEF ElectionInv, WinnersFaithful, WinnersCounted, Voters, Fresh
<1>4. Grant(q, e.term, e.node) \in grants /\ Grant(q, e.term, f.node) \in grants => e.node = f.node
  BY DEF ElectionInv, OneVotePerTerm, Grant
<1>5. \A c : Grant(q, e.term, c) \in grants => q # e.node /\ q # f.node
  BY <1>3 DEF Grant
<1> QED BY <1>3, <1>4, <1>5

(* Two nodes win one term only if one of them counted a vote of an earlier  *)
(* term: apart from the term of an answer, which on_vote_response does not  *)
(* compare, the election is safe.                                           *)
THEOREM FreshElectionsSafe == Spec => []FreshElectionSafety
<1>1. TypeOK /\ ElectionInv => FreshElectionSafety
  BY FreshVotesAgree DEF FreshElectionSafety
<1> QED BY <1>1, TypeCorrect, ElectionInvariant, PTL
-----------------------------------------------------------------------------
(* If no RPC and no answer arrives late and no link is cut, every vote that *)
(* is counted is fresh.                                                     *)
CountsFresh ==
  /\ \A n \in Node : Peers(n) \subseteq sendEnabled[n]
  /\ \A n, p \in Node : state[n] = "Candidate" => votes[n][p] \in {0, currentTerm[n]}
  /\ \A e \in elected : Fresh(e)

LEMMA FreshStep ==
  ASSUME TypeOK, TypeOK', ElectionInv, CountsFresh, Timely, MaxCut = 0, [Next]_vars
  PROVE  CountsFresh'
<1>0. \A n \in Node : Peers(n) \subseteq sendEnabled[n]
  BY DEF CountsFresh
<1>c. \A n, p \in Node : state[n] = "Candidate" => votes[n][p] \in {0, currentTerm[n]}
  BY DEF CountsFresh
<1>f. \A e \in elected : Fresh(e)
  BY DEF CountsFresh
<1>1. ASSUME NEW n \in Node, BallotStep(n) PROVE CountsFresh'
  <2>1. /\ UNCHANGED <<votes, elected, sendEnabled>>
        /\ \A k \in Node : state'[k] = "Candidate" =>
             state[k] = "Candidate" /\ currentTerm'[k] = currentTerm[k]
    BY <1>1 DEF BallotStep
  <2> QED BY <1>0, <1>c, <1>f, <2>1 DEF CountsFresh, Fresh
<1>2. ASSUME NEW n \in Node, OnTimerElection(n) PROVE CountsFresh'
  <2>1. /\ UNCHANGED <<elected, sendEnabled>>
        /\ state' = [state EXCEPT ![n] = "Candidate"]
        /\ currentTerm' = [currentTerm EXCEPT ![n] = @ + 1]
        /\ votes' = [votes EXCEPT ![n] =
                       [p \in Node |-> IF p \in sendEnabled[n] THEN 0 ELSE @[p]]]
    BY <1>2, Zenon DEF OnTimerElection
  <2>2. votes[n][n] = 0
    BY DEF ElectionInv, CountsGranted, PeersOnly, Grant
  <2>3. ASSUME NEW k \in Node, NEW p \in Node, state'[k] = "Candidate"
        PROVE  votes'[k][p] \in {0, currentTerm'[k]}
    <3>1. CASE k = n
      BY <1>0, <2>1, <2>2, <3>1 DEF Peers, TypeOK, PeerTypeOK
    <3>2. CASE k # n
      BY <1>c, <2>1, <2>3, <3>2 DEF TypeOK, PeerTypeOK, CoreTypeOK
    <3> QED BY <3>1, <3>2
  <2> QED BY <1>0, <1>f, <2>1, <2>3 DEF CountsFresh, Fresh
<1>3. ASSUME NEW n \in Node, state[n] = "Candidate", UNCHANGED <<currentTerm, sendEnabled>>,
             \A k, p \in Node : votes'[k][p] = votes[k][p]
                                \/ (k = n /\ votes'[k][p] = currentTerm[n]),
             \/ UNCHANGED <<state, elected>>
             \/ BecomeLeader(n)
      PROVE  CountsFresh'
  <2>1. /\ \A k \in Node : state'[k] = "Candidate" => state[k] = "Candidate"
        /\ \A e \in elected' : e \in elected \/ (e.term = currentTerm[n] /\ e.votes = votes'[n])
    BY <1>3 DEF BecomeLeader, TypeOK, CoreTypeOK
  <2>2. \A p \in Node : votes'[n][p] \in {0, currentTerm[n]}
    BY <1>c, <1>3
  <2>3. \A e \in elected' : Fresh(e)
    BY <1>f, <2>1, <2>2 DEF Fresh
  <2>4. \A k, p \in Node : state'[k] = "Candidate" => votes'[k][p] \in {0, currentTerm'[k]}
    BY <1>c, <1>3, <2>1
  <2> QED BY <1>0, <1>3, <2>3, <2>4 DEF CountsFresh, Fresh
<1>4. ASSUME NEW n \in Node, OnTimerElectionFail(n) PROVE CountsFresh'
  <2>1. CASE TestElection(n, votes[n])
    <3>1. /\ state[n] = "Candidate" /\ BecomeLeader(n)
          /\ UNCHANGED <<votes, currentTerm, sendEnabled>>
      BY <1>4, <2>1, Zenon DEF OnTimerElectionFail
    <3> QED BY <1>3, <3>1
  <2>2. CASE ~TestElection(n, votes[n])
    BY <1>1, <1>4, <2>2, NoWinBallot
  <2> QED BY <2>1, <2>2
<1>5. ASSUME NEW m \in msgs, OnVoteResponseCounted(m) PROVE CountsFresh'
  <2> DEFINE n == m.to
  <2>1. n \in Node /\ m.from \in Node
    BY HistoryTypes
  <2>2. /\ m.type = "VoteResponse" /\ state[n] = "Candidate" /\ Deliverable(m)
        /\ votes' = IF votes[n][m.from] = 0 /\ m.granted
                    THEN [votes EXCEPT ![n][m.from] = m.term] ELSE votes
        /\ IF TestElection(n, votes'[n]) THEN BecomeLeader(n)
                                         ELSE UNCHANGED <<state, leaderName, peerVars, seq, elected>>
        /\ UNCHANGED <<currentTerm, sendEnabled>>
    BY <1>5, Zenon DEF OnVoteResponseCounted
  <2>3. m.granted => m.term = currentTerm[n]
    BY <2>2 DEF Deliverable, IsRequest, ElectionInv, AnswersGranted
  <2>4. \A k, p \in Node : votes'[k][p] = votes[k][p] \/ (k = n /\ votes'[k][p] = currentTerm[n])
    BY <2>1, <2>2, <2>3 DEF TypeOK, PeerTypeOK
  <2> QED BY <1>3, <2>1, <2>2, <2>4
<1>6. ASSUME NEW n \in Node, Crash(n) PROVE CountsFresh'
  <2>1. /\ state' = [state EXCEPT ![n] = "NotRunning"]
        /\ currentTerm' = [currentTerm EXCEPT ![n] = disk[n].term]
        /\ votes' = [votes EXCEPT ![n] = [p \in Node |-> 0]]
        /\ sendEnabled' = [sendEnabled EXCEPT ![n] = Peers(n)]
        /\ UNCHANGED elected
    BY <1>6 DEF Crash
  <2>2. \A k \in Node : state'[k] = "Candidate" =>
          state[k] = "Candidate" /\ currentTerm'[k] = currentTerm[k] /\ votes'[k] = votes[k]
    BY <2>1 DEF TypeOK, CoreTypeOK, PeerTypeOK
  <2>3. \A k \in Node : Peers(k) \subseteq sendEnabled'[k]
    BY <1>0, <2>1 DEF TypeOK, PeerTypeOK
  <2> QED BY <1>c, <1>f, <2>1, <2>2, <2>3 DEF CountsFresh, Fresh
<1>7. ASSUME NEW n \in Node, NEW p \in Peers(n), DisableSend(n, p) \/ EnableSend(n, p)
      PROVE  CountsFresh'
  <2>1. faults.cut \in Nat /\ p \in sendEnabled[n]
    BY <1>0 DEF TypeOK, HistoryTypeOK
  <2> QED BY <1>7, <2>1 DEF DisableSend, EnableSend
<1>8. CASE UNCHANGED vars
  BY <1>0, <1>c, <1>f, <1>8 DEF vars, CountsFresh, Fresh
<1>9. ASSUME NEW n \in Node, Timer(n) \/ DoLog(n) \/ Fault(n) PROVE CountsFresh'
  <2>1. CASE Pause(n) \/ Resume(n) \/ Restart(n)
    <3>1. BallotStep(n)
      BY <2>1, QuietBallot
    <3> QED BY <1>1, <3>1
  <2>2. CASE OnTimerHeartbeat(n) \/ DoLog(n)
    BY <1>1, <2>2, HeartbeatBallot, DoLogBallot
  <2> QED BY <1>2, <1>4, <1>6, <1>7, <1>9, <2>1, <2>2 DEF Timer, Fault
<1>10. ASSUME NEW m \in msgs, Handle(m), ~OnVoteResponseCounted(m) PROVE CountsFresh'
  <2>1. BallotStep(m.to)
    BY <1>10, VoteRequestBallot, AppendRequestBallot, ResponseBallot DEF Handle
  <2> QED BY <1>1, <2>1, HistoryTypes
<1> QED BY <1>5, <1>8, <1>9, <1>10 DEF Next, Handle

(* With RPCs that never arrive late and no link cut, one leader is elected  *)
(* in a term, whatever crashes, restarts and pauses.                        *)
THEOREM TimelyElectionsSafe ==
  ASSUME Timely, MaxCut = 0 PROVE Spec => []ElectionSafety
<1>1. Init => CountsFresh
  BY DEF Init, Start, CountsFresh
<1>2. TypeOK /\ TypeOK' /\ ElectionInv /\ CountsFresh /\ [Next]_vars => CountsFresh'
  BY FreshStep
<1>3. TypeOK /\ ElectionInv /\ CountsFresh => ElectionSafety
  BY FreshVotesAgree DEF CountsFresh, ElectionSafety
<1> QED BY <1>1, <1>2, <1>3, TypeCorrect, ElectionInvariant, PTL DEF Spec
-----------------------------------------------------------------------------
(* Whom the nodes take for the leader, however late or lost the messages.    *)

(* LeaderNameWon speaks of one node; that a node learns the name from a      *)
(* request, and that a candidate which steps down has no name to keep from    *)
(* its term before, is what makes it inductive.                              *)
WonIn(S, n, t) == \E e \in S : e.node = n /\ e.term = t
Won(n, t) == WonIn(elected, n, t)

LeadersWon == \A n \in Node : state[n] = "Leader" => Won(n, currentTerm[n])
CandidatesNameNobody == \A n \in Node : state[n] = "Candidate" => leaderName[n] = None
NamesWon == \A n \in Node : leaderName[n] # None => Won(leaderName[n], currentTerm[n])
RequestsByWinners == \A m \in msgs : m.type = "AppendRequest" => Won(m.from, m.term)

NameInv == LeadersWon /\ CandidatesNameNobody /\ NamesWon /\ RequestsByWinners

(* What a handler of node n does to the names: the others keep theirs.       *)
NameStep(n) ==
  /\ \A k \in Node \ {n} : /\ state'[k] = state[k] /\ currentTerm'[k] = currentTerm[k]
                           /\ leaderName'[k] = leaderName[k]
  /\ elected \subseteq elected'
  /\ state'[n] = "Leader" => WonIn(elected', n, currentTerm'[n])
  /\ state'[n] = "Candidate" => leaderName'[n] = None
  /\ leaderName'[n] # None => WonIn(elected', leaderName'[n], currentTerm'[n])
  /\ \A m \in msgs' : m.type = "AppendRequest" =>
       \/ \E o \in msgs : o.type = "AppendRequest" /\ o.from = m.from /\ o.term = m.term
       \/ m.from = n /\ m.term = currentTerm[n] /\ state[n] = "Leader"

LEMMA WonStays ==
  ASSUME elected \subseteq elected', NEW n, NEW t, Won(n, t)
  PROVE  WonIn(elected', n, t)
BY DEF Won, WonIn

LEMMA NameStepKeeps ==
  ASSUME NameInv, NEW n \in Node, NameStep(n)
  PROVE  NameInv'
<1>1. elected \subseteq elected'
  BY DEF NameStep
<1>2. LeadersWon'
  <2> SUFFICES ASSUME NEW k \in Node, state'[k] = "Leader"
               PROVE  WonIn(elected', k, currentTerm'[k])
    BY DEF LeadersWon, Won
  <2>1. CASE k = n
    BY <2>1 DEF NameStep
  <2>2. CASE k # n
    BY <1>1, <2>2, WonStays DEF NameStep, NameInv, LeadersWon
  <2> QED BY <2>1, <2>2
<1>3. CandidatesNameNobody'
  BY DEF NameInv, CandidatesNameNobody, NameStep
<1>4. NamesWon'
  <2> SUFFICES ASSUME NEW k \in Node, leaderName'[k] # None
               PROVE  WonIn(elected', leaderName'[k], currentTerm'[k])
    BY DEF NamesWon, Won
  <2>1. CASE k = n
    BY <2>1 DEF NameStep
  <2>2. CASE k # n
    BY <1>1, <2>2, WonStays DEF NameStep, NameInv, NamesWon
  <2> QED BY <2>1, <2>2
<1>5. RequestsByWinners'
  <2> SUFFICES ASSUME NEW m \in msgs', m.type = "AppendRequest"
               PROVE  WonIn(elected', m.from, m.term)
    BY DEF RequestsByWinners, Won
  <2>1. Won(m.from, m.term)
    BY DEF NameStep, NameInv, RequestsByWinners, LeadersWon
  <2> QED BY <1>1, <2>1, WonStays
<1> QED BY <1>2, <1>3, <1>4, <1>5 DEF NameInv
-----------------------------------------------------------------------------
(* Every handler is such a step.                                            *)

LEMMA NameTypes ==
  ASSUME TypeOK
  PROVE  /\ state \in [Node -> States] /\ currentTerm \in [Node -> Nat]
         /\ leaderName \in [Node -> Node \union {None}]
         /\ \A m \in msgs : m.from \in Node /\ m.to \in Node /\ m.term \in Nat
BY MessageType DEF TypeOK, CoreTypeOK

(* BecomeLeader: who wins is entered in elected.                            *)
LEMMA BecomeLeaderNames ==
  ASSUME TypeOK, NEW n \in Node, BecomeLeader(n), currentTerm' = currentTerm, msgs' \subseteq msgs
  PROVE  NameStep(n)
<1>1. /\ state' = [state EXCEPT ![n] = "Leader"] /\ leaderName' = [leaderName EXCEPT ![n] = n]
      /\ elected' = elected \union
           {[term |-> currentTerm[n], node |-> n, votes |-> votes'[n]]}
  BY DEF BecomeLeader
<1>2. WonIn(elected', n, currentTerm'[n])
  <2> DEFINE won == [term |-> currentTerm[n], node |-> n, votes |-> votes'[n]]
  <2>1. won \in elected' /\ won.node = n /\ won.term = currentTerm[n]
    BY <1>1
  <2>2. currentTerm'[n] = currentTerm[n]
    OBVIOUS
  <2> HIDE DEF won
  <2> QED BY <2>1, <2>2 DEF WonIn
<1>3. state'[n] = "Leader" /\ leaderName'[n] = n
  BY <1>1, NameTypes
<1>4. \A k \in Node \ {n} : state'[k] = state[k] /\ leaderName'[k] = leaderName[k]
  BY <1>1, NameTypes
<1> QED BY <1>1, <1>2, <1>3, <1>4 DEF NameStep, Won

LEMMA ElectionFailNames ==
  ASSUME TypeOK, NameInv, NEW n \in Node, OnTimerElectionFail(n)
  PROVE  NameStep(n)
<1>1. currentTerm' = currentTerm /\ msgs' = msgs
  BY DEF OnTimerElectionFail
<1>2. CASE BecomeLeader(n)
  BY <1>1, <1>2, BecomeLeaderNames
<1>3. CASE UNCHANGED <<state, leaderName, elected>>
  BY <1>1, <1>3 DEF NameStep, NameInv, LeadersWon, CandidatesNameNobody, NamesWon, Won
<1> QED BY <1>2, <1>3 DEF OnTimerElectionFail

LEMMA VoteCountedNames ==
  ASSUME TypeOK, NameInv, NEW m \in msgs, OnVoteResponseCounted(m)
  PROVE  NameStep(m.to)
<1>1. currentTerm' = currentTerm /\ msgs' \subseteq msgs /\ m.to \in Node
  BY NameTypes DEF OnVoteResponseCounted, Receive
<1>2. CASE BecomeLeader(m.to)
  BY <1>1, <1>2, BecomeLeaderNames
<1>3. CASE UNCHANGED <<state, leaderName, elected>>
  BY <1>1, <1>3 DEF NameStep, NameInv, LeadersWon, CandidatesNameNobody, NamesWon, Won
<1> QED BY <1>2, <1>3 DEF OnVoteResponseCounted

(* do_election: the name is cleared, and the new messages ask for votes.     *)
LEMMA ElectionNames ==
  ASSUME TypeOK, NEW n \in Node, OnTimerElection(n)
  PROVE  NameStep(n)
<1>1. /\ state' = [state EXCEPT ![n] = "Candidate"]
      /\ currentTerm' = [currentTerm EXCEPT ![n] = @ + 1]
      /\ leaderName' = [leaderName EXCEPT ![n] = None]
      /\ elected' = elected
      /\ msgs' = msgs \union {VoteRequest(n, p) : p \in sendEnabled[n]}
  BY DEF OnTimerElection
<1>2. \A m \in msgs' : m.type = "AppendRequest" => m \in msgs
  BY <1>1 DEF VoteRequest
<1>3. state'[n] = "Candidate" /\ leaderName'[n] = None
  BY <1>1, NameTypes
<1>4. \A k \in Node \ {n} : /\ state'[k] = state[k] /\ currentTerm'[k] = currentTerm[k]
                            /\ leaderName'[k] = leaderName[k]
  BY <1>1, NameTypes
<1> QED BY <1>1, <1>2, <1>3, <1>4 DEF NameStep

(* do_append_entries: only a leader sends them.                             *)
LEMMA SendNames ==
  ASSUME TypeOK, NameInv, NEW n \in Node, OnTimerHeartbeat(n) \/ DoLog(n)
  PROVE  NameStep(n)
<1>1. /\ state[n] = "Leader" /\ UNCHANGED <<state, currentTerm, leaderName, elected>>
      /\ \E log : DoAppendEntries(n, log)
  BY DEF OnTimerHeartbeat, DoLog, coreVars
<1>2. PICK log : DoAppendEntries(n, log)
  BY <1>1
<1>3. \A m \in msgs' \ msgs : m.from = n /\ m.term = currentTerm[n]
  BY <1>2 DEF DoAppendEntries, AppendRequest
<1> QED BY <1>1, <1>3 DEF NameStep, NameInv, LeadersWon, CandidatesNameNobody, NamesWon, Won

LEMMA AnswerNames ==
  ASSUME NEW m, NEW r, Reply(m, r), r.type # "AppendRequest", NEW a \in msgs', a.type = "AppendRequest"
  PROVE  a \in msgs
BY DEF Reply

LEMMA VoteRequestNames ==
  ASSUME TypeOK, NameInv, NEW m \in msgs, OnVoteRequest(m)
  PROVE  NameStep(m.to)
<1> DEFINE n == m.to
           newer == m.term > currentTerm[n]
<1>1. n \in Node /\ m.term \in Nat /\ currentTerm[n] \in Nat
  BY NameTypes
<1>2. /\ state' = IF newer THEN [state EXCEPT ![n] = "Follower"] ELSE state
      /\ currentTerm' = [currentTerm EXCEPT ![n] = GreaterOf(m.term, currentTerm[n])]
      /\ \E grant \in BOOLEAN : leaderName' = [leaderName EXCEPT ![n] = NamedAfterVote(m, grant)]
      /\ elected' = elected
  BY DEF OnVoteRequest, ValidSeq
<1>3. \A k \in Node \ {n} : /\ state'[k] = state[k] /\ currentTerm'[k] = currentTerm[k]
                            /\ leaderName'[k] = leaderName[k]
  BY <1>1, <1>2, NameTypes
<1>4. /\ newer => state'[n] = "Follower" /\ leaderName'[n] = None
      /\ ~newer => /\ state'[n] = state[n] /\ currentTerm'[n] = currentTerm[n]
                   /\ leaderName'[n] \in {None, leaderName[n]}
  BY <1>1, <1>2, NameTypes DEF NamedAfterVote, GreaterOf
<1>5. \A a \in msgs' : a.type = "AppendRequest" => a \in msgs
  <2>1. Receive(m) \/ \E term, granted : Reply(m, VoteResponse(m, term, granted))
    BY Zenon DEF OnVoteRequest
  <2> QED BY <2>1, AnswerNames DEF Receive, VoteResponse
<1> QED BY <1>1, <1>2, <1>3, <1>4, <1>5
    DEF NameStep, NameInv, LeadersWon, CandidatesNameNobody, NamesWon, Won

(* A node steps down: it forgets the name or, on_vote_response, has none.    *)
LEMMA ResponseNames ==
  ASSUME TypeOK, NameInv, NEW m \in msgs,
         \/ OnVoteResponseNewer(m) \/ OnAppendEntriesResponseNewer(m)
         \/ OnAppendEntriesResponseFailed(m) \/ OnAppendEntriesResponseSuccess(m)
  PROVE  NameStep(m.to)
<1> DEFINE n == m.to
<1>1. n \in Node /\ elected' = elected /\ msgs' \subseteq msgs
  BY NameTypes DEF OnVoteResponseNewer, OnAppendEntriesResponseNewer,
     OnAppendEntriesResponseFailed, OnAppendEntriesResponseSuccess, Receive, histVars
<1>2. CASE OnVoteResponseNewer(m) \/ OnAppendEntriesResponseNewer(m)
  <2>1. /\ state' = [state EXCEPT ![n] = "Follower"]
        /\ currentTerm' = [currentTerm EXCEPT ![n] = m.term]
        /\ \/ leaderName' = leaderName /\ state[n] = "Candidate"
           \/ leaderName' = [leaderName EXCEPT ![n] = None]
    BY <1>2 DEF OnVoteResponseNewer, OnAppendEntriesResponseNewer, BecomeFollower
  <2>2. state'[n] = "Follower" /\ leaderName'[n] = None
    BY <1>1, <2>1, NameTypes DEF NameInv, CandidatesNameNobody
  <2>3. \A k \in Node \ {n} : /\ state'[k] = state[k] /\ currentTerm'[k] = currentTerm[k]
                              /\ leaderName'[k] = leaderName[k]
    BY <1>1, <2>1, NameTypes
  <2> QED BY <1>1, <2>2, <2>3 DEF NameStep
<1>3. CASE OnAppendEntriesResponseFailed(m) \/ OnAppendEntriesResponseSuccess(m)
  <2>1. UNCHANGED <<state, currentTerm, leaderName>>
    BY <1>3 DEF OnAppendEntriesResponseFailed, OnAppendEntriesResponseSuccess, coreVars
  <2> QED BY <1>1, <2>1 DEF NameStep, NameInv, LeadersWon, CandidatesNameNobody, NamesWon, Won
<1> QED BY <1>2, <1>3

(* handle_request_routine: the name that is set is the sender's, who won.    *)
LEMMA AppendRequestNames ==
  ASSUME TypeOK, NameInv, NEW m \in msgs, OnAppendEntriesRequest(m)
  PROVE  NameStep(m.to)
<1> DEFINE n == m.to
<1>1. /\ n \in Node /\ m.term \in Nat /\ currentTerm[n] \in Nat
      /\ m.type = "AppendRequest" /\ elected' = elected
  BY NameTypes DEF OnAppendEntriesRequest, histVars
<1>2. \A a \in msgs' : a.type = "AppendRequest" => a \in msgs
  <2>1. Receive(m) \/ \E term, success, last : Reply(m, AppendResponse(m, term, success, last))
    BY Zenon DEF OnAppendEntriesRequest, AppendOldTerm, AppendOutOfOrder, AppendMissing,
       AppendConflict, AppendAccept
  <2> QED BY <2>1, AnswerNames DEF Receive, AppendResponse
<1>3. CASE AppendOldTerm(m)
  <2>1. UNCHANGED <<state, currentTerm, leaderName>>
    BY <1>3 DEF AppendOldTerm, coreVars
  <2> QED BY <1>1, <1>2, <2>1 DEF NameStep, NameInv, LeadersWon, CandidatesNameNobody, NamesWon, Won
<1>4. CASE HandleRequestRoutine(m)
  <2>1. /\ m.term >= currentTerm[n]
        /\ currentTerm' = [currentTerm EXCEPT ![n] = m.term]
        /\ state' = IF StepsDown(m) THEN [state EXCEPT ![n] = "Follower"] ELSE state
        /\ leaderName' =
             IF StepsDown(m) \/ (state[n] = "Follower" /\ leaderName[n] = None)
             THEN [leaderName EXCEPT ![n] = m.from] ELSE leaderName
    BY <1>4 DEF HandleRequestRoutine
  <2>2. \A k \in Node \ {n} : /\ state'[k] = state[k] /\ currentTerm'[k] = currentTerm[k]
                              /\ leaderName'[k] = leaderName[k]
    BY <1>1, <2>1, NameTypes
  <2>3. /\ currentTerm'[n] = m.term
        /\ StepsDown(m) => state'[n] = "Follower" /\ leaderName'[n] = m.from
        /\ ~StepsDown(m) => /\ currentTerm'[n] = currentTerm[n]
                            /\ state'[n] = state[n] /\ state[n] # "Candidate"
                            /\ leaderName'[n] \in {m.from, leaderName[n]}
    BY <1>1, <2>1, NameTypes DEF StepsDown
  <2>4. Won(m.from, m.term)
    BY <1>1 DEF NameInv, RequestsByWinners
  <2> QED BY <1>1, <1>2, <2>2, <2>3, <2>4 DEF NameStep, NameInv, LeadersWon, NamesWon, Won
<1> QED BY <1>3, <1>4
    DEF OnAppendEntriesRequest, AppendOutOfOrder, AppendMissing, AppendConflict, AppendAccept

(* A crash forgets the name; what is under way keeps its sender and term.    *)
LEMMA FaultNames ==
  ASSUME TypeOK, NameInv, NEW n \in Node, Fault(n)
  PROVE  NameStep(n)
<1>1. CASE Crash(n)
  <2>1. /\ state' = [state EXCEPT ![n] = "NotRunning"]
        /\ currentTerm' = [currentTerm EXCEPT ![n] = disk[n].term]
        /\ leaderName' = [leaderName EXCEPT ![n] = None]
        /\ elected' = elected
    BY <1>1 DEF Crash
  <2>2. ASSUME NEW a \in msgs', a.type = "AppendRequest"
        PROVE  \E o \in msgs : o.type = "AppendRequest" /\ o.from = a.from /\ o.term = a.term
    <3>1. CASE a \in msgs
      BY <2>2, <3>1
    <3>2. ASSUME NEW o \in msgs, IsRequest(o), a = [o EXCEPT !.live = FALSE]
          PROVE  o.type = a.type /\ o.from = a.from /\ o.term = a.term
      <4>1. o \in Messages
        BY DEF TypeOK
      <4> QED BY <3>2, <4>1 DEF Messages, IsRequest
    <3> QED BY <1>1, <2>2, <3>1, <3>2 DEF Crash
  <2>3. state'[n] = "NotRunning" /\ leaderName'[n] = None
    BY <2>1, NameTypes
  <2>4. \A k \in Node \ {n} : /\ state'[k] = state[k] /\ currentTerm'[k] = currentTerm[k]
                              /\ leaderName'[k] = leaderName[k]
    BY <2>1, NameTypes
  <2> QED BY <2>1, <2>2, <2>3, <2>4 DEF NameStep
<1>2. CASE ~Crash(n)
  <2>1. /\ UNCHANGED <<currentTerm, leaderName, elected, msgs>>
        /\ state' = state \/ state' = [state EXCEPT ![n] = "Follower"]
    BY <1>2 DEF Fault, Restart, Pause, Resume, DisableSend, EnableSend, coreVars, histVars
  <2>2. /\ state'[n] \in {state[n], "Follower"}
        /\ \A k \in Node \ {n} : state'[k] = state[k]
    BY <2>1, NameTypes
  <2> QED BY <2>1, <2>2 DEF NameStep, NameInv, LeadersWon, CandidatesNameNobody, NamesWon, Won
<1> QED BY <1>1, <1>2
-----------------------------------------------------------------------------
LEMMA NameInit == Init => NameInv
BY DEF Init, Start, NameInv, LeadersWon, CandidatesNameNobody, NamesWon, RequestsByWinners

LEMMA NameNext == ASSUME TypeOK, NameInv, [Next]_vars PROVE NameInv'
<1>1. ASSUME NEW n \in Node, Timer(n) \/ DoLog(n) \/ Fault(n) PROVE NameInv'
  <2>1. NameStep(n)
    BY <1>1, ElectionNames, ElectionFailNames, SendNames, FaultNames DEF Timer
  <2> QED BY <2>1, NameStepKeeps
<1>2. ASSUME NEW m \in msgs, Handle(m) PROVE NameInv'
  <2>1. NameStep(m.to) /\ m.to \in Node
    BY <1>2, NameTypes, VoteRequestNames, VoteCountedNames, ResponseNames, AppendRequestNames DEF Handle
  <2> QED BY <2>1, NameStepKeeps
<1>3. CASE UNCHANGED vars
  BY <1>3 DEF vars, NameInv, LeadersWon, CandidatesNameNobody, NamesWon, RequestsByWinners, Won
<1> QED BY <1>1, <1>2, <1>3 DEF Next

(* Whoever a node redirects its clients to has won the term that the node is *)
(* in, though leader_name is set and cleared in six places, apart from state *)
(* and term, and though a term may have two winners.                         *)
THEOREM LeaderNamesWon == Spec => []LeaderNameWon
<1>1. NameInv => LeaderNameWon
  BY DEF NameInv, NamesWon, LeaderNameWon, Won, WonIn
<1> QED BY <1>1, TypeCorrect, NameInit, NameNext, PTL DEF Spec

(* do_append_entries is run by winners of the term only: no node accepts     *)
(* entries from, or names, somebody who merely thinks that it leads.         *)
THEOREM RequestsWon == Spec => [](LeadersWon /\ RequestsByWinners)
<1>1. NameInv => LeadersWon /\ RequestsByWinners
  BY DEF NameInv
<1> QED BY <1>1, TypeCorrect, NameInit, NameNext, PTL DEF Spec
=============================================================================
