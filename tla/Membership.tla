----------------------------- MODULE Membership -----------------------------
(***************************************************************************)
(* Change of the membership of a RaftNode cluster by joint consensus        *)
(* (node_conf.cpp, with the parts of node_rpc_a.cpp, node_rpc_r.cpp,        *)
(* node.cpp and node_persister.cpp that take part in it): a leader brings   *)
(* new nodes up to date (STAGING), logs the joint configuration             *)
(* (OLD_JOINT), sees it committed (JOINT), logs the new one (JOINT_NEW) and *)
(* sees that committed, while leaders are deposed and nodes restart.        *)
(*                                                                         *)
(* An RPC and its answer are one step, in which the answer may be lost:     *)
(* late, overtaken and lost requests are RaftNode's subject, and so are the *)
(* timers, which may fire here at any time.  A node is a record, and a      *)
(* handler is an operator from the record before it to the record after it. *)
(* Every handler persists what it changes before it answers, so a restarted *)
(* node finds on its disk what it had in memory.                            *)
(* Log indices are those of the code: the first entry has index 0.          *)
(*                                                                         *)
(* Just before some definitions stands a faulty variant of them, used by    *)
(* nothing here: PROJECT.json names the property each variant must break.   *)
(***************************************************************************)
EXTENDS Integers, Sequences, FiniteSets, FiniteSetsExt

CONSTANTS
  Node,       \* the nodes, members or not
  Members,    \* the members of the first configuration
  None,       \* vote_for_none, and the empty leader_name
  Changes,    \* the changes that may be asked for, as [app, rem]
  MaxTerm,    \* bound: the highest term
  MaxData,    \* bound: the commands in a log
  MaxChange,  \* bound: calls of update_configuration
  MaxRestart  \* bound: restarts of the whole run

ASSUME NodeAssumption == IsFiniteSet(Node) /\ Members \subseteq Node /\ None \notin Node
ASSUME ChangeAssumption ==
  Changes \subseteq [app : SUBSET (Node \ Members), rem : SUBSET Members]
ASSUME BoundAssumption == {MaxTerm, MaxData, MaxChange, MaxRestart} \subseteq Nat

VARIABLES
  node,       \* per node: its RaftNode object
  committed,  \* history: every [index, entry] below some commit_index
  faults      \* history: changes asked for and restarts so far (for the bounds)

vars == <<node, committed, faults>>
-----------------------------------------------------------------------------
(* The configuration under way; Blank stands for trans_conf = nullptr.  The *)
(* state NEW begins and ends within one handler.                            *)
Blank == [state |-> "BLANK", old |-> {}, app |-> {}, rem |-> {}, index |-> -1, index2 |-> -1]
New(c) == (c.old \ c.rem) \union c.app
BothDecide(c) == c.state \in {"OLD_JOINT", "JOINT"}
NewDecides(c) == c.state = "JOINT_NEW"

(* A node counts itself, in C_old whether it belongs to it or not.          *)
OldVotes(c, S) == 1 + Cardinality(S \cap c.old)
NewVotesOfLeaver(c, n, S) == 1 + Cardinality(S \cap New(c))
NewVotes(c, n, S) == Cardinality((S \union {n}) \cap New(c))
MoreThanHalf(count, of) == count > of \div 2

EnoughVotesOfOld(n, s, S) ==
  IF BothDecide(s.conf) THEN MoreThanHalf(OldVotes(s.conf, S), Cardinality(s.conf.old))
  ELSE IF NewDecides(s.conf) THEN MoreThanHalf(NewVotes(s.conf, n, S), Cardinality(New(s.conf)))
  ELSE MoreThanHalf(1 + Cardinality(S), 1 + Cardinality(s.rights))
(* Whether n and its peers in S decide: enough_votes, and while a change is *)
(* under way enough_votes_trans_conf.                                       *)
EnoughVotes(n, s, S) ==
  /\ BothDecide(s.conf) => MoreThanHalf(OldVotes(s.conf, S), Cardinality(s.conf.old))
  /\ IF BothDecide(s.conf) \/ NewDecides(s.conf)
     THEN MoreThanHalf(NewVotes(s.conf, n, S), Cardinality(New(s.conf)))
     ELSE MoreThanHalf(1 + Cardinality(S), 1 + Cardinality(s.rights))

LastIndexOf(log) == Len(log) - 1
LastTermOf(log) == IF log = <<>> THEN 0 ELSE log[Len(log)].term
EntryAt(log, i) == log[i + 1]
Indices(log, cmd) == {i \in 0 .. LastIndexOf(log) : EntryAt(log, i).cmd = cmd}

(* do_log; only the entry of the joint configuration has a content here.    *)
Logged(s, cmd) ==
  [s EXCEPT !.log = Append(@, [term |-> s.term, cmd |-> cmd,
     old |-> IF cmd = "TRANS" THEN s.conf.old ELSE {},
     app |-> IF cmd = "TRANS" THEN s.conf.app ELSE {},
     rem |-> IF cmd = "TRANS" THEN s.conf.rem ELSE {}])]

(* add_peer makes a NodePeer with its default values; remove_peer drops it. *)
WithPeers(s, P) ==
  [s EXCEPT !.peers = @ \union P, !.rights = @ \union (P \ s.peers)]
WithoutPeersStillVoting(s, P) == [s EXCEPT !.peers = @ \ P, !.votes = @ \ P]
WithoutPeers(s, P) ==
  LET Fresh(f, value) == [p \in Node |-> IF p \in P THEN value ELSE f[p]]
  IN [s EXCEPT !.peers = @ \ P, !.rights = @ \ P, !.votes = @ \ P,
               !.next = Fresh(@, 0), !.match = Fresh(@, -1)]

(* votes is read by candidates and next and match by leaders only; each is  *)
(* set anew when its role begins, and is cleared here when it ends.         *)
BecomeFollower(s, term) ==
  [s EXCEPT !.state = "Follower", !.term = term, !.voteFor = None,
            !.votes = {}, !.next = [p \in Node |-> 0], !.match = [p \in Node |-> -1]]
BecomeLeader(n, s) ==
  [s EXCEPT !.state = "Leader", !.leader = n, !.votes = {},
            !.next = [p \in Node |-> IF p \in s.peers THEN s.commit + 1 ELSE 0]]

Process(peers) ==
  [state |-> "Follower", term |-> 0, voteFor |-> None, leader |-> None,
   log |-> <<>>, commit |-> -1, conf |-> Blank, peers |-> peers,
   rights |-> peers, votes |-> {}, next |-> [p \in Node |-> 0],
   match |-> [p \in Node |-> -1]]

(* A node that is to join knows the members; they do not know it.           *)
Init ==
  /\ node = [n \in Node |-> Process(Members \ {n})]
  /\ committed = {}
  /\ faults = [change |-> 0, restart |-> 0]
-----------------------------------------------------------------------------
(* The four phases.  On the leader:                                         *)

UpdateConfigurationJoint(s) ==
  Logged([s EXCEPT !.conf.index = Len(s.log), !.conf.state = "OLD_JOINT"], "TRANS")

UpdateConfiguration(n, app, rem) ==
  LET s      == node[n]
      conf   == [Blank EXCEPT !.state = "STAGING", !.app = app, !.rem = rem,
                              !.old = s.peers \union {n}]
      staged == WithPeers([s EXCEPT !.conf = conf], app \ {n})
  IN /\ s.state = "Leader"
     /\ s.conf = Blank
     /\ faults.change < MaxChange
     /\ faults' = [faults EXCEPT !.change = @ + 1]
     /\ node' = [node EXCEPT ![n] = IF app = {} THEN UpdateConfigurationJoint(staged)
                                    ELSE [staged EXCEPT !.rights = @ \ app]]
     /\ UNCHANGED committed

(* update_configuration_new, which on_timer calls whether the node leads or *)
(* not; do_log refuses one that does not.                                   *)
OnTimerConfiguration(n) ==
  LET s == node[n]
      t == [s EXCEPT !.conf.state = "JOINT_NEW", !.conf.index2 = Len(s.log)]
  IN /\ s.conf.state = "JOINT"
     /\ s.commit >= s.conf.index
     /\ node' = [node EXCEPT ![n] = IF s.state = "Leader" THEN Logged(t, "TRANS_NEW") ELSE t]
     /\ UNCHANGED <<committed, faults>>

UpdateConfigurationFinish(s) == [WithoutPeers(s, s.conf.rem) EXCEPT !.conf = Blank]

(* On a follower that finds the entries of a change in its log:             *)

OnUpdateConfigurationJoint(n, s, i) ==
  LET e == EntryAt(s.log, i)
  IN IF s.conf # Blank THEN s
     ELSE WithPeers([s EXCEPT !.conf = [state |-> "OLD_JOINT", old |-> e.old, app |-> e.app,
                                        rem |-> e.rem, index |-> i, index2 |-> -1]],
                    e.app \ {n})

OnUpdateConfigurationNew(s, i) ==
  IF s.conf.state # "OLD_JOINT" THEN s
  ELSE WithoutPeers([s EXCEPT !.conf.state = "JOINT_NEW", !.conf.index2 = i],
                    s.conf.rem \ {s.leader})

OnUpdateConfigurationFinish(s) ==
  [WithoutPeers(s, s.conf.rem \cap {s.leader}) EXCEPT !.conf = Blank]

(* The log is read backwards from its end to the previous entry of the      *)
(* request or the last TRANS.                                               *)
ReadConfiguration(n, s, prev) ==
  LET from  == {i \in 0 .. LastIndexOf(s.log) : i >= prev}
      trans == Indices(s.log, "TRANS") \cap from
      news  == {i \in Indices(s.log, "TRANS_NEW") \cap from : \A j \in trans : j < i}
      t     == IF news = {} THEN s ELSE OnUpdateConfigurationNew(s, Max(news))
  IN IF trans = {} THEN t ELSE OnUpdateConfigurationJoint(n, t, Max(trans))

(* The follower of an OLD_JOINT that is committed stays in it: where the    *)
(* code would set JOINT, it compares.                                       *)
CommitConfiguration(s) ==
  IF s.conf.state = "JOINT_NEW" /\ s.conf.index2 <= s.commit
  THEN OnUpdateConfigurationFinish(s) ELSE s
-----------------------------------------------------------------------------
(* Elections.                                                               *)

OnTimerElection(n) ==
  LET s == node[n]
  IN /\ s.state # "Leader"
     /\ s.term < MaxTerm
     /\ node' = [node EXCEPT ![n] = [s EXCEPT !.state = "Candidate", !.term = @ + 1,
                                              !.voteFor = n, !.leader = None, !.votes = {}]]
     /\ UNCHANGED <<committed, faults>>

(* on_vote_request: what becomes of the voter s, asked by n with the log of *)
(* c, and whether it grants the vote.                                       *)
Informed(s, term) ==
  IF term > s.term THEN [BecomeFollower(s, term) EXCEPT !.leader = None] ELSE s
GrantsAnyLog(s, n, c) ==
  c.term >= s.term /\ Informed(s, c.term).voteFor \in {None, n}
Grants(s, n, c) ==
  /\ c.term >= s.term
  /\ Informed(s, c.term).voteFor \in {None, n}
  /\ \/ LastTermOf(c.log) > LastTermOf(s.log)
     \/ LastTermOf(c.log) = LastTermOf(s.log) /\ Len(c.log) >= Len(s.log)
OnVoteRequest(s, n, c) ==
  IF Grants(s, n, c) THEN [Informed(s, c.term) EXCEPT !.voteFor = n, !.leader = None]
                     ELSE Informed(s, c.term)

(* on_vote_response, of the candidate c that p of the given term answers.   *)
OnVoteResponse(n, c, p, term, granted) ==
  LET votes == IF granted THEN c.votes \union {p} ELSE c.votes
      t     == [c EXCEPT !.votes = votes]
  IN IF p \notin c.rights THEN c
     ELSE IF term > c.term THEN BecomeFollower(c, term)
     ELSE IF EnoughVotes(n, t, votes) THEN BecomeLeader(n, t) ELSE t

(* A node does not listen to whoever is not among its peers.                *)
RequestVote(n, p, answered) ==
  LET c == node[n]
      s == OnVoteRequest(node[p], n, c)
  IN /\ c.state = "Candidate"
     /\ p \in c.peers /\ n \in node[p].peers
     /\ node' = [node EXCEPT ![p] = s,
                   ![n] = IF answered
                          THEN OnVoteResponse(n, c, p, s.term, Grants(node[p], n, c)) ELSE c]
     /\ UNCHANGED <<committed, faults>>
-----------------------------------------------------------------------------
(* Replication.                                                             *)

(* on_append_entries_request: the follower s of the leader l, and whether   *)
(* it reports a success.                                                    *)
HandleRequestRoutine(s, n, l) ==
  IF l.term > s.term \/ s.state = "Candidate"
  THEN [BecomeFollower(s, l.term) EXCEPT !.leader = n]
  ELSE IF s.leader = None THEN [s EXCEPT !.leader = n] ELSE s

Conflicts(log, prev, term) == prev > 0 /\ EntryAt(log, prev).term # term
KeptUpTo(log, prev) ==
  Max({-1} \union {i \in 0 .. prev - 1 : EntryAt(log, i).term # EntryAt(log, prev).term})

AfterAppend(log, prev, entries) ==
  IF log = <<>> \/ prev >= 0 THEN SubSeq(log, 1, prev + 1) \o entries ELSE log

(* What next_index points past the leader's log at has any term.            *)
PrevTerms(l, prev) ==
  IF prev < 0 THEN {0} ELSE IF prev <= LastIndexOf(l.log) THEN {EntryAt(l.log, prev).term}
  ELSE 0 .. MaxTerm

OnAppendEntriesRequest(p, s, n, l, prevTerm) ==
  LET prev    == l.next[p] - 1
      entries == SubSeq(l.log, prev + 2, Len(l.log))
      t       == HandleRequestRoutine(s, n, l)
      log     == AfterAppend(t.log, prev, entries)
      commit  == IF l.commit > t.commit THEN Min({l.commit, LastIndexOf(log)}) ELSE t.commit
      Reply(after, success) == [after |-> after, success |-> success]
  IN IF l.term < s.term THEN Reply(s, FALSE)
     ELSE IF prev > LastIndexOf(s.log) THEN Reply(t, FALSE)
     ELSE IF Conflicts(s.log, prev, prevTerm)
          THEN Reply([t EXCEPT !.log = SubSeq(@, 1, KeptUpTo(@, prev) + 1)], FALSE)
     ELSE Reply(CommitConfiguration(
                  ReadConfiguration(p, [t EXCEPT !.log = log, !.commit = commit], prev)), TRUE)

(* on_append_entries_response: the leader l, told the last index of p.      *)
Known(l, p, last) == [l EXCEPT !.next[p] = last + 1, !.match[p] = last]

(* A peer that has caught up may vote; when it was the last, staging ends.  *)
CaughtUp(l, p, last) ==
  IF last = LastIndexOf(l.log) THEN [l EXCEPT !.rights = @ \union {p}] ELSE l
StagingEndsAtOnce(l, t, p) == p \notin l.rights
StagingEnds(l, t, p) == p \notin l.rights /\ t.rights = t.peers

CanCommit(n, l, last) ==
  /\ last > l.commit /\ last <= LastIndexOf(l.log)
  /\ EntryAt(l.log, last).term = l.term
  /\ EnoughVotes(n, l, {p \in l.rights : l.match[p] >= last})

CommitAsLeader(l, last) ==
  LET t == [l EXCEPT !.commit = last]
  IN IF l.conf.state = "JOINT_NEW" /\ last >= l.conf.index2 THEN UpdateConfigurationFinish(t)
     ELSE IF l.conf.state = "OLD_JOINT" /\ last >= l.conf.index
          THEN [t EXCEPT !.conf.state = "JOINT"]
     ELSE t

OnAppendEntriesSuccess(n, l, p, last) ==
  LET t == Known(CaughtUp(l, p, last), p, Min({last, LastIndexOf(l.log)}))
      u == IF CanCommit(n, t, last) THEN CommitAsLeader(t, last) ELSE t
  IN IF StagingEnds(l, t, p) THEN UpdateConfigurationJoint(u) ELSE u

OnAppendEntriesResponse(n, l, p, reply) ==
  LET last == LastIndexOf(reply.after.log)
  IN IF reply.after.term > l.term
     THEN [BecomeFollower(l, reply.after.term) EXCEPT !.leader = None]
     ELSE IF reply.success THEN OnAppendEntriesSuccess(n, l, p, last)
     ELSE Known(l, p, last)

Decided(s) ==
  {[index |-> i, entry |-> EntryAt(s.log, i)] : i \in 0 .. Min({s.commit, LastIndexOf(s.log)})}

AppendEntries(n, p, answered) ==
  LET l == node[n]
  IN /\ l.state = "Leader"
     /\ p \in l.peers /\ n \in node[p].peers
     /\ \E prevTerm \in PrevTerms(l, l.next[p] - 1) :
          LET reply == OnAppendEntriesRequest(p, node[p], n, l, prevTerm)
          IN node' = [node EXCEPT ![p] = reply.after,
                        ![n] = IF answered THEN OnAppendEntriesResponse(n, l, p, reply) ELSE l]
     /\ committed' = committed \union Decided(node'[n]) \union Decided(node'[p])
     /\ UNCHANGED faults

DoLog(n) ==
  /\ node[n].state = "Leader"
  /\ Cardinality(Indices(node[n].log, "DATA")) < MaxData
  /\ node' = [node EXCEPT ![n] = Logged(@, "DATA")]
  /\ UNCHANGED <<committed, faults>>
-----------------------------------------------------------------------------
(* Persister::Load and apply_conf: of a change still in STAGING the new     *)
(* nodes are forgotten.                                                     *)
LoadedPeers(n, s) ==
  LET c    == s.conf
      gone == IF NewDecides(c) THEN c.rem ELSE {}
      come == IF BothDecide(c) \/ NewDecides(c) THEN c.app ELSE {}
  IN (IF c = Blank THEN s.peers ELSE (c.old \ gone) \union come) \ {n}

Restart(n) ==
  LET s == node[n]
  IN /\ faults.restart < MaxRestart
     /\ faults' = [faults EXCEPT !.restart = @ + 1]
     /\ node' = [node EXCEPT ![n] = [Process(LoadedPeers(n, s)) EXCEPT
                   !.term = s.term, !.voteFor = s.voteFor, !.log = s.log, !.conf = s.conf]]
     /\ UNCHANGED committed
-----------------------------------------------------------------------------
Next ==
  \/ \E n \in Node : \/ OnTimerElection(n) \/ OnTimerConfiguration(n)
                     \/ DoLog(n) \/ Restart(n)
                     \/ \E c \in Changes : UpdateConfiguration(n, c.app, c.rem)
  \/ \E n, p \in Node, answered \in BOOLEAN :
       RequestVote(n, p, answered) \/ AppendEntries(n, p, answered)

Spec == Init /\ [][Next]_vars
-----------------------------------------------------------------------------
LogEntries == [term : 0 .. MaxTerm, cmd : {"DATA", "TRANS", "TRANS_NEW"},
               old : SUBSET Node, app : SUBSET Node, rem : SUBSET Node]
Confs == [state : {"BLANK", "STAGING", "OLD_JOINT", "JOINT", "JOINT_NEW"}, old : SUBSET Node,
          app : SUBSET Node, rem : SUBSET Node, index : Int, index2 : Int]
Processes ==
  [state : {"Follower", "Candidate", "Leader"}, term : 0 .. MaxTerm,
   voteFor : Node \union {None}, leader : Node \union {None}, log : Seq(LogEntries),
   commit : Nat \union {-1}, conf : Confs, peers : SUBSET Node, rights : SUBSET Node,
   votes : SUBSET Node, next : [Node -> Nat], match : [Node -> Nat \union {-1}]]

(* The records are well formed: no node is its own peer (the assertion of   *)
(* add_peer), and only peers have rights and votes.                         *)
TypeOK ==
  /\ node \in [Node -> Processes]
  /\ \A n \in Node : /\ n \notin node[n].peers
                     /\ node[n].rights \union node[n].votes \subseteq node[n].peers

Holds(s, a) == a.index <= LastIndexOf(s.log) /\ EntryAt(s.log, a.index) = a.entry
Holders(a) == {n \in Node : Holds(node[n], a)}
MajorityOf(S, C) == MoreThanHalf(Cardinality(S \cap C), Cardinality(C))

(* The assertion of enough_votes_trans_conf: whoever is counted in a joint  *)
(* decision, or in one of C_new, has voting rights.                         *)
CountedHaveRights ==
  \A n \in Node : BothDecide(node[n].conf) \/ NewDecides(node[n].conf)
                    => node[n].rights = node[n].peers

(* Whatever the change, one entry at most is committed at each index.       *)
Agree == \A a, b \in committed : a.index = b.index => a.entry = b.entry

(* A term has one leader, also while two configurations decide.             *)
OneLeaderPerTerm ==
  \A n, p \in Node :
    node[n].state = "Leader" /\ node[p].state = "Leader" /\ node[n].term = node[p].term
      => n = p

(* The leader of the newest term has all that was ever committed, by        *)
(* whichever configuration.                                                 *)
NewestLeaderComplete ==
  \A n \in Node :
    /\ node[n].state = "Leader"
    /\ \A p \in Node : node[p].term <= node[n].term
    => \A a \in committed : Holds(node[n], a)

(* When somebody leaves C_old behind, C_old,new is on a majority of both.   *)
JointOnBothMajorities ==
  \A n \in Node : LET c == node[n].conf IN
    c.state \in {"JOINT", "JOINT_NEW"} =>
      \E a \in committed :
        /\ a.entry.cmd = "TRANS"
        /\ MajorityOf(Holders(a), c.old) /\ MajorityOf(Holders(a), New(c))

(* C_new is committed by nodes of C_new, without the leader that leaves.    *)
NewOnNewMajority ==
  \A a \in committed : a.entry.cmd = "TRANS_NEW" =>
    \E b \in committed : /\ b.entry.cmd = "TRANS" /\ b.index < a.index
                         /\ MajorityOf(Holders(a), New(b.entry))
=============================================================================
