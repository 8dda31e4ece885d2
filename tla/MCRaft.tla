------------------------------- MODULE MCRaft -------------------------------
(* RaftNode for TLC: two states of a cluster that Spec reaches, so that the  *)
(* runs about the log need not spend their bounds on getting there.          *)
EXTENDS RaftNode, TLC

NodeSymmetry == Permutations(Node)

(* With Timely, a message that cannot be delivered now never will be, and   *)
(* no property of the runs that use the view speaks of it or of grants.     *)
TimelyView == <<coreVars, paused, leaderName, lastSeq, logVars, timerVars,
                votes, peerVars, seq, sendEnabled, disk, elected, faults,
                {m \in msgs : Deliverable(m)}>>

(* A cluster in its normal state, which Spec reaches: x has won the first   *)
(* election, one entry is logged, committed and applied everywhere, every   *)
(* call has been answered, and the votes x no longer needed are on the way. *)
(* "used" is the part of the bounds that is taken as spent.                 *)
Elected(x, V, used) ==
  LET first == [term |-> 1, owner |-> x]
      Fill(atX, elsewhere) == [n \in Node |-> IF n = x THEN atX ELSE elsewhere]
  IN /\ state = Fill("Leader", "Follower")
     /\ paused = [n \in Node |-> FALSE]
     /\ currentTerm = [n \in Node |-> 1]
     /\ voteFor = [n \in Node |-> x]
     /\ leaderName = [n \in Node |-> x]
     /\ lastSeq = Fill(0, 2)
     /\ logs = [n \in Node |-> <<first>>]
     /\ commitIndex = [n \in Node |-> 0]
     /\ lastApplied = [n \in Node |-> 0]
     /\ electArmed = Fill(FALSE, TRUE)
     /\ failArmed = Fill(TRUE, FALSE)
     /\ votes = Fill([p \in Node |-> IF p \in V THEN 1 ELSE 0], [p \in Node |-> 0])
     /\ nextIndex = Fill([p \in Node |-> IF p = x THEN 0 ELSE 1], [p \in Node |-> 0])
     /\ matchIndex = Fill([p \in Node |-> IF p = x THEN -1 ELSE 0], [p \in Node |-> -1])
     /\ seq = Fill([p \in Node |-> IF p = x THEN 1 ELSE 3], [p \in Node |-> 1])
     /\ sendEnabled = [n \in Node |-> Peers(n)]
     /\ disk = [n \in Node |-> [term |-> 1, voteFor |-> x, logs |-> <<first>>]]
     /\ msgs = {[type |-> "VoteResponse", from |-> p, to |-> x, asked |-> 1,
                 term |-> 1, granted |-> TRUE, seq |-> 1] : p \in Peers(x) \ V}
     /\ grants = {[voter |-> p, term |-> 1, cand |-> x] : p \in Peers(x)}
     /\ elected = {[term |-> 1, node |-> x, votes |-> votes[x]]}
     /\ applied = {[index |-> 0, entry |-> first]}
     /\ faults = used

Used(elections, sends) ==
  [election |-> elections, send |-> sends, crash |-> 0, pause |-> 0, cut |-> 0]

(* From the start, either three elections and a pause, or two elections, a   *)
(* call of do_append_entries and a peer that is cut off; with a crash.       *)
ElectionStart ==
  /\ Start
  /\ faults \in {[Used(0, 1) EXCEPT !.cut = 1], [Used(1, 0) EXCEPT !.pause = 1]}
ElectionSpec == ElectionStart /\ [][Next]_vars

WarmStart(used) == \E x \in Node, V \in SUBSET Node :
                     /\ V \subseteq Peers(x)
                     /\ Cardinality(V) = Cardinality(Node) \div 2
                     /\ Elected(x, V, used)
WarmSpec == WarmStart(Used(1, 2)) /\ [][Next]_vars

(* A cluster after a partition: z led term 1 and logged a second entry that *)
(* it sent in vain; x led term 2, logged another second entry and committed *)
(* it with y; y has just been elected in term 3, and z has voted for it.    *)
(* Spec comes here in 28 steps; the messages lost on the way are left out.  *)
Diverged(x, y, z, V, used) ==
  LET first  == [term |-> 1, owner |-> z]
      second == [term |-> 2, owner |-> x]
      lost   == [term |-> 1, owner |-> z]
      Each(atX, atY, atZ) ==
        [n \in Node |-> IF n = x THEN atX ELSE IF n = y THEN atY ELSE atZ]
      Counted(S, t) == [p \in Node |-> IF p \in S THEN t ELSE 0]
  IN /\ state = Each("Follower", "Leader", "Follower")
     /\ paused = [n \in Node |-> FALSE]
     /\ currentTerm = [n \in Node |-> 3]
     /\ voteFor = [n \in Node |-> y]
     /\ leaderName = Each(None, y, None)
     /\ lastSeq = Each(1, 2, 1)
     /\ logs = Each(<<first, second>>, <<first, second>>, <<first, lost>>)
     /\ commitIndex = Each(1, 1, 0)
     /\ lastApplied = Each(1, 1, 0)
     /\ electArmed = Each(TRUE, FALSE, TRUE)
     /\ failArmed = Each(FALSE, TRUE, FALSE)
     /\ votes = Each(Counted({y}, 2), Counted(V, 3), Counted({x}, 1))
     /\ nextIndex = Each(Each(1, 2, 1), [p \in Node |-> 2], Each(1, 1, 0))
     /\ matchIndex = Each(Each(-1, 1, -1), [p \in Node |-> -1], Each(0, 0, -1))
     /\ seq = Each(Each(1, 3, 3), [p \in Node |-> 1], Each(4, 4, 1))
     /\ sendEnabled = [n \in Node |-> Peers(n)]
     /\ disk = [n \in Node |-> [term |-> 3, voteFor |-> y, logs |-> logs[n]]]
     /\ msgs = {[type |-> "VoteResponse", from |-> p, to |-> y, asked |-> 3,
                 term |-> 3, granted |-> TRUE, seq |-> 1] : p \in {x, z} \ V}
     /\ grants = {[voter |-> x, term |-> 1, cand |-> z],
                  [voter |-> y, term |-> 1, cand |-> z],
                  [voter |-> y, term |-> 2, cand |-> x],
                  [voter |-> x, term |-> 3, cand |-> y],
                  [voter |-> z, term |-> 3, cand |-> y]}
     /\ elected = {[term |-> 1, node |-> z, votes |-> Counted({x}, 1)],
                   [term |-> 2, node |-> x, votes |-> Counted({y}, 2)],
                   [term |-> 3, node |-> y, votes |-> Counted(V, 3)]}
     /\ applied = {[index |-> 0, entry |-> first], [index |-> 1, entry |-> second]}
     /\ faults = used

DivergedStart(used) ==
  \E x, y, z \in Node : \E v \in {x, z} :
    Cardinality({x, y, z}) = 3 /\ Diverged(x, y, z, {v}, used)

(* Both clusters under the same bounds.  The normal one may go on with two  *)
(* elections, two calls of do_append_entries and two entries; the one after *)
(* the partition with one entry, and either one election and two calls or   *)
(* no election and three calls, which finish the repair.                    *)
ReplicationSpec ==
  /\ WarmStart(Used(2, 6)) \/ DivergedStart(Used(3, 6)) \/ DivergedStart(Used(4, 5))
  /\ [][Next]_vars
=============================================================================
