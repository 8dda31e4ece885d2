---------------------------- MODULE MCMembership ----------------------------
(* Membership for TLC.                                                      *)
EXTENDS Membership

(* Any change that leaves somebody of the first members.                   *)
SomebodyStays ==
  {c \in [app : SUBSET (Node \ Members), rem : SUBSET Members] :
     c.rem # Members /\ c.app \union c.rem # {}}

(* A member has won the first term with the votes of all, and all members   *)
(* have committed its first entry.                                          *)
First == [term |-> 1, cmd |-> "DATA", old |-> {}, app |-> {}, rem |-> {}]
WarmStart ==
  LET x == CHOOSE n \in Members : TRUE
      member(n) == [Process(Members \ {n}) EXCEPT !.term = 1, !.voteFor = x, !.leader = x,
                                                  !.log = <<First>>, !.commit = 0]
      Index(there, elsewhere) == [p \in Node |-> IF p \in Members \ {x} THEN there ELSE elsewhere]
  IN /\ node = [n \in Node |->
          IF n \notin Members THEN Process(Members)
          ELSE IF n # x THEN member(n)
          ELSE [member(n) EXCEPT !.state = "Leader", !.next = Index(1, 0), !.match = Index(0, -1)]]
     /\ committed = {[index |-> 0, entry |-> First]}
     /\ faults = [change |-> 0, restart |-> 0]

JoinSpec == WarmStart /\ [][Next]_vars

(* Nodes join, or restart, only under the first leader; a later leader sees *)
(* nodes leave only.  Joins and elections together are JoinSpec, restarts   *)
(* and elections together fail already in RaftNode.                         *)
OneTrouble ==
  \/ \A n \in Node : node[n].term <= 1
  \/ /\ faults.restart = 0
     /\ \A n \in Members : node[n].peers \subseteq Members
     /\ \A n \in Node \ Members : node[n].term <= 1
CalmSpec == WarmStart /\ [][Next /\ OneTrouble']_vars
=============================================================================
