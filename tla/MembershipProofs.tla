-------------------------- MODULE MembershipProofs --------------------------
(* What the change of the membership keeps for any number of nodes, members  *)
(* and changes under way, with any restarts: the records of the nodes are    *)
(* well formed, whoever is counted in a joint decision has the right, and    *)
(* as long as nobody has begun a second term, what is committed is on the    *)
(* majorities that had to decide it, everywhere the same.                   *)
EXTENDS Membership, FiniteSetTheorems, WellFoundedInduction, SequenceTheorems, TLAPS

USE NodeAssumption, ChangeAssumption, BoundAssumption
-----------------------------------------------------------------------------
(* The log is searched from its end: of the indices that qualify the         *)
(* greatest is taken.                                                       *)
LEMMA GreatestNumber ==
  ASSUME NEW N \in Nat, NEW S \in SUBSET (-1 .. N), S # {}
  PROVE  Max(S) \in S
<1> DEFINE Above(n) == {i + 1 : i \in n .. N}
           T == {Above(n) : n \in S}
<1>1. IsWellFoundedOn(StrictSubsetOrdering(Nat), FiniteSubsetsOf(Nat))
  BY FS_StrictSubsetOrderingWellFounded
<1>2. ASSUME NEW n \in S PROVE Above(n) \in FiniteSubsetsOf(Nat)
  <2>1. 0 \in Int /\ N + 1 \in Int
    OBVIOUS
  <2>2. IsFiniteSet(0 .. N + 1)
    BY <2>1, FS_Interval
  <2>3. Above(n) \subseteq 0 .. N + 1 /\ Above(n) \subseteq Nat
    OBVIOUS
  <2>4. IsFiniteSet(Above(n))
    BY <2>2, <2>3, FS_Subset
  <2> QED BY <2>3, <2>4 DEF FiniteSubsetsOf
<1>3. T \subseteq FiniteSubsetsOf(Nat) /\ T # {}
  BY <1>2
<1>4. PICK x \in T : \A y \in T : ~ (<<y, x>> \in StrictSubsetOrdering(Nat))
  BY <1>1, <1>3, WFMin
<1>5. PICK m \in S : x = Above(m)
  BY <1>4
<1>6. ASSUME NEW n \in S, n > m PROVE FALSE
  <2>1. Above(n) \subseteq Above(m) /\ m + 1 \in Above(m) /\ m + 1 \notin Above(n)
    BY <1>6
  <2>2. Above(n) \in T /\ Above(n) # Above(m)
    BY <2>1
  <2>3. Above(n) \subseteq Nat /\ Above(m) \subseteq Nat
    OBVIOUS
  <2> HIDE DEF Above
  <2> QED BY <1>4, <1>5, <2>1, <2>2, <2>3 DEF StrictSubsetOrdering
<1>7. \E k \in S : \A n \in S : k >= n
  BY <1>6
<1> QED BY <1>7 DEF Max

LEMMA LesserNumber ==
  ASSUME NEW a \in Int, NEW b \in Int
  PROVE  Min({a, b}) \in {a, b} /\ Min({a, b}) <= a /\ Min({a, b}) <= b
<1>1. \E x \in {a, b} : \A y \in {a, b} : x =< y
  BY DEF Min
<1> QED BY <1>1 DEF Min

(* What the operators on logs return.                                       *)
LEMMA LogType ==
  ASSUME NEW log \in Seq(LogEntries)
  PROVE  /\ Len(log) \in Nat /\ LastIndexOf(log) \in Nat \union {-1}
         /\ \A i \in 0 .. LastIndexOf(log) : EntryAt(log, i) \in LogEntries
         /\ \A i \in Int : i <= Len(log) => SubSeq(log, 1, i) \in Seq(LogEntries)
         /\ \A i \in Nat \ {0} : SubSeq(log, i, Len(log)) \in Seq(LogEntries)
<1>1. Len(log) \in Nat
  BY LenProperties
<1>2. \A i \in 1 .. Len(log) : log[i] \in LogEntries
  BY ElementOfSeq
<1>3. ASSUME NEW i \in Int, NEW j \in Int, i >= 1, j <= Len(log)
      PROVE  SubSeq(log, i, j) \in Seq(LogEntries)
  <2>1. \A k \in i .. j : log[k] \in LogEntries
    BY <1>1, <1>2, <1>3
  <2> QED BY <2>1, SubSeqProperties
<1>4. LastIndexOf(log) \in Nat \union {-1}
  BY <1>1 DEF LastIndexOf
<1>5. \A i \in 0 .. LastIndexOf(log) : EntryAt(log, i) \in LogEntries
  BY <1>1, <1>2 DEF LastIndexOf, EntryAt
<1>6. \A i \in Int : i <= Len(log) => SubSeq(log, 1, i) \in Seq(LogEntries)
  BY <1>3
<1>7. \A i \in Nat \ {0} : SubSeq(log, i, Len(log)) \in Seq(LogEntries)
  BY <1>1, <1>3
<1> QED BY <1>1, <1>4, <1>5, <1>6, <1>7

LEMMA AfterAppendType ==
  ASSUME NEW log \in Seq(LogEntries), NEW entries \in Seq(LogEntries),
         NEW prev \in Int, prev <= LastIndexOf(log)
  PROVE  AfterAppend(log, prev, entries) \in Seq(LogEntries)
<1>1. SubSeq(log, 1, prev + 1) \in Seq(LogEntries)
  BY LogType DEF LastIndexOf
<1>2. SubSeq(log, 1, prev + 1) \o entries \in Seq(LogEntries)
  BY <1>1, ConcatProperties
<1> QED BY <1>2 DEF AfterAppend

LEMMA KeptType ==
  ASSUME NEW log \in Seq(LogEntries), NEW prev \in Nat, prev <= LastIndexOf(log)
  PROVE  SubSeq(log, 1, KeptUpTo(log, prev) + 1) \in Seq(LogEntries)
<1> DEFINE S == {-1} \union {i \in 0 .. prev - 1 : EntryAt(log, i).term # EntryAt(log, prev).term}
<1>1. S \in SUBSET (-1 .. prev) /\ S # {}
  OBVIOUS
<1>2. Max(S) \in S
  BY <1>1, GreatestNumber
<1>3. KeptUpTo(log, prev) \in Int /\ KeptUpTo(log, prev) <= prev
  BY <1>1, <1>2 DEF KeptUpTo
<1> QED BY <1>3, LogType DEF LastIndexOf

(* The indices of the entries of one command, from some index on.            *)
LEMMA LastOf ==
  ASSUME NEW log \in Seq(LogEntries), NEW S \in SUBSET (0 .. LastIndexOf(log)), S # {}
  PROVE  Max(S) \in S /\ Max(S) \in Nat /\ EntryAt(log, Max(S)) \in LogEntries
<1>1. LastIndexOf(log) \in Nat \union {-1} /\ Len(log) \in Nat
  BY LogType
<1>2. S \in SUBSET (-1 .. Len(log))
  BY <1>1 DEF LastIndexOf
<1>3. Max(S) \in S
  BY <1>1, <1>2, GreatestNumber
<1> QED BY <1>1, <1>3, LogType
-----------------------------------------------------------------------------
(* A node's record.  Outside STAGING every peer has voting rights: only      *)
(* update_configuration withholds them, from the peers it adds.             *)

RightsGiven(s) == s.conf.state # "STAGING" => s.rights = s.peers
GoodNode(n, s) ==
  /\ s \in Processes
  /\ n \notin s.peers /\ s.votes \subseteq s.peers /\ s.rights \subseteq s.peers
  /\ RightsGiven(s)

LEMMA ProcessFields ==
  ASSUME NEW s \in Processes
  PROVE  /\ s.state \in {"Follower", "Candidate", "Leader"} /\ s.term \in 0 .. MaxTerm
         /\ s.voteFor \in Node \union {None} /\ s.leader \in Node \union {None}
         /\ s.log \in Seq(LogEntries) /\ s.commit \in Nat \union {-1} /\ s.conf \in Confs
         /\ s.peers \subseteq Node /\ s.rights \subseteq Node /\ s.votes \subseteq Node
         /\ s.next \in [Node -> Nat] /\ s.match \in [Node -> Nat \union {-1}]
         /\ s.conf.old \subseteq Node /\ s.conf.app \subseteq Node /\ s.conf.rem \subseteq Node
         /\ s.conf.index \in Int /\ s.conf.index2 \in Int
BY DEF Processes, Confs

LEMMA BlankType == Blank \in Confs /\ Blank.state = "BLANK"
BY DEF Blank, Confs

LEMMA LoggedGood ==
  ASSUME NEW n, NEW s, GoodNode(n, s), NEW cmd \in {"DATA", "TRANS", "TRANS_NEW"}
  PROVE  GoodNode(n, Logged(s, cmd)) /\ Logged(s, cmd).conf = s.conf
<1> DEFINE e == [term |-> s.term, cmd |-> cmd, old |-> IF cmd = "TRANS" THEN s.conf.old ELSE {},
                 app |-> IF cmd = "TRANS" THEN s.conf.app ELSE {},
                 rem |-> IF cmd = "TRANS" THEN s.conf.rem ELSE {}]
           log == Append(s.log, e)
<1>1. e \in LogEntries
  BY ProcessFields DEF GoodNode, LogEntries
<1>2. Logged(s, cmd) = [s EXCEPT !.log = log]
  BY Zenon DEF Logged
<1> HIDE DEF e
<1>3. log \in Seq(LogEntries)
  BY <1>1, ProcessFields, AppendProperties DEF GoodNode
<1> HIDE DEF log
<1>4. [s EXCEPT !.log = log] \in Processes
  BY <1>3 DEF GoodNode, Processes
<1> QED BY <1>2, <1>4 DEF GoodNode, Processes, RightsGiven

LEMMA WithPeersGood ==
  ASSUME NEW n, NEW s, GoodNode(n, s), NEW P \in SUBSET Node, n \notin P
  PROVE  /\ GoodNode(n, WithPeers(s, P))
         /\ WithPeers(s, P).conf = s.conf
BY DEF GoodNode, WithPeers, Processes, RightsGiven

LEMMA WithoutPeersGood ==
  ASSUME NEW n, NEW s, GoodNode(n, s), NEW P \in SUBSET Node
  PROVE  /\ GoodNode(n, WithoutPeers(s, P))
         /\ WithoutPeers(s, P).conf = s.conf
<1> DEFINE next == [p \in Node |-> IF p \in P THEN 0 ELSE s.next[p]]
           match == [p \in Node |-> IF p \in P THEN -1 ELSE s.match[p]]
<1>1. next \in [Node -> Nat] /\ match \in [Node -> Nat \union {-1}]
  BY ProcessFields DEF GoodNode
<1>2. WithoutPeers(s, P) = [s EXCEPT !.peers = @ \ P, !.rights = @ \ P, !.votes = @ \ P,
                                     !.next = next, !.match = match]
  BY Zenon DEF WithoutPeers
<1> HIDE DEF next, match
<1>3. [s EXCEPT !.peers = @ \ P, !.rights = @ \ P, !.votes = @ \ P,
                !.next = next, !.match = match] \in Processes
  BY <1>1 DEF GoodNode, Processes
<1>4. /\ WithoutPeers(s, P).peers = s.peers \ P /\ WithoutPeers(s, P).rights = s.rights \ P
      /\ WithoutPeers(s, P).votes = s.votes \ P /\ WithoutPeers(s, P).conf = s.conf
  BY <1>2 DEF GoodNode, Processes
<1> QED BY <1>2, <1>3, <1>4 DEF GoodNode, RightsGiven

LEMMA BecomeFollowerGood ==
  ASSUME NEW n, NEW s, GoodNode(n, s), NEW term \in 0 .. MaxTerm
  PROVE  /\ GoodNode(n, BecomeFollower(s, term))
         /\ BecomeFollower(s, term).peers = s.peers /\ BecomeFollower(s, term).log = s.log
         /\ BecomeFollower(s, term).commit = s.commit /\ BecomeFollower(s, term).conf = s.conf
         /\ BecomeFollower(s, term).term = term
<1> DEFINE next == [p \in Node |-> 0]
           match == [p \in Node |-> -1]
<1>1. next \in [Node -> Nat] /\ match \in [Node -> Nat \union {-1}]
  OBVIOUS
<1>2. BecomeFollower(s, term) =
        [s EXCEPT !.state = "Follower", !.term = term, !.voteFor = None, !.votes = {},
                  !.next = next, !.match = match]
  BY Zenon DEF BecomeFollower
<1> HIDE DEF next, match
<1>3. [s EXCEPT !.state = "Follower", !.term = term, !.voteFor = None, !.votes = {},
                !.next = next, !.match = match] \in Processes
  BY <1>1 DEF GoodNode, Processes
<1> QED BY <1>2, <1>3 DEF GoodNode, Processes, RightsGiven

LEMMA BecomeLeaderGood ==
  ASSUME NEW n \in Node, NEW s, GoodNode(n, s)
  PROVE  GoodNode(n, BecomeLeader(n, s))
<1> DEFINE next == [p \in Node |-> IF p \in s.peers THEN s.commit + 1 ELSE 0]
<1>1. next \in [Node -> Nat]
  BY ProcessFields DEF GoodNode
<1>2. BecomeLeader(n, s) =
        [s EXCEPT !.state = "Leader", !.leader = n, !.votes = {}, !.next = next]
  BY Zenon DEF BecomeLeader
<1> HIDE DEF next
<1>3. [s EXCEPT !.state = "Leader", !.leader = n, !.votes = {}, !.next = next] \in Processes
  BY <1>1 DEF GoodNode, Processes
<1> QED BY <1>2, <1>3 DEF GoodNode, Processes, RightsGiven

(* A change of the configuration alone.                                     *)
LEMMA ConfGood ==
  ASSUME NEW n, NEW s, GoodNode(n, s), NEW c \in Confs,
         c.state # "STAGING" => s.rights = s.peers
  PROVE  /\ GoodNode(n, [s EXCEPT !.conf = c])
         /\ [s EXCEPT !.conf = c].conf = c /\ [s EXCEPT !.conf = c].peers = s.peers
         /\ [s EXCEPT !.conf = c].rights = s.rights
         /\ [s EXCEPT !.conf = c].log = s.log /\ [s EXCEPT !.conf = c].leader = s.leader
BY DEF GoodNode, Processes, RightsGiven
-----------------------------------------------------------------------------
(* The four phases of a change.                                             *)

LEMMA UpdateConfigurationJointGood ==
  ASSUME NEW n, NEW s, GoodNode(n, s), s.rights = s.peers
  PROVE  GoodNode(n, UpdateConfigurationJoint(s))
<1> DEFINE c == [s.conf EXCEPT !.index = Len(s.log), !.state = "OLD_JOINT"]
           t == [s EXCEPT !.conf = c]
<1>1. c \in Confs
  <2>1. s.conf \in Confs /\ Len(s.log) \in Int
    BY ProcessFields, LenProperties DEF GoodNode
  <2> QED BY <2>1 DEF Confs
<1>2. [s EXCEPT !.conf.index = Len(s.log), !.conf.state = "OLD_JOINT"] = t
  BY ProcessFields DEF GoodNode, Processes, Confs
<1> HIDE DEF c
<1>3. GoodNode(n, t)
  BY <1>1, ConfGood
<1> HIDE DEF t
<1>4. GoodNode(n, Logged(t, "TRANS"))
  BY <1>3, LoggedGood
<1> QED BY <1>2, <1>4 DEF UpdateConfigurationJoint

LEMMA OnUpdateConfigurationJointGood ==
  ASSUME NEW n \in Node, NEW s, GoodNode(n, s), NEW i \in Nat, EntryAt(s.log, i) \in LogEntries
  PROVE  GoodNode(n, OnUpdateConfigurationJoint(n, s, i))
<1> DEFINE e == EntryAt(s.log, i)
           c == [state |-> "OLD_JOINT", old |-> e.old, app |-> e.app, rem |-> e.rem,
                 index |-> i, index2 |-> -1]
           t == [s EXCEPT !.conf = c]
<1>1. CASE s.conf # Blank
  BY <1>1 DEF OnUpdateConfigurationJoint
<1>2. CASE s.conf = Blank
  <2>1. e.old \subseteq Node /\ e.app \subseteq Node /\ e.rem \subseteq Node
    BY DEF LogEntries
  <2>2. s.rights = s.peers
    BY <1>2, BlankType DEF GoodNode, RightsGiven
  <2>3. OnUpdateConfigurationJoint(n, s, i) = WithPeers(t, e.app \ {n})
    BY <1>2, Zenon DEF OnUpdateConfigurationJoint
  <2> HIDE DEF e
  <2>4. c \in Confs
    BY <2>1 DEF Confs
  <2> HIDE DEF c
  <2>5. GoodNode(n, t)
    BY <2>2, <2>4, ConfGood
  <2> HIDE DEF t
  <2>6. GoodNode(n, WithPeers(t, e.app \ {n}))
    <3>1. e.app \ {n} \in SUBSET Node /\ n \notin e.app \ {n}
      BY <2>1
    <3> QED BY <2>5, <3>1, WithPeersGood
  <2> QED BY <2>3, <2>6
<1> QED BY <1>1, <1>2

LEMMA OnUpdateConfigurationNewGood ==
  ASSUME NEW n, NEW s, GoodNode(n, s), NEW i \in Nat
  PROVE  /\ GoodNode(n, OnUpdateConfigurationNew(s, i))
         /\ OnUpdateConfigurationNew(s, i).log = s.log
<1> DEFINE c == [s.conf EXCEPT !.state = "JOINT_NEW", !.index2 = i]
           t == [s EXCEPT !.conf = c]
           P == s.conf.rem \ {s.leader}
<1>1. CASE s.conf.state # "OLD_JOINT"
  BY <1>1 DEF OnUpdateConfigurationNew
<1>2. CASE s.conf.state = "OLD_JOINT"
  <2>1. c \in Confs /\ P \in SUBSET Node
    <3>1. s.conf \in Confs /\ s.conf.rem \subseteq Node
      BY ProcessFields DEF GoodNode
    <3>2. PICK r \in Confs : r = s.conf
      BY <3>1
    <3>3. [r EXCEPT !.state = "JOINT_NEW", !.index2 = i] \in Confs
      <4>1. ASSUME NEW j \in Int
            PROVE  [r EXCEPT !.state = "JOINT_NEW", !.index2 = j] \in Confs
        BY DEF Confs
      <4>2. i \in Int
        OBVIOUS
      <4> QED BY <4>1, <4>2, Zenon
    <3> QED BY <3>1, <3>2, <3>3
  <2>2. [s EXCEPT !.conf.state = "JOINT_NEW", !.conf.index2 = i] = t
    BY ProcessFields DEF GoodNode, Processes, Confs
  <2>3. OnUpdateConfigurationNew(s, i) = WithoutPeers(t, P)
    BY <1>2, <2>2 DEF OnUpdateConfigurationNew
  <2>4. s.rights = s.peers
    BY <1>2 DEF GoodNode, RightsGiven
  <2> HIDE DEF c, P
  <2>5. GoodNode(n, t) /\ t.log = s.log
    BY <2>1, <2>4, ConfGood
  <2> HIDE DEF t
  <2>6. GoodNode(n, WithoutPeers(t, P))
    BY <2>1, <2>5, WithoutPeersGood
  <2>7. WithoutPeers(t, P).log = t.log
    BY <2>5 DEF WithoutPeers, GoodNode, Processes
  <2> QED BY <2>3, <2>5, <2>6, <2>7
<1> QED BY <1>1, <1>2

(* How a change ends, whoever of those that leave are dropped.              *)
LEMMA FinishGood ==
  ASSUME NEW n, NEW s, GoodNode(n, s), s.conf.state = "JOINT_NEW", NEW P \in SUBSET Node
  PROVE  GoodNode(n, [WithoutPeers(s, P) EXCEPT !.conf = Blank])
<1>1. GoodNode(n, WithoutPeers(s, P)) /\ WithoutPeers(s, P).conf = s.conf
  BY WithoutPeersGood
<1>2. PICK t : t = WithoutPeers(s, P)
  OBVIOUS
<1>3. t.rights = t.peers
  BY <1>1, <1>2 DEF GoodNode, RightsGiven
<1>4. GoodNode(n, [t EXCEPT !.conf = Blank])
  BY <1>1, <1>2, <1>3, BlankType, ConfGood
<1> QED BY <1>2, <1>4

LEMMA CommitConfigurationGood ==
  ASSUME NEW n, NEW s, GoodNode(n, s)
  PROVE  GoodNode(n, CommitConfiguration(s))
<1>1. s.conf.rem \cap {s.leader} \in SUBSET Node
  BY ProcessFields DEF GoodNode
<1> QED BY <1>1, FinishGood DEF CommitConfiguration, OnUpdateConfigurationFinish

LEMMA ReadConfigurationGood ==
  ASSUME NEW n \in Node, NEW s, GoodNode(n, s), NEW prev
  PROVE  GoodNode(n, ReadConfiguration(n, s, prev))
<1> DEFINE from  == {i \in 0 .. LastIndexOf(s.log) : i >= prev}
           trans == Indices(s.log, "TRANS") \cap from
           news  == {i \in Indices(s.log, "TRANS_NEW") \cap from : \A j \in trans : j < i}
           t     == IF news = {} THEN s ELSE OnUpdateConfigurationNew(s, Max(news))
<1>1. s.log \in Seq(LogEntries)
  BY ProcessFields DEF GoodNode
<1>2. trans \in SUBSET (0 .. LastIndexOf(s.log)) /\ news \in SUBSET (0 .. LastIndexOf(s.log))
  OBVIOUS
<1>3. ReadConfiguration(n, s, prev) =
        IF trans = {} THEN t ELSE OnUpdateConfigurationJoint(n, t, Max(trans))
  BY Zenon DEF ReadConfiguration
<1> HIDE DEF trans, news
<1>4. GoodNode(n, t) /\ t.log = s.log
  <2>1. CASE news = {}
    BY <2>1
  <2>2. CASE news # {}
    <3>1. Max(news) \in Nat
      BY <1>1, <1>2, <2>2, LastOf
    <3>2. PICK i \in Nat : i = Max(news)
      BY <3>1
    <3> QED BY <2>2, <3>2, OnUpdateConfigurationNewGood
  <2> QED BY <2>1, <2>2
<1> HIDE DEF t
<1>5. CASE trans # {}
  <2>1. Max(trans) \in Nat /\ EntryAt(t.log, Max(trans)) \in LogEntries
    BY <1>1, <1>2, <1>4, <1>5, LastOf
  <2>2. PICK i \in Nat : i = Max(trans)
    BY <2>1
  <2>3. GoodNode(n, OnUpdateConfigurationJoint(n, t, i))
    BY <1>4, <2>1, <2>2, OnUpdateConfigurationJointGood
  <2> QED BY <1>3, <1>5, <2>2, <2>3
<1> QED BY <1>3, <1>4, <1>5
-----------------------------------------------------------------------------
(* Elections.                                                               *)

LEMMA InformedGood ==
  ASSUME NEW n, NEW s, GoodNode(n, s), NEW term \in 0 .. MaxTerm
  PROVE  GoodNode(n, Informed(s, term))
<1>1. CASE term > s.term
  <2>1. PICK t : t = BecomeFollower(s, term)
    OBVIOUS
  <2>2. GoodNode(n, t)
    BY <2>1, BecomeFollowerGood
  <2>3. GoodNode(n, [t EXCEPT !.leader = None])
    BY <2>2 DEF GoodNode, Processes, RightsGiven
  <2> QED BY <1>1, <2>1, <2>3 DEF Informed
<1> QED BY <1>1 DEF Informed

LEMMA OnVoteRequestGood ==
  ASSUME NEW p \in Node, NEW s, GoodNode(p, s), NEW n \in Node, NEW c, c.term \in 0 .. MaxTerm
  PROVE  GoodNode(p, OnVoteRequest(s, n, c))
<1>1. PICK t : t = Informed(s, c.term)
  OBVIOUS
<1>2. GoodNode(p, t)
  BY <1>1, InformedGood
<1>3. GoodNode(p, [t EXCEPT !.voteFor = n, !.leader = None])
  BY <1>2 DEF GoodNode, Processes, RightsGiven
<1> QED BY <1>1, <1>2, <1>3, Zenon DEF OnVoteRequest

LEMMA OnVoteResponseGood ==
  ASSUME NEW n \in Node, NEW c, GoodNode(n, c), NEW p \in Node,
         NEW term \in 0 .. MaxTerm, NEW granted
  PROVE  GoodNode(n, OnVoteResponse(n, c, p, term, granted))
<1> DEFINE votes == IF granted THEN c.votes \union {p} ELSE c.votes
           t     == [c EXCEPT !.votes = votes]
<1>1. CASE p \notin c.rights
  BY <1>1 DEF OnVoteResponse
<1>2. CASE p \in c.rights
  <2>1. votes \subseteq c.peers
    BY <1>2 DEF GoodNode
  <2>2. OnVoteResponse(n, c, p, term, granted) =
          IF term > c.term THEN BecomeFollower(c, term)
          ELSE IF EnoughVotes(n, t, votes) THEN BecomeLeader(n, t) ELSE t
    BY <1>2, Zenon DEF OnVoteResponse
  <2> HIDE DEF votes
  <2>3. GoodNode(n, t)
    BY <2>1 DEF GoodNode, Processes, RightsGiven
  <2> HIDE DEF t
  <2>4. GoodNode(n, BecomeFollower(c, term)) /\ GoodNode(n, BecomeLeader(n, t))
    BY <2>3, BecomeFollowerGood, BecomeLeaderGood
  <2> QED BY <2>2, <2>3, <2>4
<1> QED BY <1>1, <1>2
-----------------------------------------------------------------------------
(* Replication.                                                             *)

LEMMA HandleRequestRoutineGood ==
  ASSUME NEW p, NEW s, GoodNode(p, s), NEW n \in Node, NEW l, l.term \in 0 .. MaxTerm
  PROVE  /\ GoodNode(p, HandleRequestRoutine(s, n, l))
         /\ HandleRequestRoutine(s, n, l).log = s.log
<1>1. PICK b : b = BecomeFollower(s, l.term)
  OBVIOUS
<1>2. GoodNode(p, b) /\ b.log = s.log
  BY <1>1, BecomeFollowerGood
<1>3. ASSUME NEW t, GoodNode(p, t)
      PROVE  GoodNode(p, [t EXCEPT !.leader = n]) /\ [t EXCEPT !.leader = n].log = t.log
  BY <1>3 DEF GoodNode, Processes, RightsGiven
<1>4. HandleRequestRoutine(s, n, l) \in {[b EXCEPT !.leader = n], [s EXCEPT !.leader = n], s}
  BY <1>1, Zenon DEF HandleRequestRoutine
<1> QED BY <1>2, <1>3, <1>4

LEMMA OnAppendEntriesRequestGood ==
  ASSUME NEW p \in Node, NEW s, GoodNode(p, s), NEW n \in Node, NEW l, GoodNode(n, l),
         NEW prevTerm
  PROVE  LET reply == OnAppendEntriesRequest(p, s, n, l, prevTerm)
         IN  GoodNode(p, reply.after)
<1> DEFINE prev    == l.next[p] - 1
           entries == SubSeq(l.log, prev + 2, Len(l.log))
           t       == HandleRequestRoutine(s, n, l)
           log     == AfterAppend(t.log, prev, entries)
           commit  == IF l.commit > t.commit THEN Min({l.commit, LastIndexOf(log)}) ELSE t.commit
           kept    == [t EXCEPT !.log = SubSeq(@, 1, KeptUpTo(@, prev) + 1)]
           u       == [t EXCEPT !.log = log, !.commit = commit]
           done    == CommitConfiguration(ReadConfiguration(p, u, prev))
           reply   == OnAppendEntriesRequest(p, s, n, l, prevTerm)
<1>1. l.next[p] \in Nat /\ l.log \in Seq(LogEntries) /\ l.term \in 0 .. MaxTerm
      /\ l.commit \in Nat \union {-1} /\ s.log \in Seq(LogEntries)
  BY ProcessFields DEF GoodNode
<1>2. GoodNode(p, t) /\ t.log = s.log
  BY <1>1, HandleRequestRoutineGood
<1>3. reply = IF l.term < s.term THEN [after |-> s, success |-> FALSE]
              ELSE IF prev > LastIndexOf(s.log) THEN [after |-> t, success |-> FALSE]
              ELSE IF Conflicts(s.log, prev, prevTerm) THEN [after |-> kept, success |-> FALSE]
              ELSE [after |-> done, success |-> TRUE]
  BY Zenon DEF OnAppendEntriesRequest
<1>4. prev \in Int /\ prev >= -1 /\ entries \in Seq(LogEntries)
  <2>1. PICK k \in Nat : k = l.next[p]
    BY <1>1
  <2>2. prev = k - 1
    BY <2>1
  <2> HIDE DEF prev
  <2>3. prev \in Int /\ prev >= -1 /\ prev + 2 \in Nat \ {0}
    BY <2>2
  <2>4. PICK a \in Seq(LogEntries), i \in Nat \ {0} : a = l.log /\ i = prev + 2
    BY <1>1, <2>3
  <2>5. SubSeq(a, i, Len(a)) \in Seq(LogEntries)
    BY LogType
  <2>6. entries \in Seq(LogEntries)
    BY <2>4, <2>5 DEF entries
  <2> QED BY <2>3, <2>6
<1>5. t.commit \in Nat \union {-1}
  BY <1>2, ProcessFields DEF GoodNode
<1> HIDE DEF prev, entries, t
<1>6. ASSUME prev <= LastIndexOf(s.log), Conflicts(s.log, prev, prevTerm)
      PROVE  GoodNode(p, kept)
  <2>1. prev \in Nat
    BY <1>4, <1>6 DEF Conflicts
  <2>2. SubSeq(t.log, 1, KeptUpTo(t.log, prev) + 1) \in Seq(LogEntries)
    BY <1>1, <1>2, <1>6, <2>1, KeptType
  <2>3. [t EXCEPT !.log = SubSeq(t.log, 1, KeptUpTo(t.log, prev) + 1)] = kept
    BY <1>2 DEF GoodNode, Processes
  <2>4. PICK g \in Seq(LogEntries) : g = SubSeq(t.log, 1, KeptUpTo(t.log, prev) + 1)
    BY <2>2
  <2>5. GoodNode(p, [t EXCEPT !.log = g])
    BY <1>2 DEF GoodNode, Processes, RightsGiven
  <2> QED BY <2>3, <2>4, <2>5
<1>7. ASSUME prev <= LastIndexOf(s.log)
      PROVE  GoodNode(p, done)
  <2>1. log \in Seq(LogEntries)
    BY <1>1, <1>2, <1>4, <1>7, AfterAppendType
  <2> HIDE DEF log
  <2>2. LastIndexOf(log) \in Nat \union {-1}
    BY <2>1, LogType
  <2>3. commit \in Nat \union {-1}
    <3>1. l.commit \in Int /\ LastIndexOf(log) \in Int
      BY <1>1, <2>2
    <3>2. Min({l.commit, LastIndexOf(log)}) \in {l.commit, LastIndexOf(log)}
      BY <3>1, LesserNumber
    <3> QED BY <1>1, <1>5, <2>2, <3>2
  <2> HIDE DEF commit
  <2>4. GoodNode(p, u)
    BY <1>2, <2>1, <2>3 DEF GoodNode, Processes, RightsGiven
  <2> HIDE DEF u
  <2>5. GoodNode(p, ReadConfiguration(p, u, prev))
    BY <2>4, ReadConfigurationGood
  <2>6. PICK r : r = ReadConfiguration(p, u, prev)
    OBVIOUS
  <2>7. GoodNode(p, CommitConfiguration(r))
    BY <2>5, <2>6, CommitConfigurationGood
  <2> QED BY <2>6, <2>7
<1> HIDE DEF kept, done, reply
<1>8. l.term < s.term => GoodNode(p, reply.after)
  BY <1>3
<1>9. ~ (l.term < s.term) /\ prev > LastIndexOf(s.log) => GoodNode(p, reply.after)
  BY <1>2, <1>3
<1>10. ASSUME ~ (l.term < s.term), ~ (prev > LastIndexOf(s.log))
       PROVE  GoodNode(p, reply.after)
  <2>1. prev <= LastIndexOf(s.log)
    BY <1>1, <1>4, <1>10, LogType
  <2> QED BY <1>3, <1>6, <1>7, <1>10, <2>1
<1>11. GoodNode(p, reply.after)
  BY <1>8, <1>9, <1>10
<1> QED BY <1>11 DEF reply

(* The leader's side.                                                       *)
LEMMA CaughtUpGood ==
  ASSUME NEW n, NEW l, GoodNode(n, l), NEW p \in l.peers, NEW last
  PROVE  /\ GoodNode(n, CaughtUp(l, p, last))
         /\ CaughtUp(l, p, last).conf = l.conf
<1>1. p \in Node
  BY ProcessFields DEF GoodNode
<1>2. p \in l.rights => l.rights \union {p} = l.rights
  OBVIOUS
<1>3. p \notin l.rights => l.conf.state = "STAGING"
  BY DEF GoodNode, RightsGiven
<1>4. GoodNode(n, [l EXCEPT !.rights = @ \union {p}])
      /\ [l EXCEPT !.rights = @ \union {p}].conf = l.conf
  BY <1>1, <1>2, <1>3 DEF GoodNode, Processes, RightsGiven
<1> QED BY <1>4 DEF CaughtUp

LEMMA KnownGood ==
  ASSUME NEW n, NEW l, GoodNode(n, l), NEW p, NEW last \in Nat \union {-1}
  PROVE  /\ GoodNode(n, Known(l, p, last))
         /\ Known(l, p, last).conf = l.conf /\ Known(l, p, last).rights = l.rights
         /\ Known(l, p, last).peers = l.peers
<1> DEFINE next == [l.next EXCEPT ![p] = last + 1]
           match == [l.match EXCEPT ![p] = last]
<1>1. next \in [Node -> Nat] /\ match \in [Node -> Nat \union {-1}]
  <2>1. l.next \in [Node -> Nat] /\ l.match \in [Node -> Nat \union {-1}]
    BY ProcessFields DEF GoodNode
  <2>2. last + 1 \in Nat
    OBVIOUS
  <2> QED BY <2>1, <2>2
<1>2. Known(l, p, last) = [l EXCEPT !.next = next, !.match = match]
  BY DEF GoodNode, Known, Processes
<1> HIDE DEF next, match
<1> QED BY <1>1, <1>2 DEF GoodNode, Processes, RightsGiven

LEMMA CommitAsLeaderGood ==
  ASSUME NEW n, NEW l, GoodNode(n, l), NEW last \in Nat
  PROVE  /\ GoodNode(n, CommitAsLeader(l, last))
         /\ l.conf.state = "STAGING" => /\ CommitAsLeader(l, last).rights = l.rights
                                        /\ CommitAsLeader(l, last).peers = l.peers
<1> DEFINE t == [l EXCEPT !.commit = last]
           c == [l.conf EXCEPT !.state = "JOINT"]
<1>1. GoodNode(n, t) /\ t.conf = l.conf /\ t.rights = l.rights /\ t.peers = l.peers
  BY DEF GoodNode, Processes, RightsGiven
<1>2. CommitAsLeader(l, last) =
        IF l.conf.state = "JOINT_NEW" /\ last >= l.conf.index2 THEN UpdateConfigurationFinish(t)
        ELSE IF l.conf.state = "OLD_JOINT" /\ last >= l.conf.index
             THEN [t EXCEPT !.conf.state = "JOINT"] ELSE t
  BY Zenon DEF CommitAsLeader
<1> HIDE DEF t
<1>3. CASE l.conf.state = "JOINT_NEW"
  <2>1. t.conf.rem \in SUBSET Node
    BY <1>1, ProcessFields DEF GoodNode
  <2>2. GoodNode(n, UpdateConfigurationFinish(t))
    BY <1>1, <1>3, <2>1, FinishGood DEF UpdateConfigurationFinish
  <2> QED BY <1>1, <1>2, <1>3, <2>2
<1>4. CASE l.conf.state = "OLD_JOINT"
  <2>1. c \in Confs
    <3>1. PICK r \in Confs : r = l.conf
      BY ProcessFields DEF GoodNode
    <3>2. [r EXCEPT !.state = "JOINT"] \in Confs
      BY DEF Confs
    <3> QED BY <3>1, <3>2
  <2>2. [t EXCEPT !.conf.state = "JOINT"] = [t EXCEPT !.conf = c]
    BY <1>1, ProcessFields DEF GoodNode, Processes, Confs
  <2>3. t.rights = t.peers
    BY <1>1, <1>4 DEF GoodNode, RightsGiven
  <2> HIDE DEF c
  <2>4. GoodNode(n, [t EXCEPT !.conf = c])
    BY <1>1, <2>1, <2>3, ConfGood
  <2> QED BY <1>1, <1>2, <1>4, <2>2, <2>4
<1>5. CASE l.conf.state \notin {"JOINT_NEW", "OLD_JOINT"}
  BY <1>1, <1>2, <1>5
<1> QED BY <1>3, <1>4, <1>5

LEMMA OnAppendEntriesSuccessGood ==
  ASSUME NEW n, NEW l, GoodNode(n, l), NEW p \in l.peers, NEW last \in Nat \union {-1}
  PROVE  GoodNode(n, OnAppendEntriesSuccess(n, l, p, last))
<1> DEFINE b == CaughtUp(l, p, last)
           i == Min({last, LastIndexOf(l.log)})
           t == Known(b, p, i)
           u == IF CanCommit(n, t, last) THEN CommitAsLeader(t, last) ELSE t
<1>1. OnAppendEntriesSuccess(n, l, p, last) =
        IF StagingEnds(l, t, p) THEN UpdateConfigurationJoint(u) ELSE u
  BY Zenon DEF OnAppendEntriesSuccess
<1>2. GoodNode(n, b) /\ b.conf = l.conf
  BY CaughtUpGood
<1>3. i \in Nat \union {-1}
  <2>1. l.log \in Seq(LogEntries)
    BY ProcessFields DEF GoodNode
  <2>2. LastIndexOf(l.log) \in Nat \union {-1}
    BY <2>1, LogType
  <2>3. last \in Int /\ LastIndexOf(l.log) \in Int
    BY <2>2
  <2> QED BY <2>2, <2>3, LesserNumber
<1> HIDE DEF b, i
<1>4. GoodNode(n, t) /\ t.conf = l.conf
  BY <1>2, <1>3, KnownGood
<1> HIDE DEF t
<1>5. GoodNode(n, u) /\ (l.conf.state = "STAGING" => u.rights = t.rights /\ u.peers = t.peers)
  <2>1. CanCommit(n, t, last) => last \in Nat
    <3>1. t.commit \in Nat \union {-1}
      BY <1>4, ProcessFields DEF GoodNode
    <3> QED BY <3>1 DEF CanCommit
  <2> QED BY <1>4, <2>1, CommitAsLeaderGood
<1> HIDE DEF u
<1>6. ASSUME StagingEnds(l, t, p)
      PROVE  GoodNode(n, UpdateConfigurationJoint(u))
  <2>1. l.conf.state = "STAGING"
    BY <1>6 DEF StagingEnds, GoodNode, RightsGiven
  <2>2. u.rights = u.peers
    BY <1>5, <1>6, <2>1 DEF StagingEnds
  <2> QED BY <1>5, <2>2, UpdateConfigurationJointGood
<1> QED BY <1>1, <1>5, <1>6

LEMMA OnAppendEntriesResponseGood ==
  ASSUME NEW n, NEW l, GoodNode(n, l), NEW p \in l.peers, NEW reply, NEW q, GoodNode(q, reply.after)
  PROVE  GoodNode(n, OnAppendEntriesResponse(n, l, p, reply))
<1> DEFINE last == LastIndexOf(reply.after.log)
<1>1. reply.after.log \in Seq(LogEntries) /\ reply.after.term \in 0 .. MaxTerm
  BY ProcessFields DEF GoodNode
<1>2. last \in Nat \union {-1}
  BY <1>1, LogType
<1>3. PICK b : b = BecomeFollower(l, reply.after.term)
  OBVIOUS
<1>4. GoodNode(n, b)
  BY <1>1, <1>3, BecomeFollowerGood
<1>5. GoodNode(n, [b EXCEPT !.leader = None])
  BY <1>4 DEF GoodNode, Processes, RightsGiven
<1>6. OnAppendEntriesResponse(n, l, p, reply) \in
        {[b EXCEPT !.leader = None], OnAppendEntriesSuccess(n, l, p, last), Known(l, p, last)}
  BY <1>3, Zenon DEF OnAppendEntriesResponse
<1> HIDE DEF last
<1>7. GoodNode(n, OnAppendEntriesSuccess(n, l, p, last)) /\ GoodNode(n, Known(l, p, last))
  BY <1>2, OnAppendEntriesSuccessGood, KnownGood
<1> QED BY <1>5, <1>6, <1>7
-----------------------------------------------------------------------------
(* The steps.                                                               *)

AllGood == node = [n \in Node |-> node[n]] /\ \A n \in Node : GoodNode(n, node[n])

LEMMA InitAllGood == Init => AllGood
<1> SUFFICES ASSUME Init PROVE AllGood
  OBVIOUS
<1>1. ASSUME NEW n \in Node PROVE GoodNode(n, Process(Members \ {n}))
  BY BlankType DEF GoodNode, RightsGiven, Process, Processes
<1> QED BY <1>1 DEF Init, AllGood

(* One node's record changes, or those of a sender and of a receiver.        *)
LEMMA OneChange ==
  ASSUME AllGood, NEW n \in Node, NEW s, GoodNode(n, s), node' = [node EXCEPT ![n] = s]
  PROVE  AllGood'
BY DEF AllGood

LEMMA TwoChanges ==
  ASSUME AllGood, NEW n \in Node, NEW p \in Node, NEW s, GoodNode(p, s), NEW t, GoodNode(n, t),
         node' = [node EXCEPT ![p] = s, ![n] = t]
  PROVE  AllGood'
BY DEF AllGood

StagingConf(O, A, R) == [Blank EXCEPT !.state = "STAGING", !.app = A, !.rem = R, !.old = O]

LEMMA StagingConfType ==
  ASSUME NEW O \in SUBSET Node, NEW A \in SUBSET Node, NEW R \in SUBSET Node
  PROVE  StagingConf(O, A, R) \in Confs /\ StagingConf(O, A, R).state = "STAGING"
<1>1. PICK b \in Confs : b = Blank
  BY BlankType
<1>2. [b EXCEPT !.state = "STAGING", !.app = A, !.rem = R, !.old = O] \in Confs
  BY DEF Confs
<1>3. [b EXCEPT !.state = "STAGING", !.app = A, !.rem = R, !.old = O].state = "STAGING"
  BY DEF Confs
<1> QED BY <1>1, <1>2, <1>3 DEF StagingConf

LEMMA UpdateConfigurationKeeps ==
  ASSUME AllGood, NEW n \in Node, NEW ch \in Changes, UpdateConfiguration(n, ch.app, ch.rem)
  PROVE  AllGood'
<1> DEFINE app    == ch.app
           rem    == ch.rem
           s      == node[n]
           conf   == [Blank EXCEPT !.state = "STAGING", !.app = app, !.rem = rem,
                                   !.old = s.peers \union {n}]
           t      == [s EXCEPT !.conf = conf]
           staged == WithPeers(t, app \ {n})
           waits  == [staged EXCEPT !.rights = @ \ app]
<1>1. GoodNode(n, s)
  BY DEF AllGood
<1>2. app \in SUBSET Node /\ rem \in SUBSET Node
  OBVIOUS
<1>3. s.conf = Blank
  BY Zenon DEF UpdateConfiguration
<1>4. node' = [node EXCEPT ![n] = IF app = {} THEN UpdateConfigurationJoint(staged) ELSE waits]
  BY Zenon DEF UpdateConfiguration
<1> HIDE DEF app, rem, s
<1>5. s.rights = s.peers
  BY <1>1, <1>3, BlankType DEF GoodNode, RightsGiven
<1>6. conf \in Confs /\ conf.state = "STAGING"
  <2>1. s.peers \union {n} \subseteq Node
    BY <1>1, ProcessFields DEF GoodNode
  <2>2. PICK O \in SUBSET Node : O = s.peers \union {n}
    BY <2>1
  <2>3. conf = StagingConf(O, app, rem)
    BY <2>2, Zenon DEF StagingConf
  <2> HIDE DEF conf
  <2> QED BY <1>2, <2>3, StagingConfType
<1> HIDE DEF conf
<1>7. GoodNode(n, t) /\ t.conf = conf /\ t.rights = t.peers
  BY <1>1, <1>5, <1>6, ConfGood
<1> HIDE DEF t
<1>8. GoodNode(n, staged) /\ staged.conf = conf
  <2>1. app \ {n} \in SUBSET Node /\ n \notin app \ {n}
    BY <1>2
  <2> QED BY <1>7, <2>1, WithPeersGood
<1>9. staged.rights = staged.peers
  BY <1>7 DEF WithPeers, GoodNode, Processes
<1> HIDE DEF staged
<1>10. GoodNode(n, UpdateConfigurationJoint(staged))
  BY <1>8, <1>9, UpdateConfigurationJointGood
<1>11. GoodNode(n, waits)
  BY <1>6, <1>8 DEF GoodNode, Processes, RightsGiven
<1> HIDE DEF waits
<1> QED BY <1>4, <1>10, <1>11, OneChange

LEMMA OnTimerConfigurationKeeps ==
  ASSUME AllGood, NEW n \in Node, OnTimerConfiguration(n)
  PROVE  AllGood'
<1> DEFINE s == node[n]
           c == [s.conf EXCEPT !.state = "JOINT_NEW", !.index2 = Len(s.log)]
           r == [s EXCEPT !.conf.state = "JOINT_NEW", !.conf.index2 = Len(s.log)]
           t == [s EXCEPT !.conf = c]
<1>1. GoodNode(n, s)
  BY DEF AllGood
<1>2. s.conf.state = "JOINT"
  BY Zenon DEF OnTimerConfiguration
<1>3. r = t
  BY <1>1, ProcessFields DEF GoodNode, Processes, Confs
<1>9. node' = [node EXCEPT ![n] = IF s.state = "Leader" THEN Logged(r, "TRANS_NEW") ELSE r]
  BY Zenon DEF OnTimerConfiguration
<1> HIDE DEF r
<1>4. node' = [node EXCEPT ![n] = IF s.state = "Leader" THEN Logged(t, "TRANS_NEW") ELSE t]
  BY <1>3, <1>9
<1> HIDE DEF s
<1>5. c \in Confs
  <2>1. s.conf \in Confs /\ Len(s.log) \in Int
    BY <1>1, ProcessFields, LenProperties DEF GoodNode
  <2> QED BY <2>1 DEF Confs
<1>6. s.rights = s.peers
  BY <1>1, <1>2 DEF GoodNode, RightsGiven
<1> HIDE DEF c
<1>7. GoodNode(n, t)
  BY <1>1, <1>5, <1>6, ConfGood
<1> HIDE DEF t
<1>8. GoodNode(n, Logged(t, "TRANS_NEW"))
  BY <1>7, LoggedGood
<1> QED BY <1>4, <1>7, <1>8, OneChange

LEMMA OnTimerElectionKeeps ==
  ASSUME AllGood, NEW n \in Node, OnTimerElection(n)
  PROVE  AllGood'
<1> DEFINE s == node[n]
           t == [s EXCEPT !.state = "Candidate", !.term = @ + 1, !.voteFor = n,
                          !.leader = None, !.votes = {}]
<1>1. GoodNode(n, s)
  BY DEF AllGood
<1>2. s.term < MaxTerm /\ node' = [node EXCEPT ![n] = t]
  BY Zenon DEF OnTimerElection
<1> HIDE DEF s
<1>3. s.term + 1 \in 0 .. MaxTerm
  BY <1>1, <1>2, ProcessFields DEF GoodNode
<1>4. GoodNode(n, t)
  BY <1>1, <1>3 DEF GoodNode, Processes, RightsGiven
<1> HIDE DEF t
<1> QED BY <1>2, <1>4, OneChange

LEMMA DoLogKeeps ==
  ASSUME AllGood, NEW n \in Node, DoLog(n)
  PROVE  AllGood'
<1>1. GoodNode(n, Logged(node[n], "DATA"))
  BY LoggedGood DEF AllGood
<1>2. node' = [node EXCEPT ![n] = Logged(node[n], "DATA")]
  BY DEF DoLog, AllGood
<1> QED BY <1>1, <1>2, OneChange

LEMMA RestartKeeps ==
  ASSUME AllGood, NEW n \in Node, Restart(n)
  PROVE  AllGood'
<1> DEFINE s == node[n]
           P == LoadedPeers(n, s)
           t == [Process(P) EXCEPT !.term = s.term, !.voteFor = s.voteFor,
                                   !.log = s.log, !.conf = s.conf]
<1>1. GoodNode(n, s)
  BY DEF AllGood
<1>2. node' = [node EXCEPT ![n] = t]
  BY Zenon DEF Restart
<1> HIDE DEF s
<1>3. P \subseteq Node /\ n \notin P
  BY <1>1, ProcessFields DEF GoodNode, LoadedPeers
<1> HIDE DEF P
<1>4. s.term \in 0 .. MaxTerm /\ s.voteFor \in Node \union {None} /\ s.log \in Seq(LogEntries)
      /\ s.conf \in Confs
  BY <1>1, ProcessFields DEF GoodNode
<1>5. GoodNode(n, t)
  BY <1>3, <1>4 DEF GoodNode, RightsGiven, Process, Processes
<1> HIDE DEF t
<1> QED BY <1>2, <1>5, OneChange

LEMMA RequestVoteKeeps ==
  ASSUME AllGood, NEW n \in Node, NEW p \in Node, NEW answered, RequestVote(n, p, answered)
  PROVE  AllGood'
<1> DEFINE c == node[n]
           s == OnVoteRequest(node[p], n, c)
           t == IF answered THEN OnVoteResponse(n, c, p, s.term, Grants(node[p], n, c)) ELSE c
<1>1. GoodNode(n, c) /\ GoodNode(p, node[p]) /\ c.term \in 0 .. MaxTerm
  BY ProcessFields DEF AllGood, GoodNode
<1>2. node' = [node EXCEPT ![p] = s, ![n] = t]
  BY Zenon DEF RequestVote
<1> HIDE DEF c
<1>3. GoodNode(p, s)
  BY <1>1, OnVoteRequestGood
<1> HIDE DEF s
<1>4. s.term \in 0 .. MaxTerm
  BY <1>3, ProcessFields DEF GoodNode
<1>5. GoodNode(n, t)
  BY <1>1, <1>4, OnVoteResponseGood
<1> HIDE DEF t
<1> QED BY <1>2, <1>3, <1>5, TwoChanges

LEMMA AppendEntriesKeeps ==
  ASSUME AllGood, NEW n \in Node, NEW p \in Node, NEW answered, AppendEntries(n, p, answered)
  PROVE  AllGood'
<1> DEFINE l == node[n]
           Reply(prevTerm) == OnAppendEntriesRequest(p, node[p], n, l, prevTerm)
<1>1. PICK prevTerm : node' = [node EXCEPT ![p] = Reply(prevTerm).after,
        ![n] = IF answered THEN OnAppendEntriesResponse(n, l, p, Reply(prevTerm)) ELSE l]
  BY Zenon DEF AppendEntries
<1>2. p \in l.peers
  BY Zenon DEF AppendEntries
<1>3. GoodNode(n, l) /\ GoodNode(p, node[p])
  BY DEF AllGood
<1> HIDE DEF l
<1>4. GoodNode(p, Reply(prevTerm).after)
  BY <1>3, OnAppendEntriesRequestGood
<1>5. PICK reply : reply = Reply(prevTerm)
  OBVIOUS
<1> HIDE DEF Reply
<1>6. GoodNode(n, OnAppendEntriesResponse(n, l, p, reply))
  BY <1>2, <1>3, <1>4, <1>5, OnAppendEntriesResponseGood
<1>7. GoodNode(n, IF answered THEN OnAppendEntriesResponse(n, l, p, reply) ELSE l)
  BY <1>3, <1>6
<1> QED BY <1>1, <1>4, <1>5, <1>7, TwoChanges

LEMMA NextAllGood == AllGood /\ [Next]_vars => AllGood'
<1> SUFFICES ASSUME AllGood, [Next]_vars PROVE AllGood'
  OBVIOUS
<1>1. CASE UNCHANGED vars
  BY <1>1 DEF vars, AllGood
<1>2. CASE Next
  BY <1>2, UpdateConfigurationKeeps, OnTimerConfigurationKeeps, OnTimerElectionKeeps, DoLogKeeps,
     RestartKeeps, RequestVoteKeeps, AppendEntriesKeeps, Zenon DEF Next
<1> QED BY <1>1, <1>2

LEMMA AlwaysAllGood == Spec => []AllGood
<1> QED BY InitAllGood, NextAllGood, PTL DEF Spec
-----------------------------------------------------------------------------
(* The records of the nodes are well formed, whatever changes are asked for, *)
(* under way at a crash or met by followers in their logs (node_conf.cpp).   *)
THEOREM TypeCorrect == Spec => []TypeOK
<1>1. AllGood => TypeOK
  BY DEF AllGood, GoodNode, TypeOK
<1> QED BY <1>1, AlwaysAllGood, PTL

(* Whoever is counted in a joint decision, or in one of C_new, has voting    *)
(* rights: the assertion of enough_votes_trans_conf never fails.            *)
THEOREM RightsWhenCounted == Spec => []CountedHaveRights
<1>1. AllGood => CountedHaveRights
  BY DEF AllGood, GoodNode, RightsGiven, CountedHaveRights, BothDecide, NewDecides
<1> QED BY <1>1, AlwaysAllGood, PTL
-----------------------------------------------------------------------------
(***************************************************************************)
(* While the first term lasts.  Nobody leads before a candidate of term 1  *)
(* has the votes of a majority of the first members; from then on it alone *)
(* leads, whatever joins, leaves or restarts, and all the logs are         *)
(* prefixes of its own.                                                    *)
(***************************************************************************)
FirstTerm == \A n \in Node : node[n].term <= 1

PrefixOf(a, b) == Len(a) <= Len(b) /\ \A i \in 1 .. Len(a) : a[i] = b[i]

(* A node that no leader has told anything.                                 *)
Fresh(n, s) ==
  /\ s.log = <<>> /\ s.conf = Blank
  /\ s.peers = Members \ {n} /\ s.rights = Members \ {n}
FreshUntilTold(n, s) ==
  /\ s.term = 0 \/ s.state = "Candidate" => Fresh(n, s)
  /\ s.state = "Candidate" => s.term = 1 /\ s.voteFor = n

NoLeaderYet ==
  /\ committed = {}
  /\ \A n \in Node : /\ Fresh(n, node[n]) /\ FreshUntilTold(n, node[n])
                     /\ node[n].state # "Leader" /\ node[n].commit = -1
                     /\ \A p \in Node : node[n].match[p] = -1
  /\ \A d \in Node : node[d].state = "Candidate" =>
       \A p \in node[d].votes :
         node[p].term = 1 /\ node[p].voteFor = d /\ node[p].state = "Follower"

(* A change a node knows of is one of its log; when it left C_old behind,   *)
(* the joint configuration was committed.                                   *)
KnowsFrom(s, C) ==
  /\ BothDecide(s.conf) \/ NewDecides(s.conf) =>
       /\ s.conf.index \in 0 .. LastIndexOf(s.log)
       /\ LET e == EntryAt(s.log, s.conf.index)
          IN e.cmd = "TRANS" /\ e.old = s.conf.old /\ e.app = s.conf.app /\ e.rem = s.conf.rem
  /\ s.conf.state \in {"JOINT", "JOINT_NEW"} => s.conf.index <= C

Behind(s, L, C) ==
  /\ PrefixOf(s.log, L)
  /\ s.commit <= C /\ s.commit <= LastIndexOf(s.log)
  /\ KnowsFrom(s, C)

(* x was elected by itself and V, who keep their votes; L is its log and C  *)
(* the last index it committed.                                             *)
Electors(x, V) ==
  V \subseteq Members \ {x} /\ MoreThanHalf(1 + Cardinality(V), Cardinality(Members))
Subject(x, V, L, C, n, s) ==
  /\ Behind(s, L, C)
  /\ FreshUntilTold(n, s)
  /\ s.state = "Leader" => n = x
  /\ s.state = "Candidate" => s.votes \cap (V \union {x}) = {}
  /\ n \in V \union {x} => s.term = 1 /\ s.voteFor = x /\ s.state # "Candidate"

(* The entries of a change that the leader has not committed.               *)
Uncommitted(s) ==
  {i \in 0 .. LastIndexOf(s.log) : i > s.commit /\ EntryAt(s.log, i).cmd # "DATA"}
Pending(s) ==
  IF s.conf.state = "OLD_JOINT" THEN {s.conf.index}
  ELSE IF s.conf.state = "JOINT_NEW" THEN {s.conf.index2} ELSE {}
Conducts(x, s) ==
  /\ Uncommitted(s) = Pending(s)
  /\ s.conf # Blank => x \in s.conf.old
  /\ s.conf.state = "JOINT_NEW" => /\ s.conf.index < s.conf.index2
                                   /\ EntryAt(s.log, s.conf.index2).cmd = "TRANS_NEW"
KnowsPeers(s) ==
  \A p \in Node : s.match[p] <= LastIndexOf(node[p].log) /\ s.next[p] <= Len(node[p].log)

HoldersOf(i) == {n \in Node : i <= LastIndexOf(node[n].log)}
OnMajorities(L, i) ==
  LET e == EntryAt(L, i) IN
  /\ e.cmd = "TRANS" => MajorityOf(HoldersOf(i), e.old) /\ MajorityOf(HoldersOf(i), New(e))
  /\ e.cmd = "TRANS_NEW" => \E j \in 0 .. i - 1 : /\ EntryAt(L, j).cmd = "TRANS"
                                                  /\ MajorityOf(HoldersOf(i), New(EntryAt(L, j)))
JointBefore(L, C) ==
  \A j \in 0 .. LastIndexOf(L) : EntryAt(L, j).cmd = "TRANS_NEW" =>
    \A i \in 0 .. j : EntryAt(L, i).cmd = "TRANS" => i <= C
OfFirstTerm(L) == \A i \in 0 .. LastIndexOf(L) : EntryAt(L, i).term = 1
UpTo(L, C) == {[index |-> i, entry |-> EntryAt(L, i)] : i \in 0 .. C}

Under(x, V, C) ==
  /\ Electors(x, V)
  /\ C <= LastIndexOf(node[x].log)
  /\ committed = UpTo(node[x].log, C)
  /\ OfFirstTerm(node[x].log)
  /\ \A n \in Node : Subject(x, V, node[x].log, C, n, node[n])
  /\ node[x].state = "Leader" =>
       node[x].commit = C /\ Conducts(x, node[x]) /\ KnowsPeers(node[x])
  /\ \A i \in 0 .. C : OnMajorities(node[x].log, i)
  /\ JointBefore(node[x].log, C)

OneLeader ==
  NoLeaderYet \/ \E x \in Members, V \in SUBSET Members, C \in Nat \union {-1} : Under(x, V, C)
-----------------------------------------------------------------------------
(* Lengths and prefixes of logs.                                            *)
LEMMA LogFacts ==
  ASSUME NEW log \in Seq(LogEntries)
  PROVE  /\ Len(log) \in Nat /\ LastIndexOf(log) = Len(log) - 1
         /\ \A i \in 0 .. LastIndexOf(log) : EntryAt(log, i) = log[i + 1] /\ i + 1 \in 1 .. Len(log)
         /\ log = <<>> <=> Len(log) = 0
<1>1. Len(log) \in Nat
  BY LenProperties
<1>2. log = <<>> <=> Len(log) = 0
  BY EmptySeq
<1> QED BY <1>1, <1>2 DEF LastIndexOf, EntryAt

LEMMA PrefixFacts ==
  ASSUME NEW a \in Seq(LogEntries), NEW b \in Seq(LogEntries), PrefixOf(a, b)
  PROVE  /\ LastIndexOf(a) <= LastIndexOf(b)
         /\ \A i \in 0 .. LastIndexOf(a) : EntryAt(a, i) = EntryAt(b, i)
         /\ \A c \in Seq(LogEntries) : PrefixOf(b, c) => PrefixOf(a, c)
         /\ PrefixOf(a, a)
<1>1. Len(a) \in Nat /\ Len(b) \in Nat /\ Len(a) <= Len(b)
  BY LenProperties DEF PrefixOf
<1>2. \A i \in 1 .. Len(a) : a[i] = b[i]
  BY DEF PrefixOf
<1>3. LastIndexOf(a) = Len(a) - 1 /\ LastIndexOf(b) = Len(b) - 1
  BY DEF LastIndexOf
<1>4. \A i \in 0 .. LastIndexOf(a) : EntryAt(a, i) = EntryAt(b, i)
  BY <1>1, <1>2, <1>3 DEF EntryAt
<1>5. ASSUME NEW c \in Seq(LogEntries), PrefixOf(b, c) PROVE PrefixOf(a, c)
  <2>1. Len(c) \in Nat
    BY LenProperties
  <2> QED BY <1>1, <1>2, <1>5, <2>1 DEF PrefixOf
<1>6. PrefixOf(a, a)
  BY <1>1 DEF PrefixOf
<1> QED BY <1>1, <1>3, <1>4, <1>5, <1>6

LEMMA AppendedFacts ==
  ASSUME NEW a \in Seq(LogEntries), NEW e \in LogEntries
  PROVE  /\ Append(a, e) \in Seq(LogEntries) /\ Len(Append(a, e)) = Len(a) + 1
         /\ PrefixOf(a, Append(a, e)) /\ LastIndexOf(Append(a, e)) = LastIndexOf(a) + 1
         /\ EntryAt(Append(a, e), LastIndexOf(a) + 1) = e
         /\ \A i \in 0 .. LastIndexOf(a) : EntryAt(Append(a, e), i) = EntryAt(a, i)
<1>1. Append(a, e) \in Seq(LogEntries) /\ Len(Append(a, e)) = Len(a) + 1
      /\ \A i \in 1 .. Len(a) : Append(a, e)[i] = a[i]
      /\ Append(a, e)[Len(a) + 1] = e
  BY AppendProperties
<1>2. Len(a) \in Nat
  BY LenProperties
<1>3. PICK b \in Seq(LogEntries) : b = Append(a, e)
  BY <1>1
<1> QED BY <1>1, <1>2, <1>3 DEF PrefixOf, LastIndexOf, EntryAt

LEMMA MajorityGrows ==
  ASSUME NEW S \in SUBSET Node, NEW T \in SUBSET Node, S \subseteq T, NEW C \in SUBSET Node,
         MajorityOf(S, C)
  PROVE  MajorityOf(T, C)
<1>1. IsFiniteSet(T \cap C) /\ IsFiniteSet(C)
  BY FS_Subset, NodeAssumption
<1>2. Cardinality(S \cap C) \in Nat /\ Cardinality(T \cap C) \in Nat /\ Cardinality(C) \in Nat
      /\ Cardinality(S \cap C) <= Cardinality(T \cap C)
  <2>1. S \cap C \subseteq T \cap C
    OBVIOUS
  <2> QED BY <1>1, <2>1, FS_Subset, FS_CardinalityType
<1> QED BY <1>2 DEF MajorityOf, MoreThanHalf

(* Two majorities of the first members meet; a candidate who is not one of  *)
(* them needs half of them at least.                                        *)
LEMMA ElectorsMeet ==
  ASSUME NEW x \in Members, NEW V, Electors(x, V), NEW d \in Node, d \notin V \union {x},
         NEW W, W \subseteq Members \ {d}, W \cap (V \union {x}) = {},
         MoreThanHalf(1 + Cardinality(W), 1 + Cardinality(Members \ {d}))
  PROVE  FALSE
<1>1. IsFiniteSet(Members) /\ IsFiniteSet(V) /\ IsFiniteSet(W) /\ V \subseteq Members \ {x}
  BY FS_Subset, NodeAssumption DEF Electors
<1>2. IsFiniteSet(V \union {x}) /\ Cardinality(V \union {x}) = Cardinality(V) + 1
  BY <1>1, FS_AddElement
<1>3. Cardinality(V) \in Nat /\ Cardinality(W) \in Nat /\ Cardinality(Members) \in Nat
  BY <1>1, FS_CardinalityType
<1>4. Cardinality(V) + 1 > Cardinality(Members) \div 2
  BY <1>3 DEF Electors, MoreThanHalf
<1>5. CASE d \in Members
  <2>1. Cardinality(Members \ {d}) = Cardinality(Members) - 1
    BY <1>1, <1>5, FS_RemoveElement
  <2>2. IsFiniteSet(W \union {d}) /\ Cardinality(W \union {d}) = Cardinality(W) + 1
    BY <1>1, FS_AddElement
  <2>3. (W \union {d}) \cap (V \union {x}) = {} /\ (W \union {d}) \union (V \union {x}) \subseteq Members
    BY <1>1, <1>5
  <2>4. Cardinality((W \union {d}) \union (V \union {x}))
          = Cardinality(W \union {d}) + Cardinality(V \union {x}) - Cardinality((W \union {d}) \cap (V \union {x}))
    BY <1>2, <2>2, FS_Union
  <2>5. Cardinality((W \union {d}) \cap (V \union {x})) = 0
    BY <2>3, FS_EmptySet
  <2>6. Cardinality((W \union {d}) \union (V \union {x})) <= Cardinality(Members)
    BY <1>1, <2>3, FS_Subset
  <2>7. 1 + Cardinality(W) > Cardinality(Members) \div 2
    BY <1>3, <2>1 DEF MoreThanHalf
  <2> QED BY <1>2, <1>3, <1>4, <2>2, <2>4, <2>5, <2>6, <2>7
<1>6. CASE d \notin Members
  <2>1. Members \ {d} = Members
    BY <1>6
  <2>2. W \union (V \union {x}) \subseteq Members
    BY <1>1
  <2>3. Cardinality(W \union (V \union {x}))
          = Cardinality(W) + Cardinality(V \union {x}) - Cardinality(W \cap (V \union {x}))
    BY <1>1, <1>2, FS_Union
  <2>4. Cardinality(W \cap (V \union {x})) = 0
    BY FS_EmptySet
  <2>5. Cardinality(W \union (V \union {x})) <= Cardinality(Members)
    BY <1>1, <2>2, FS_Subset
  <2>6. 1 + Cardinality(W) > (1 + Cardinality(Members)) \div 2
    BY <2>1 DEF MoreThanHalf
  <2> QED BY <1>2, <1>3, <1>4, <2>3, <2>4, <2>5, <2>6
<1> QED BY <1>5, <1>6
-----------------------------------------------------------------------------
(* Logs only grow, so what is on a majority stays there.                    *)
LEMMA StepUnder ==
  ASSUME AllGood, AllGood', NEW x \in Members, NEW V, NEW C \in Nat \union {-1}, Under(x, V, C),
         NEW D \in Nat \union {-1}, C <= D, D <= LastIndexOf(node'[x].log),
         PrefixOf(node[x].log, node'[x].log), OfFirstTerm(node'[x].log),
         committed' = UpTo(node'[x].log, D),
         \A n \in Node : /\ Subject(x, V, node'[x].log, D, n, node'[n])
                         /\ Len(node[n].log) <= Len(node'[n].log),
         node'[x].state = "Leader" =>
           node'[x].commit = D /\ Conducts(x, node'[x]) /\ KnowsPeers(node[x])',
         \A i \in C + 1 .. D : OnMajorities(node[x].log, i)',
         JointBefore(node'[x].log, D)
  PROVE  Under(x, V, D)'
<1>1. node[x].log \in Seq(LogEntries) /\ node'[x].log \in Seq(LogEntries)
  BY ProcessFields DEF AllGood, GoodNode
<1>2. PICK a \in Seq(LogEntries), b \in Seq(LogEntries) : a = node[x].log /\ b = node'[x].log
  BY <1>1
<1>3. LastIndexOf(a) \in Nat \union {-1} /\ C <= LastIndexOf(a)
  BY <1>2, LogType DEF Under
<1>4. ASSUME NEW i \in 0 .. C
      PROVE  OnMajorities(node[x].log, i)'
  <2>1. /\ i \in 0 .. LastIndexOf(a) /\ EntryAt(a, i) \in LogEntries
        /\ \A j \in 0 .. i : EntryAt(b, j) = EntryAt(a, j) /\ EntryAt(a, j) \in LogEntries
    BY <1>2, <1>3, PrefixFacts, LogType
  <2>2. OnMajorities(a, i)
    BY <1>2 DEF Under
  <2>3. HoldersOf(i) \subseteq HoldersOf(i)' /\ HoldersOf(i) \subseteq Node /\ HoldersOf(i)' \subseteq Node
    <3>1. ASSUME NEW n \in Node PROVE LastIndexOf(node[n].log) <= LastIndexOf(node'[n].log)
                                      /\ LastIndexOf(node[n].log) \in Int /\ LastIndexOf(node'[n].log) \in Int
      <4>1. node[n].log \in Seq(LogEntries) /\ node'[n].log \in Seq(LogEntries)
        BY ProcessFields DEF AllGood, GoodNode
      <4>2. Len(node[n].log) \in Nat /\ Len(node'[n].log) \in Nat
        BY <4>1, LenProperties
      <4> QED BY <4>2 DEF LastIndexOf
    <3> QED BY <3>1 DEF HoldersOf
  <2>4. ASSUME NEW S \in SUBSET Node, MajorityOf(HoldersOf(i), S)
        PROVE  MajorityOf(HoldersOf(i)', S)
    BY <2>3, <2>4, MajorityGrows
  <2>5. \A e \in LogEntries : e.old \in SUBSET Node /\ New(e) \in SUBSET Node
    BY DEF LogEntries, New
  <2>6. OnMajorities(b, i)'
    BY <2>1, <2>2, <2>4, <2>5 DEF OnMajorities
  <2> QED BY <1>2, <2>6
<1>5. \A i \in 0 .. D : OnMajorities(node[x].log, i)'
  BY <1>4
<1> QED BY <1>5 DEF Under

LEMMA SubjectBehind ==
  ASSUME NEW x, NEW V, NEW C \in Nat \union {-1}, NEW D \in Nat \union {-1}, C <= D, NEW n, NEW s,
         GoodNode(n, s), NEW a \in Seq(LogEntries), NEW b \in Seq(LogEntries), PrefixOf(a, b),
         Subject(x, V, a, C, n, s)
  PROVE  Subject(x, V, b, D, n, s)
<1>1. s.log \in Seq(LogEntries) /\ s.commit \in Int /\ s.conf.index \in Int
  BY ProcessFields DEF GoodNode
<1>2. PrefixOf(s.log, b)
  BY <1>1, PrefixFacts DEF Subject, Behind
<1>3. s.commit <= D /\ s.commit <= LastIndexOf(s.log)
  BY <1>1 DEF Subject, Behind
<1>4. KnowsFrom(s, D)
  BY <1>1 DEF Subject, Behind, KnowsFrom
<1> QED BY <1>2, <1>3, <1>4 DEF Subject, Behind

(* Steps that leave the leader's record as it is.                           *)
LEMMA StepOfOthers ==
  ASSUME AllGood, AllGood', NEW x \in Members, NEW V, NEW C \in Nat \union {-1}, Under(x, V, C),
         node'[x] = node[x], committed' = committed,
         \A n \in Node \ {x} : /\ Subject(x, V, node[x].log, C, n, node'[n])
                               /\ Len(node[n].log) <= Len(node'[n].log)
  PROVE  Under(x, V, C)'
<1>1. \A n \in Node : Len(node[n].log) \in Nat /\ Len(node'[n].log) \in Nat
  BY ProcessFields, LenProperties DEF AllGood, GoodNode
<1>2. node[x].log \in Seq(LogEntries) /\ Subject(x, V, node[x].log, C, x, node[x])
  BY ProcessFields DEF AllGood, GoodNode, Under
<1>3. PrefixOf(node[x].log, node'[x].log)
  BY <1>1 DEF PrefixOf
<1>4. \A n \in Node : /\ Subject(x, V, node'[x].log, C, n, node'[n])
                      /\ Len(node[n].log) <= Len(node'[n].log)
  BY <1>1, <1>2
<1>5. KnowsPeers(node[x]) => KnowsPeers(node[x])'
  <2> SUFFICES ASSUME KnowsPeers(node[x]), NEW p \in Node
               PROVE  node'[x].match[p] <= LastIndexOf(node'[p].log) /\ node'[x].next[p] <= Len(node'[p].log)
    BY DEF KnowsPeers
  <2>1. node[x].match[p] <= LastIndexOf(node[p].log) /\ node[x].next[p] <= Len(node[p].log)
    BY DEF KnowsPeers
  <2>2. node[x].match[p] \in Int /\ node[x].next[p] \in Int
    <3>1. node[x].next \in [Node -> Nat] /\ node[x].match \in [Node -> Nat \union {-1}]
      BY ProcessFields DEF AllGood, GoodNode
    <3> QED BY <3>1
  <2>3. Len(node[p].log) \in Int /\ Len(node'[p].log) \in Int /\ Len(node[p].log) <= Len(node'[p].log)
    BY <1>1, <1>4
  <2>4. PICK m \in Int, i \in Int, k \in Int, j \in Int :
          m = node[x].match[p] /\ i = node[x].next[p] /\ k = Len(node[p].log) /\ j = Len(node'[p].log)
    BY <2>2, <2>3
  <2>5. m <= k - 1 /\ i <= k /\ k <= j
    BY <2>1, <2>3, <2>4 DEF LastIndexOf
  <2>6. m <= j - 1 /\ i <= j
    BY <2>5
  <2> QED BY <2>4, <2>6 DEF LastIndexOf
<1>6. node'[x].state = "Leader" =>
           node'[x].commit = C /\ Conducts(x, node'[x]) /\ KnowsPeers(node[x])'
  BY <1>5 DEF Under
<1>7. committed' = UpTo(node'[x].log, C) /\ C <= LastIndexOf(node'[x].log)
      /\ JointBefore(node'[x].log, C) /\ OfFirstTerm(node'[x].log)
  BY DEF Under
<1>8. \A i \in C + 1 .. C : OnMajorities(node[x].log, i)'
  OBVIOUS
<1> QED BY <1>3, <1>4, <1>6, <1>7, <1>8, StepUnder

(* Steps of the first leader, or of what became of it, that commit nothing. *)
LEMMA StepOfLeader ==
  ASSUME AllGood, AllGood', NEW x \in Members, NEW V, NEW C \in Nat \union {-1}, Under(x, V, C),
         NEW s, node' = [node EXCEPT ![x] = s], committed' = committed,
         PrefixOf(node[x].log, s.log), OfFirstTerm(s.log), Subject(x, V, s.log, C, x, s),
         s.state = "Leader" => s.commit = C /\ Conducts(x, s) /\ KnowsPeers(s),
         JointBefore(s.log, C)
  PROVE  Under(x, V, C)'
<1>1. x \in Node /\ node'[x] = s /\ \A n \in Node \ {x} : node'[n] = node[n]
  BY DEF AllGood
<1>2. \A n \in Node : GoodNode(n, node[n]) /\ GoodNode(n, node'[n])
  BY DEF AllGood
<1>3. PICK a \in Seq(LogEntries), b \in Seq(LogEntries) : a = node[x].log /\ b = s.log
  BY <1>1, <1>2, ProcessFields DEF GoodNode
<1>4. Len(a) \in Nat /\ Len(b) \in Nat /\ Len(a) <= Len(b)
  BY <1>3, LenProperties DEF PrefixOf
<1>5. LastIndexOf(a) <= LastIndexOf(b) /\ LastIndexOf(a) \in Int /\ LastIndexOf(b) \in Int
  BY <1>4 DEF LastIndexOf
<1>6. \A n \in Node : Len(node[n].log) \in Nat
  BY <1>2, ProcessFields, LenProperties DEF GoodNode
<1>7. \A n \in Node : /\ Subject(x, V, node'[x].log, C, n, node'[n])
                      /\ Len(node[n].log) <= Len(node'[n].log)
  <2>1. ASSUME NEW n \in Node \ {x} PROVE Subject(x, V, b, C, n, node[n])
    <3>1. Subject(x, V, a, C, n, node[n]) /\ PrefixOf(a, b)
      BY <1>3 DEF Under
    <3> QED BY <1>2, <3>1, SubjectBehind
  <2> QED BY <1>1, <1>3, <1>4, <1>6, <2>1
<1>8. C <= LastIndexOf(b) /\ UpTo(b, C) = UpTo(a, C) /\ committed' = UpTo(a, C)
  <2>1. C <= LastIndexOf(a) /\ committed = UpTo(a, C) /\ PrefixOf(a, b)
    BY <1>3 DEF Under
  <2>2. \A i \in 0 .. C : EntryAt(a, i) = EntryAt(b, i)
    BY <1>5, <2>1, PrefixFacts
  <2> QED BY <1>5, <2>1, <2>2 DEF UpTo
<1>9. KnowsPeers(s) => KnowsPeers(node[x])'
  <2> SUFFICES ASSUME KnowsPeers(s), NEW p \in Node
               PROVE  s.match[p] <= LastIndexOf(node'[p].log) /\ s.next[p] <= Len(node'[p].log)
    BY <1>1 DEF KnowsPeers
  <2>1. s.match[p] <= LastIndexOf(node[p].log) /\ s.next[p] <= Len(node[p].log)
    BY DEF KnowsPeers
  <2>2. s.match[p] \in Int /\ s.next[p] \in Int
    <3>1. s.next \in [Node -> Nat] /\ s.match \in [Node -> Nat \union {-1}]
      BY <1>1, <1>2, ProcessFields DEF GoodNode
    <3> QED BY <3>1
  <2>3. CASE p = x
    BY <1>1, <1>3, <1>4, <1>5, <2>1, <2>2, <2>3
  <2>4. CASE p # x
    BY <1>1, <2>1, <2>4
  <2> QED BY <2>3, <2>4
<1>10. \A i \in C + 1 .. C : OnMajorities(node[x].log, i)'
  OBVIOUS
<1> QED BY <1>1, <1>3, <1>7, <1>8, <1>9, <1>10, StepUnder
-----------------------------------------------------------------------------
(* The operators on one node's record.                                      *)
(* e is the entry that logging cmd at s appends.                            *)
LoggedAs(s, cmd, e) ==
  /\ e.term = s.term /\ e.cmd = cmd
  /\ cmd = "TRANS" => e.old = s.conf.old /\ e.app = s.conf.app /\ e.rem = s.conf.rem
  /\ Logged(s, cmd) = [s EXCEPT !.log = Append(s.log, e)]
  /\ Logged(s, cmd).log = Append(s.log, e)

LEMMA LoggedFields ==
  ASSUME NEW n, NEW s, GoodNode(n, s), NEW cmd \in {"DATA", "TRANS", "TRANS_NEW"}
  PROVE  \E e \in LogEntries : LoggedAs(s, cmd, e)
<1> DEFINE e == [term |-> s.term, cmd |-> cmd, old |-> IF cmd = "TRANS" THEN s.conf.old ELSE {},
                 app |-> IF cmd = "TRANS" THEN s.conf.app ELSE {},
                 rem |-> IF cmd = "TRANS" THEN s.conf.rem ELSE {}]
<1>1. e \in LogEntries
  BY ProcessFields DEF GoodNode, LogEntries
<1>2. Logged(s, cmd) = [s EXCEPT !.log = Append(@, e)]
  BY Zenon DEF Logged
<1>3. e.term = s.term /\ e.cmd = cmd
      /\ (cmd = "TRANS" => e.old = s.conf.old /\ e.app = s.conf.app /\ e.rem = s.conf.rem)
  OBVIOUS
<1> HIDE DEF e
<1>4. [s EXCEPT !.log = Append(@, e)] = [s EXCEPT !.log = Append(s.log, e)]
      /\ [s EXCEPT !.log = Append(s.log, e)].log = Append(s.log, e)
  BY DEF GoodNode, Processes
<1> QED BY <1>1, <1>2, <1>3, <1>4 DEF LoggedAs

LEMMA JointFields ==
  ASSUME NEW n, NEW s, GoodNode(n, s)
  PROVE  \E e \in LogEntries, c \in Confs :
           /\ e.term = s.term /\ e.cmd = "TRANS"
           /\ e.old = s.conf.old /\ e.app = s.conf.app /\ e.rem = s.conf.rem
           /\ c.state = "OLD_JOINT" /\ c.index = Len(s.log)
           /\ c.old = s.conf.old /\ c.app = s.conf.app /\ c.rem = s.conf.rem
           /\ UpdateConfigurationJoint(s) = [s EXCEPT !.log = Append(s.log, e), !.conf = c]
<1> DEFINE c == [s.conf EXCEPT !.index = Len(s.log), !.state = "OLD_JOINT"]
           e == [term |-> s.term, cmd |-> "TRANS", old |-> s.conf.old,
                 app |-> s.conf.app, rem |-> s.conf.rem]
           t == [s EXCEPT !.conf.index = Len(s.log), !.conf.state = "OLD_JOINT"]
<1>1. /\ c \in Confs
      /\ c.state = "OLD_JOINT" /\ c.index = Len(s.log)
      /\ c.old = s.conf.old /\ c.app = s.conf.app /\ c.rem = s.conf.rem
  <2>1. s.conf \in Confs /\ Len(s.log) \in Int
    BY ProcessFields, LenProperties DEF GoodNode
  <2> QED BY <2>1 DEF Confs
<1>2. t = [s EXCEPT !.conf = c]
  BY ProcessFields DEF GoodNode, Processes, Confs
<1>3. e \in LogEntries /\ e.term = s.term /\ e.cmd = "TRANS"
      /\ e.old = s.conf.old /\ e.app = s.conf.app /\ e.rem = s.conf.rem
  BY ProcessFields DEF GoodNode, LogEntries
<1>4. UpdateConfigurationJoint(s) = Logged(t, "TRANS")
  BY Zenon DEF UpdateConfigurationJoint
<1> HIDE DEF c, t
<1>5. t.term = s.term /\ t.log = s.log /\ t.conf = c
  BY <1>2 DEF GoodNode, Processes
<1>6. Logged(t, "TRANS") = [t EXCEPT !.log = Append(@, [term |-> t.term, cmd |-> "TRANS",
         old |-> t.conf.old, app |-> t.conf.app, rem |-> t.conf.rem])]
  BY DEF Logged
<1>7. Logged(t, "TRANS") = [t EXCEPT !.log = Append(@, e)]
  BY <1>1, <1>5, <1>6
<1> HIDE DEF e
<1>8. [t EXCEPT !.log = Append(@, e)] = [s EXCEPT !.log = Append(s.log, e), !.conf = c]
  BY <1>2, <1>5 DEF GoodNode, Processes
<1>9. UpdateConfigurationJoint(s) = [s EXCEPT !.log = Append(s.log, e), !.conf = c]
  BY <1>4, <1>7, <1>8
<1> QED BY <1>1, <1>3, <1>9, Zenon

(* The indices under way of a change, when the log grows by one entry.      *)
LEMMA GrownUncommitted ==
  ASSUME NEW s, NEW t, s.log \in Seq(LogEntries), NEW e \in LogEntries, t.log = Append(s.log, e),
         t.commit = s.commit, s.commit \in Int, s.commit <= LastIndexOf(s.log)
  PROVE  Uncommitted(t) = Uncommitted(s) \union (IF e.cmd = "DATA" THEN {} ELSE {Len(s.log)})
<1>1. PICK a \in Seq(LogEntries), b \in Seq(LogEntries) : a = s.log /\ b = t.log /\ b = Append(a, e)
  BY AppendedFacts
<1>2. /\ Len(a) \in Nat /\ LastIndexOf(a) = Len(a) - 1 /\ LastIndexOf(b) = Len(a)
      /\ EntryAt(b, Len(a)) = e
      /\ \A i \in 0 .. LastIndexOf(a) : EntryAt(b, i) = EntryAt(a, i)
  <2>1. Len(a) \in Nat /\ LastIndexOf(a) = Len(a) - 1
    BY LogFacts
  <2> QED BY <1>1, <2>1, AppendedFacts
<1>3. \A i : i \in 0 .. LastIndexOf(b) <=> i \in 0 .. LastIndexOf(a) \/ i = Len(a)
  BY <1>2
<1>4. Len(a) > s.commit /\ Len(a) \notin 0 .. LastIndexOf(a)
  BY <1>1, <1>2
<1>5. \A i : i \in Uncommitted(t) <=> i \in Uncommitted(s) \/ (i = Len(a) /\ e.cmd # "DATA")
  BY <1>1, <1>2, <1>3, <1>4 DEF Uncommitted
<1> QED BY <1>1, <1>5

LEMMA GrownLog ==
  ASSUME NEW a \in Seq(LogEntries), NEW e \in LogEntries, OfFirstTerm(a), e.term = 1, NEW C,
         JointBefore(a, C),
         e.cmd = "TRANS_NEW" => \A i \in 0 .. LastIndexOf(a) : EntryAt(a, i).cmd = "TRANS" => i <= C
  PROVE  OfFirstTerm(Append(a, e)) /\ JointBefore(Append(a, e), C) /\ PrefixOf(a, Append(a, e))
<1>1. PICK b \in Seq(LogEntries) : b = Append(a, e)
  BY AppendedFacts
<1>2. LastIndexOf(a) \in Nat \union {-1} /\ LastIndexOf(b) = LastIndexOf(a) + 1
      /\ EntryAt(b, LastIndexOf(a) + 1) = e /\ PrefixOf(a, b)
      /\ \A i \in 0 .. LastIndexOf(a) : EntryAt(b, i) = EntryAt(a, i)
  BY <1>1, AppendedFacts, LogType
<1>3. OfFirstTerm(b)
  BY <1>2 DEF OfFirstTerm
<1>4. JointBefore(b, C)
  <2> SUFFICES ASSUME NEW j \in 0 .. LastIndexOf(b), EntryAt(b, j).cmd = "TRANS_NEW",
                      NEW i \in 0 .. j, EntryAt(b, i).cmd = "TRANS"
               PROVE  i <= C
    BY DEF JointBefore
  <2>1. CASE j <= LastIndexOf(a)
    <3>1. j \in 0 .. LastIndexOf(a) /\ i \in 0 .. LastIndexOf(a)
      BY <1>2, <2>1
    <3>2. EntryAt(a, j).cmd = "TRANS_NEW" /\ EntryAt(a, i).cmd = "TRANS"
      BY <1>2, <3>1
    <3> QED BY <3>1, <3>2 DEF JointBefore
  <2>2. CASE j = LastIndexOf(a) + 1
    <3>1. e.cmd = "TRANS_NEW" /\ i # j
      BY <1>2, <2>2
    <3>2. i \in 0 .. LastIndexOf(a)
      BY <1>2, <2>2, <3>1
    <3> QED BY <1>2, <3>1, <3>2
  <2> QED BY <1>2, <2>1, <2>2
<1> QED BY <1>1, <1>2, <1>3, <1>4
-----------------------------------------------------------------------------
(* The steps under the first leader.                                        *)
LEMMA UnderSubject ==
  ASSUME AllGood, NEW x \in Members, NEW V, NEW C, Under(x, V, C), NEW n \in Node
  PROVE  /\ GoodNode(n, node[n]) /\ node[n] \in Processes
         /\ Subject(x, V, node[x].log, C, n, node[n])
         /\ node[n].log \in Seq(LogEntries) /\ Len(node[n].log) \in Nat
         /\ node[n].commit \in Nat \union {-1} /\ node[n].term \in Nat
BY ProcessFields, LenProperties DEF AllGood, GoodNode, Under

LEMMA OneOtherChanges ==
  ASSUME AllGood, AllGood', NEW x \in Members, NEW V, NEW C \in Nat \union {-1}, Under(x, V, C),
         NEW n \in Node, n # x, NEW t, node' = [node EXCEPT ![n] = t], committed' = committed,
         Subject(x, V, node[x].log, C, n, t), t.log = node[n].log
  PROVE  Under(x, V, C)'
<1>1. node'[n] = t /\ \A q \in Node \ {n} : node'[q] = node[q]
  BY DEF AllGood
<1>2. \A q \in Node \ {x} : /\ Subject(x, V, node[x].log, C, q, node'[q])
                            /\ Len(node[q].log) <= Len(node'[q].log)
  BY <1>1, UnderSubject
<1> QED BY <1>1, <1>2, StepOfOthers

LEMMA OnTimerElectionUnder ==
  ASSUME AllGood, AllGood', FirstTerm', NEW x \in Members, NEW V, NEW C \in Nat \union {-1},
         Under(x, V, C), NEW n \in Node, OnTimerElection(n)
  PROVE  Under(x, V, C)'
<1> DEFINE s == node[n]
           t == [s EXCEPT !.state = "Candidate", !.term = @ + 1, !.voteFor = n,
                          !.leader = None, !.votes = {}]
<1>1. GoodNode(n, s) /\ Subject(x, V, node[x].log, C, n, s) /\ s.term \in Nat
  BY UnderSubject
<1>2. node' = [node EXCEPT ![n] = t] /\ committed' = committed
  BY Zenon DEF OnTimerElection
<1>3. node'[n] = t
  BY <1>2, Zenon DEF AllGood
<1> HIDE DEF s
<1>4. /\ t.state = "Candidate" /\ t.term = s.term + 1 /\ t.voteFor = n /\ t.votes = {}
      /\ t.log = s.log /\ t.conf = s.conf /\ t.peers = s.peers /\ t.rights = s.rights
      /\ t.commit = s.commit
  BY <1>1 DEF GoodNode, Processes
<1> HIDE DEF t
<1>5. s.term = 0 /\ t.term = 1
  BY <1>1, <1>3, <1>4 DEF FirstTerm
<1>6. n \notin V \union {x}
  BY <1>1, <1>5 DEF Subject
<1>7. Subject(x, V, node[x].log, C, n, t)
  <2>1. Behind(t, node[x].log, C)
    BY <1>1, <1>4 DEF Subject, Behind, KnowsFrom
  <2>2. FreshUntilTold(n, t)
    BY <1>1, <1>4, <1>5 DEF Subject, FreshUntilTold, Fresh
  <2> QED BY <1>4, <1>6, <2>1, <2>2 DEF Subject
<1> QED BY <1>2, <1>4, <1>6, <1>7, OneOtherChanges DEF s

LEMMA RestartUnder ==
  ASSUME AllGood, AllGood', NEW x \in Members, NEW V, NEW C \in Nat \union {-1},
         Under(x, V, C), NEW n \in Node, Restart(n)
  PROVE  Under(x, V, C)'
<1> DEFINE s == node[n]
           P == LoadedPeers(n, s)
           t == [Process(P) EXCEPT !.term = s.term, !.voteFor = s.voteFor,
                                   !.log = s.log, !.conf = s.conf]
<1>1. /\ GoodNode(n, s) /\ Subject(x, V, node[x].log, C, n, s)
      /\ s.log \in Seq(LogEntries) /\ node[x].log \in Seq(LogEntries)
  BY UnderSubject
<1>2. node' = [node EXCEPT ![n] = t] /\ committed' = committed
  BY Zenon DEF Restart
<1>3. s.conf = Blank => P = s.peers
  BY <1>1, BlankType DEF LoadedPeers, NewDecides, BothDecide, GoodNode
<1> HIDE DEF s, P
<1>4. /\ t.state = "Follower" /\ t.term = s.term /\ t.voteFor = s.voteFor
      /\ t.log = s.log /\ t.conf = s.conf /\ t.peers = P /\ t.rights = P /\ t.commit = -1
  BY DEF Process
<1> HIDE DEF t
<1>5. Subject(x, V, node[x].log, C, n, t)
  <2>1. Behind(t, node[x].log, C)
    <3>1. -1 <= C /\ -1 <= LastIndexOf(t.log)
      BY <1>1, <1>4, LogType
    <3> QED BY <1>1, <1>4, <3>1 DEF Subject, Behind, KnowsFrom
  <2>2. FreshUntilTold(n, t)
    BY <1>1, <1>3, <1>4 DEF Subject, FreshUntilTold, Fresh
  <2> QED BY <1>1, <1>4, <2>1, <2>2 DEF Subject
<1>6. CASE n # x
  BY <1>2, <1>4, <1>5, <1>6, OneOtherChanges DEF s
<1>7. CASE n = x
  <2>1. PrefixOf(t.log, t.log)
    BY <1>1, <1>4, LenProperties DEF PrefixOf
  <2>2. OfFirstTerm(t.log) /\ JointBefore(t.log, C)
    BY <1>4, <1>7 DEF Under, s
  <2> QED BY <1>2, <1>4, <1>5, <1>7, <2>1, <2>2, StepOfLeader DEF s
<1> QED BY <1>6, <1>7

LEMMA DoLogUnder ==
  ASSUME AllGood, AllGood', NEW x \in Members, NEW V, NEW C \in Nat \union {-1},
         Under(x, V, C), NEW n \in Node, DoLog(n)
  PROVE  Under(x, V, C)'
<1> DEFINE s == node[x]
<1>1. /\ GoodNode(x, s) /\ Subject(x, V, s.log, C, x, s)
      /\ s.log \in Seq(LogEntries) /\ s.commit \in Nat \union {-1}
  BY UnderSubject
<1>2. n = x /\ s.state = "Leader"
  BY UnderSubject DEF DoLog, Subject
<1>3. PICK e \in LogEntries : /\ e.term = s.term /\ e.cmd = "DATA"
                              /\ Logged(s, "DATA") = [s EXCEPT !.log = Append(s.log, e)]
  <2>1. "DATA" \in {"DATA", "TRANS", "TRANS_NEW"}
    OBVIOUS
  <2>2. \E e \in LogEntries : LoggedAs(s, "DATA", e)
    BY <1>1, <2>1, LoggedFields, Zenon
  <2> QED BY <2>2 DEF LoggedAs
<1>4. PICK a \in Seq(LogEntries) : a = Append(s.log, e)
  BY <1>1, AppendedFacts
<1>5. PICK t : t = [s EXCEPT !.log = a]
  OBVIOUS
<1>6. /\ t.log = a /\ t.state = s.state /\ t.term = s.term /\ t.voteFor = s.voteFor
      /\ t.commit = s.commit /\ t.conf = s.conf /\ t.next = s.next /\ t.match = s.match
  BY <1>1, <1>5 DEF GoodNode, Processes
<1>7. node' = [node EXCEPT ![x] = t] /\ committed' = committed
  <2>1. node' = [node EXCEPT ![x] = Logged(s, "DATA")] /\ committed' = committed
    BY <1>2 DEF DoLog, AllGood
  <2> QED BY <1>3, <1>4, <1>5, <2>1
<1> HIDE DEF s
<1>8. OfFirstTerm(s.log) /\ JointBefore(s.log, C) /\ s.term = 1
      /\ s.commit = C /\ Conducts(x, s) /\ KnowsPeers(s)
  BY <1>1, <1>2 DEF Under, s, Subject
<1>9. OfFirstTerm(a) /\ JointBefore(a, C) /\ PrefixOf(s.log, a)
  BY <1>1, <1>3, <1>4, <1>8, GrownLog
<1>10. Behind(s, s.log, C) /\ s.commit <= LastIndexOf(s.log)
  BY <1>1 DEF Subject, Behind
<1>11. Subject(x, V, a, C, x, t)
  <2>1. /\ LastIndexOf(s.log) \in Nat \union {-1} /\ LastIndexOf(a) = LastIndexOf(s.log) + 1
        /\ \A i \in 0 .. LastIndexOf(s.log) : EntryAt(a, i) = EntryAt(s.log, i)
    BY <1>1, <1>4, AppendedFacts, LogType
  <2>2. PrefixOf(a, a)
    BY LenProperties DEF PrefixOf
  <2>3. KnowsFrom(t, C)
    BY <1>6, <1>10, <2>1 DEF Behind, KnowsFrom
  <2>4. Behind(t, a, C)
    BY <1>1, <1>6, <1>10, <2>1, <2>2, <2>3 DEF Behind
  <2> QED BY <1>1, <1>2, <1>6, <1>8, <2>4 DEF Subject, FreshUntilTold
<1>12. Conducts(x, t)
  <2>1. Uncommitted(t) = Uncommitted(s)
    <3>1. t.log = Append(s.log, e) /\ t.commit = s.commit /\ s.commit \in Int /\ e.cmd = "DATA"
      BY <1>1, <1>3, <1>4, <1>6
    <3>2. Uncommitted(t) = Uncommitted(s) \union (IF e.cmd = "DATA" THEN {} ELSE {Len(s.log)})
      BY <1>1, <1>10, <3>1, GrownUncommitted
    <3> QED BY <3>1, <3>2
  <2>2. s.conf.state = "JOINT_NEW" => s.conf.index2 \in 0 .. LastIndexOf(s.log)
    BY <1>8 DEF Conducts, Uncommitted, Pending
  <2>3. \A i \in 0 .. LastIndexOf(s.log) : EntryAt(a, i) = EntryAt(s.log, i)
    BY <1>1, <1>4, AppendedFacts
  <2> QED BY <1>6, <1>8, <2>1, <2>2, <2>3 DEF Conducts, Pending
<1>13. KnowsPeers(t)
  BY <1>6, <1>8 DEF KnowsPeers
<1> QED BY <1>6, <1>7, <1>8, <1>9, <1>11, <1>12, <1>13, StepOfLeader DEF s

LEMMA OnTimerConfigurationUnder ==
  ASSUME AllGood, AllGood', NEW x \in Members, NEW V, NEW C \in Nat \union {-1},
         Under(x, V, C), NEW n \in Node, OnTimerConfiguration(n)
  PROVE  Under(x, V, C)'
<1> DEFINE s == node[n]
           c == [s.conf EXCEPT !.state = "JOINT_NEW", !.index2 = Len(s.log)]
           r == [s EXCEPT !.conf.state = "JOINT_NEW", !.conf.index2 = Len(s.log)]
           t == [s EXCEPT !.conf = c]
<1>1. /\ GoodNode(n, s) /\ Subject(x, V, node[x].log, C, n, s)
      /\ s.log \in Seq(LogEntries) /\ s.commit \in Nat \union {-1} /\ Len(s.log) \in Nat
  BY UnderSubject
<1>2. s.conf.state = "JOINT" /\ s.commit >= s.conf.index /\ committed' = committed
  BY Zenon DEF OnTimerConfiguration
<1>3. r = t
  BY <1>1, ProcessFields DEF GoodNode, Processes, Confs
<1>4. node' = [node EXCEPT ![n] = IF s.state = "Leader" THEN Logged(r, "TRANS_NEW") ELSE r]
  BY Zenon DEF OnTimerConfiguration
<1> HIDE DEF r
<1>5. node' = [node EXCEPT ![n] = IF s.state = "Leader" THEN Logged(t, "TRANS_NEW") ELSE t]
  BY <1>3, <1>4
<1> HIDE DEF s
<1>6. /\ c \in Confs /\ c.state = "JOINT_NEW" /\ c.index2 = Len(s.log) /\ c.index = s.conf.index
      /\ c.old = s.conf.old /\ c.app = s.conf.app /\ c.rem = s.conf.rem
  <2>1. PICK o \in Confs, k \in Int : o = s.conf /\ k = Len(s.log)
    BY <1>1, ProcessFields DEF GoodNode
  <2>2. [o EXCEPT !.state = "JOINT_NEW", !.index2 = k] \in Confs
    BY DEF Confs
  <2> QED BY <2>1, <2>2 DEF Confs
<1> HIDE DEF c
<1>7. /\ t.log = s.log /\ t.state = s.state /\ t.term = s.term /\ t.voteFor = s.voteFor
      /\ t.commit = s.commit /\ t.conf = c /\ t.next = s.next /\ t.match = s.match
      /\ t.votes = s.votes
  BY <1>1 DEF GoodNode, Processes
<1>8. GoodNode(n, t)
  <2>1. s.rights = s.peers
    BY <1>1, <1>2 DEF GoodNode, RightsGiven
  <2> QED BY <1>1, <1>6, <2>1, ConfGood
<1> HIDE DEF t
<1>9. /\ s.conf.index \in 0 .. LastIndexOf(s.log) /\ s.conf.index <= C
      /\ LET e == EntryAt(s.log, s.conf.index)
         IN e.cmd = "TRANS" /\ e.old = s.conf.old /\ e.app = s.conf.app /\ e.rem = s.conf.rem
  BY <1>1, <1>2 DEF Subject, Behind, KnowsFrom, BothDecide
<1>10. s.state # "Candidate" /\ s.term # 0
  BY <1>1, <1>2, BlankType DEF Subject, FreshUntilTold, Fresh
<1>11. CASE s.state # "Leader"
  <2>1. Subject(x, V, node[x].log, C, n, t)
    <3>1. KnowsFrom(t, C)
      BY <1>6, <1>7, <1>9 DEF KnowsFrom
    <3>2. Behind(t, node[x].log, C)
      BY <1>1, <1>7, <3>1 DEF Subject, Behind
    <3> QED BY <1>1, <1>7, <1>10, <3>2 DEF Subject, FreshUntilTold
  <2>2. node' = [node EXCEPT ![n] = t]
    BY <1>5, <1>11
  <2>3. CASE n # x
    BY <1>2, <1>7, <2>1, <2>2, <2>3, OneOtherChanges DEF s
  <2>4. CASE n = x
    <3>1. PrefixOf(t.log, t.log)
      BY <1>1, <1>7 DEF PrefixOf
    <3>2. OfFirstTerm(t.log) /\ JointBefore(t.log, C)
      BY <1>7, <2>4 DEF Under, s
    <3> QED BY <1>2, <1>7, <1>11, <2>1, <2>2, <2>4, <3>1, <3>2, StepOfLeader DEF s
  <2> QED BY <2>3, <2>4
<1>12. CASE s.state = "Leader"
  <2>1. n = x
    BY <1>1, <1>12 DEF Subject
  <2>2. OfFirstTerm(s.log) /\ JointBefore(s.log, C) /\ s.term = 1
        /\ s.commit = C /\ Conducts(x, s) /\ KnowsPeers(s) /\ Subject(x, V, s.log, C, x, s)
    BY <1>1, <1>12, <2>1 DEF Under, s, Subject
  <2>3. PICK e \in LogEntries : /\ e.term = t.term /\ e.cmd = "TRANS_NEW"
                                /\ Logged(t, "TRANS_NEW") = [t EXCEPT !.log = Append(t.log, e)]
    <3>1. "TRANS_NEW" \in {"DATA", "TRANS", "TRANS_NEW"}
      OBVIOUS
    <3>2. \E e \in LogEntries : LoggedAs(t, "TRANS_NEW", e)
      BY <1>8, <3>1, LoggedFields, Zenon
    <3> QED BY <3>2 DEF LoggedAs
  <2>4. PICK a \in Seq(LogEntries) : a = Append(s.log, e)
    BY <1>1, AppendedFacts
  <2>5. PICK u : u = [t EXCEPT !.log = a]
    OBVIOUS
  <2>6. /\ u.log = a /\ u.state = s.state /\ u.term = s.term /\ u.voteFor = s.voteFor
        /\ u.commit = s.commit /\ u.conf = c /\ u.next = s.next /\ u.match = s.match
    BY <1>7, <1>8, <2>5 DEF GoodNode, Processes
  <2>7. node' = [node EXCEPT ![x] = u]
    BY <1>5, <1>7, <1>12, <2>1, <2>3, <2>4, <2>5
  <2>8. Uncommitted(s) = {}
    BY <1>2, <2>2 DEF Conducts, Pending
  <2>9. OfFirstTerm(a) /\ JointBefore(a, C) /\ PrefixOf(s.log, a)
    <3>1. \A i \in 0 .. LastIndexOf(s.log) : EntryAt(s.log, i).cmd = "TRANS" => i <= C
      BY <1>1, <2>2, <2>8 DEF Uncommitted
    <3> QED BY <1>1, <1>7, <2>2, <2>3, <2>4, <3>1, GrownLog
  <2>10. /\ LastIndexOf(s.log) \in Nat \union {-1} /\ LastIndexOf(a) = LastIndexOf(s.log) + 1
         /\ LastIndexOf(a) = Len(s.log) /\ EntryAt(a, Len(s.log)) = e
         /\ \A i \in 0 .. LastIndexOf(s.log) : EntryAt(a, i) = EntryAt(s.log, i)
    BY <1>1, <2>4, AppendedFacts, LogType, LogFacts
  <2>11. Subject(x, V, a, C, x, u)
    <3>1. PrefixOf(a, a)
      BY LenProperties DEF PrefixOf
    <3>2. KnowsFrom(u, C)
      BY <1>6, <1>9, <2>6, <2>10 DEF KnowsFrom
    <3>3. Behind(u, a, C)
      BY <1>1, <2>2, <2>6, <2>10, <3>1, <3>2 DEF Subject, Behind
    <3> QED BY <1>12, <2>2, <2>6, <3>3 DEF Subject, FreshUntilTold
  <2>12. Conducts(x, u)
    <3>1. Uncommitted(u) = Uncommitted(s) \union {Len(s.log)}
      <4>1. u.log = Append(s.log, e) /\ u.commit = s.commit /\ s.commit \in Int /\ e.cmd # "DATA"
        BY <1>1, <2>3, <2>4, <2>6
      <4>2. s.commit <= LastIndexOf(s.log)
        BY <1>1 DEF Subject, Behind
      <4> QED BY <1>1, <4>1, <4>2, GrownUncommitted
    <3>2. s.conf # Blank
      BY <1>2, BlankType
    <3> QED BY <1>1, <1>6, <1>9, <2>2, <2>3, <2>6, <2>8, <2>10, <3>1, <3>2 DEF Conducts, Pending
  <2>13. KnowsPeers(u)
    BY <2>2, <2>6 DEF KnowsPeers
  <2> QED BY <1>2, <2>1, <2>2, <2>6, <2>7, <2>9, <2>11, <2>12, <2>13, StepOfLeader DEF s
<1> QED BY <1>11, <1>12

(* The leader logs the joint configuration, at once or when all joined.      *)
Leading(x, V, C, u) ==
  /\ Subject(x, V, u.log, C, x, u) /\ u.state = "Leader" /\ u.commit = C /\ Conducts(x, u)
  /\ OfFirstTerm(u.log) /\ JointBefore(u.log, C)

LEMMA JointUnder ==
  ASSUME NEW x \in Node, NEW V, NEW C \in Nat \union {-1}, NEW u, GoodNode(x, u),
         Leading(x, V, C, u), u.conf.state = "STAGING"
  PROVE  LET t == UpdateConfigurationJoint(u) IN
         /\ Leading(x, V, C, t) /\ PrefixOf(u.log, t.log)
         /\ t.log \in Seq(LogEntries) /\ t.next = u.next /\ t.match = u.match
<1> USE DEF Leading
<1>0. PICK t : t = UpdateConfigurationJoint(u)
  OBVIOUS
<1>1. PICK e \in LogEntries, c \in Confs :
        /\ e.term = u.term /\ e.cmd = "TRANS"
        /\ e.old = u.conf.old /\ e.app = u.conf.app /\ e.rem = u.conf.rem
        /\ c.state = "OLD_JOINT" /\ c.index = Len(u.log)
        /\ c.old = u.conf.old /\ c.app = u.conf.app /\ c.rem = u.conf.rem
        /\ UpdateConfigurationJoint(u) = [u EXCEPT !.log = Append(u.log, e), !.conf = c]
  BY JointFields, Zenon
<1>2. u.log \in Seq(LogEntries) /\ u.commit \in Int /\ Len(u.log) \in Nat
  BY ProcessFields, LenProperties DEF GoodNode
<1>3. PICK a \in Seq(LogEntries) : a = Append(u.log, e)
  BY <1>2, AppendedFacts
<1>4. /\ t.log = a /\ t.state = u.state /\ t.term = u.term /\ t.voteFor = u.voteFor
      /\ t.commit = u.commit /\ t.conf = c /\ t.next = u.next /\ t.match = u.match
  <2>1. t = [u EXCEPT !.log = a, !.conf = c]
    BY <1>0, <1>1, <1>3
  <2> QED BY <2>1 DEF GoodNode, Processes
<1>5. u.term = 1 /\ Behind(u, u.log, C) /\ u.commit <= LastIndexOf(u.log)
  BY DEF Subject, Behind
<1>6. OfFirstTerm(a) /\ JointBefore(a, C) /\ PrefixOf(u.log, a)
  BY <1>1, <1>2, <1>3, <1>5, GrownLog
<1>7. /\ LastIndexOf(u.log) \in Nat \union {-1} /\ LastIndexOf(a) = LastIndexOf(u.log) + 1
      /\ LastIndexOf(a) = Len(u.log) /\ EntryAt(a, Len(u.log)) = e
  BY <1>2, <1>3, AppendedFacts, LogType, LogFacts
<1>8. Subject(x, V, a, C, x, t)
  <2>1. PrefixOf(a, a)
    BY LenProperties DEF PrefixOf
  <2>2. KnowsFrom(t, C)
    <3>1. t.conf.index \in 0 .. LastIndexOf(t.log) /\ EntryAt(t.log, t.conf.index) = e
      <4>1. t.conf.index = Len(u.log) /\ t.log = a
        BY <1>1, <1>4
      <4> QED BY <1>2, <1>7, <4>1
    <3>2. t.conf.state = "OLD_JOINT"
      BY <1>1, <1>4
    <3>3. t.conf.old = e.old /\ t.conf.app = e.app /\ t.conf.rem = e.rem /\ e.cmd = "TRANS"
      BY <1>1, <1>4
    <3> QED BY <3>1, <3>2, <3>3 DEF KnowsFrom
  <2>3. Behind(t, a, C)
    BY <1>2, <1>4, <1>5, <1>7, <2>1, <2>2 DEF Behind
  <2> QED BY <1>4, <1>5, <2>3 DEF Subject, FreshUntilTold
<1>9. Conducts(x, t)
  <2>1. Uncommitted(t) = Uncommitted(u) \union (IF e.cmd = "DATA" THEN {} ELSE {Len(u.log)})
    <3>1. t.log = Append(u.log, e) /\ t.commit = u.commit
      BY <1>3, <1>4
    <3> QED BY <1>2, <1>5, <3>1, GrownUncommitted
  <2>2. Uncommitted(u) = {} /\ x \in u.conf.old
    BY BlankType DEF Conducts, Pending
  <2> QED BY <1>1, <1>4, <2>1, <2>2 DEF Conducts, Pending
<1> QED BY <1>0, <1>4, <1>6, <1>8, <1>9

LEMMA UpdateConfigurationUnder ==
  ASSUME AllGood, AllGood', NEW x \in Members, NEW V, NEW C \in Nat \union {-1},
         Under(x, V, C), NEW n \in Node, NEW ch \in Changes, UpdateConfiguration(n, ch.app, ch.rem)
  PROVE  Under(x, V, C)'
<1> DEFINE app    == ch.app
           rem    == ch.rem
           s      == node[n]
           conf   == [Blank EXCEPT !.state = "STAGING", !.app = app, !.rem = rem,
                                   !.old = s.peers \union {n}]
           t      == [s EXCEPT !.conf = conf]
           staged == WithPeers(t, app \ {n})
           waits  == [staged EXCEPT !.rights = @ \ app]
<1>1. /\ GoodNode(n, s) /\ Subject(x, V, node[x].log, C, n, s)
      /\ s.log \in Seq(LogEntries) /\ s.commit \in Nat \union {-1} /\ Len(s.log) \in Nat
  BY UnderSubject
<1>2. app \in SUBSET Node /\ rem \in SUBSET Node
  OBVIOUS
<1>3. s.conf = Blank /\ s.state = "Leader" /\ committed' = committed
  BY Zenon DEF UpdateConfiguration
<1>4. node' = [node EXCEPT ![n] = IF app = {} THEN UpdateConfigurationJoint(staged) ELSE waits]
  BY Zenon DEF UpdateConfiguration
<1>5. n = x
  BY <1>1, <1>3 DEF Subject
<1>6. OfFirstTerm(s.log) /\ JointBefore(s.log, C) /\ s.term = 1
      /\ s.commit = C /\ Conducts(x, s) /\ KnowsPeers(s) /\ Subject(x, V, s.log, C, x, s)
  BY <1>1, <1>3, <1>5 DEF Under, s, Subject
<1> HIDE DEF app, rem, s
<1>7. s.rights = s.peers
  BY <1>1, <1>3, BlankType DEF GoodNode, RightsGiven
<1>8. conf \in Confs /\ conf.state = "STAGING" /\ x \in conf.old
  <2>1. s.peers \union {n} \subseteq Node
    BY <1>1, ProcessFields DEF GoodNode
  <2>2. PICK O \in SUBSET Node : O = s.peers \union {n}
    BY <2>1
  <2>3. conf = StagingConf(O, app, rem)
    BY <2>2, Zenon DEF StagingConf
  <2>4. PICK b \in Confs : b = Blank
    BY BlankType
  <2>5. [b EXCEPT !.state = "STAGING", !.app = app, !.rem = rem, !.old = O].old = O
    BY DEF Confs
  <2> HIDE DEF conf
  <2>6. StagingConf(O, app, rem).old = O
    BY <2>4, <2>5 DEF StagingConf
  <2>7. StagingConf(O, app, rem) \in Confs /\ StagingConf(O, app, rem).state = "STAGING"
    BY <1>2, StagingConfType
  <2> QED BY <1>5, <2>2, <2>3, <2>6, <2>7
<1> HIDE DEF conf
<1>9. GoodNode(n, t) /\ t.conf = conf /\ t.rights = t.peers
  BY <1>1, <1>7, <1>8, ConfGood
<1>10. /\ t.log = s.log /\ t.state = s.state /\ t.term = s.term /\ t.voteFor = s.voteFor
       /\ t.commit = s.commit /\ t.next = s.next /\ t.match = s.match
  BY <1>1 DEF GoodNode, Processes
<1> HIDE DEF t
<1>11. GoodNode(n, staged) /\ staged.conf = conf
  <2>1. app \ {n} \in SUBSET Node /\ n \notin app \ {n}
    BY <1>2
  <2> QED BY <1>9, <2>1, WithPeersGood
<1>12. /\ staged.log = s.log /\ staged.state = s.state /\ staged.term = s.term
       /\ staged.voteFor = s.voteFor
       /\ staged.commit = s.commit /\ staged.next = s.next /\ staged.match = s.match
  BY <1>9, <1>10 DEF WithPeers, GoodNode, Processes
<1> HIDE DEF staged
<1>13. ASSUME NEW w, GoodNode(n, w), w.conf = conf,
              w.log = s.log, w.state = s.state, w.term = s.term, w.voteFor = s.voteFor,
              w.commit = s.commit, w.next = s.next, w.match = s.match
       PROVE  Subject(x, V, w.log, C, x, w) /\ Conducts(x, w) /\ KnowsPeers(w)
  <2>1. KnowsFrom(w, C)
    BY <1>8, <1>13 DEF KnowsFrom, BothDecide, NewDecides
  <2>2. Subject(x, V, w.log, C, x, w)
    BY <1>3, <1>6, <1>13, <2>1 DEF Subject, Behind, FreshUntilTold
  <2>3. Uncommitted(w) = Uncommitted(s) /\ Uncommitted(s) = {}
    BY <1>3, <1>6, <1>13, BlankType DEF Uncommitted, Conducts, Pending
  <2>4. Conducts(x, w)
    BY <1>8, <1>13, <2>3 DEF Conducts, Pending
  <2>5. KnowsPeers(w)
    BY <1>6, <1>13 DEF KnowsPeers
  <2> QED BY <2>2, <2>4, <2>5
<1>14. CASE app = {}
  <2>0. PICK b : b = staged
    OBVIOUS
  <2>1. PICK w : w = UpdateConfigurationJoint(b)
    OBVIOUS
  <2>2. Subject(x, V, staged.log, C, x, staged) /\ Conducts(x, staged) /\ KnowsPeers(staged)
    BY <1>11, <1>12, <1>13
  <2>3. staged.state = "Leader" /\ staged.commit = C /\ staged.conf.state = "STAGING"
        /\ OfFirstTerm(staged.log) /\ JointBefore(staged.log, C)
    BY <1>3, <1>6, <1>8, <1>11, <1>12
  <2>4. /\ Subject(x, V, w.log, C, x, w) /\ w.state = "Leader" /\ w.commit = C /\ Conducts(x, w)
        /\ OfFirstTerm(w.log) /\ JointBefore(w.log, C) /\ PrefixOf(staged.log, w.log)
        /\ w.next = staged.next /\ w.match = staged.match
    <3>1. x \in Node /\ GoodNode(x, b) /\ Leading(x, V, C, b) /\ b.conf.state = "STAGING"
      BY <1>5, <1>11, <2>0, <2>2, <2>3 DEF Leading
    <3>2. Leading(x, V, C, w) /\ PrefixOf(b.log, w.log) /\ w.next = b.next /\ w.match = b.match
      BY <2>1, <3>1, JointUnder
    <3> QED BY <2>0, <3>2 DEF Leading
  <2>5. KnowsPeers(w)
    BY <2>2, <2>4 DEF KnowsPeers
  <2>6. node' = [node EXCEPT ![x] = w] /\ PrefixOf(node[x].log, w.log)
    BY <1>4, <1>5, <1>12, <1>14, <2>0, <2>1, <2>4 DEF s
  <2> QED BY <1>3, <2>4, <2>5, <2>6, StepOfLeader
<1>15. CASE app # {}
  <2>1. waits.conf = conf /\ waits.log = s.log /\ waits.state = s.state /\ waits.term = s.term
        /\ waits.voteFor = s.voteFor
        /\ waits.commit = s.commit /\ waits.next = s.next /\ waits.match = s.match
    BY <1>11, <1>12 DEF GoodNode, Processes
  <2>2. GoodNode(n, waits)
    BY <1>8, <1>11 DEF GoodNode, Processes, RightsGiven
  <2> HIDE DEF waits
  <2>3. Subject(x, V, waits.log, C, x, waits) /\ Conducts(x, waits) /\ KnowsPeers(waits)
    BY <1>13, <2>1, <2>2
  <2>4. node' = [node EXCEPT ![x] = waits]
    BY <1>4, <1>5, <1>15
  <2>5. PrefixOf(node[x].log, waits.log)
    BY <1>1, <1>5, <2>1 DEF PrefixOf, s
  <2> QED BY <1>3, <1>6, <2>1, <2>3, <2>4, <2>5, StepOfLeader
<1> QED BY <1>14, <1>15

(* A vote in term 1: who has voted for somebody else does not change.       *)
LEMMA VoterFields ==
  ASSUME NEW p, NEW s, GoodNode(p, s), s.term <= 1, NEW n \in Node, NEW c, c.term = 1
  PROVE  LET t == OnVoteRequest(s, n, c) IN
         /\ t.log = s.log /\ t.commit = s.commit /\ t.conf = s.conf
         /\ t.peers = s.peers /\ t.rights = s.rights /\ t.term = 1
         /\ s.term = 1 /\ s.voteFor \notin {None, n} => t = s /\ ~ Grants(s, n, c)
         /\ s.term = 1 /\ ~ Grants(s, n, c) => t = s
         /\ s.term = 0 => t.state = "Follower"
         /\ s.term = 1 => t.state = s.state /\ t.votes = s.votes /\ t.match = s.match
         /\ (\A q \in Node : s.match[q] = -1) => \A q \in Node : t.match[q] = -1
         /\ Grants(s, n, c) => t.voteFor = n
<1>1. s.term \in {0, 1}
  <2>1. s.term \in 0 .. MaxTerm
    BY ProcessFields DEF GoodNode
  <2> QED BY <2>1
<1>2. PICK b : b = BecomeFollower(s, 1)
  OBVIOUS
<1>3. /\ b.log = s.log /\ b.commit = s.commit /\ b.conf = s.conf
      /\ b.peers = s.peers /\ b.rights = s.rights /\ b.term = 1 /\ b.state = "Follower"
      /\ b.match = [q \in Node |-> -1] /\ DOMAIN b = DOMAIN s /\ b.voteFor = None
  BY <1>2 DEF BecomeFollower, GoodNode, Processes
<1>4. PICK i : i = IF s.term = 0 THEN [b EXCEPT !.leader = None] ELSE s
  OBVIOUS
<1>5. i = Informed(s, c.term)
  BY <1>1, <1>2, <1>4 DEF Informed
<1>6. /\ i.log = s.log /\ i.commit = s.commit /\ i.conf = s.conf
      /\ i.peers = s.peers /\ i.rights = s.rights /\ i.term = 1 /\ DOMAIN i = DOMAIN s
      /\ s.term = 0 => i.state = "Follower" /\ i.match = [q \in Node |-> -1] /\ i.voteFor = None
      /\ s.term = 1 => i = s
  BY <1>1, <1>3, <1>4 DEF GoodNode, Processes
<1>7. PICK t : t = OnVoteRequest(s, n, c)
  OBVIOUS
<1>8. t = IF Grants(s, n, c) THEN [i EXCEPT !.voteFor = n, !.leader = None] ELSE i
  BY <1>5, <1>7 DEF OnVoteRequest
<1>9. Grants(s, n, c) => i.voteFor \in {None, n}
  BY <1>5 DEF Grants
<1>10. DOMAIN s = {"state", "term", "voteFor", "leader", "log", "commit", "conf", "peers", "rights",
                   "votes", "next", "match"}
  BY DEF GoodNode, Processes
<1>11. PICK w : w = [i EXCEPT !.voteFor = n, !.leader = None]
  OBVIOUS
<1>12. /\ w.log = i.log /\ w.commit = i.commit /\ w.conf = i.conf /\ w.voteFor = n
       /\ w.peers = i.peers /\ w.rights = i.rights /\ w.term = i.term /\ w.state = i.state
       /\ w.match = i.match /\ w.votes = i.votes
  BY <1>6, <1>10, <1>11
<1>13. t = IF Grants(s, n, c) THEN w ELSE i
  BY <1>8, <1>11
<1>14. s.term = 1 /\ s.voteFor \notin {None, n} => ~ Grants(s, n, c)
  BY <1>6, <1>9
<1>15. CASE Grants(s, n, c)
  BY <1>1, <1>6, <1>7, <1>12, <1>13, <1>14, <1>15
<1>16. CASE ~ Grants(s, n, c)
  BY <1>1, <1>6, <1>7, <1>13, <1>16
<1> QED BY <1>15, <1>16

VoteOutcome(n, c, p, granted, r) ==
  \E W : /\ W = (IF granted THEN c.votes \union {p} ELSE c.votes)
         /\ \/ r = c
            \/ p \in c.rights /\ r = [c EXCEPT !.votes = W]
            \/ /\ p \in c.rights /\ MoreThanHalf(1 + Cardinality(W), 1 + Cardinality(c.rights))
               /\ r = BecomeLeader(n, [c EXCEPT !.votes = W])

LEMMA CandidateFields ==
  ASSUME NEW n, NEW c, GoodNode(n, c), c.term = 1, c.conf = Blank, NEW p, NEW granted \in BOOLEAN
  PROVE  VoteOutcome(n, c, p, granted, OnVoteResponse(n, c, p, 1, granted))
<1>1. PICK W : W = IF granted THEN c.votes \union {p} ELSE c.votes
  OBVIOUS
<1>2. PICK t : t = [c EXCEPT !.votes = W]
  OBVIOUS
<1>3. t.conf = Blank /\ t.rights = c.rights
  BY <1>2 DEF GoodNode, Processes
<1>4. EnoughVotes(n, t, W) => MoreThanHalf(1 + Cardinality(W), 1 + Cardinality(c.rights))
  BY <1>3, BlankType DEF EnoughVotes, BothDecide, NewDecides
<1>5. OnVoteResponse(n, c, p, 1, granted) =
        IF p \notin c.rights THEN c
        ELSE IF 1 > c.term THEN BecomeFollower(c, 1)
        ELSE IF EnoughVotes(n, t, W) THEN BecomeLeader(n, t) ELSE t
  BY <1>1, <1>2, Zenon DEF OnVoteResponse
<1>6. ~ (1 > c.term)
  OBVIOUS
<1>7. PICK r : r = OnVoteResponse(n, c, p, 1, granted)
  OBVIOUS
<1>8. \/ r = c
      \/ p \in c.rights /\ r = t
      \/ /\ p \in c.rights /\ MoreThanHalf(1 + Cardinality(W), 1 + Cardinality(c.rights))
         /\ r = BecomeLeader(n, t)
  BY <1>4, <1>5, <1>6, <1>7
<1> QED BY <1>1, <1>2, <1>7, <1>8 DEF VoteOutcome

LEMMA RequestVoteUnder ==
  ASSUME AllGood, AllGood', FirstTerm, NEW x \in Members, NEW V, NEW C \in Nat \union {-1},
         Under(x, V, C), NEW n \in Node, NEW p \in Node, NEW answered \in BOOLEAN,
         RequestVote(n, p, answered)
  PROVE  Under(x, V, C)'
<1> DEFINE c == node[n]
           o == node[p]
           s == OnVoteRequest(o, n, c)
           g == Grants(o, n, c)
           r == OnVoteResponse(n, c, p, s.term, g)
<1>1. /\ c.state = "Candidate" /\ p \in c.peers
      /\ node' = [node EXCEPT ![p] = s, ![n] = IF answered THEN r ELSE c]
      /\ committed' = committed
  BY Zenon DEF RequestVote
<1>2. /\ GoodNode(n, c) /\ Subject(x, V, node[x].log, C, n, c)
      /\ GoodNode(p, o) /\ Subject(x, V, node[x].log, C, p, o) /\ o.term <= 1
  BY UnderSubject DEF FirstTerm
<1>3. n # p /\ n # x /\ n \notin V
  BY <1>1, <1>2 DEF GoodNode, Subject
<1>4. /\ c.term = 1 /\ c.voteFor = n /\ Fresh(n, c)
      /\ c.votes \cap (V \union {x}) = {} /\ c.votes \subseteq c.peers
  BY <1>1, <1>2 DEF Subject, FreshUntilTold, GoodNode
<1> HIDE DEF c, o, s, g, r
<1>5. /\ s.log = o.log /\ s.commit = o.commit /\ s.conf = o.conf
      /\ s.peers = o.peers /\ s.rights = o.rights /\ s.term = 1
      /\ o.term = 1 /\ o.voteFor \notin {None, n} => s = o /\ ~ g
      /\ o.term = 0 => s.state = "Follower"
      /\ o.term = 1 => s.state = o.state /\ s.votes = o.votes
      /\ g => s.voteFor = n
  BY <1>2, <1>4, VoterFields DEF s, g
<1>6. o.term \in {0, 1} /\ None \notin Node /\ x \in Node
  <2>1. o.term \in 0 .. MaxTerm
    BY <1>2, ProcessFields DEF GoodNode
  <2> QED BY <1>2, <2>1
<1>7. p \in V \union {x} => s = o /\ ~ g
  BY <1>2, <1>3, <1>5, <1>6 DEF Subject
<1>8. p # x => Subject(x, V, node[x].log, C, p, s)
  <2>1. Behind(s, node[x].log, C)
    BY <1>2, <1>5 DEF Subject, Behind, KnowsFrom
  <2>2. s.state = "Candidate" => s = o
    <3>1. s.state = "Candidate" => o.term = 1 /\ o.state = "Candidate"
      BY <1>5, <1>6
    <3>2. o.state = "Candidate" => o.voteFor = p
      BY <1>2 DEF Subject, FreshUntilTold
    <3> QED BY <1>3, <1>5, <1>6, <3>1, <3>2
  <2>3. s.state # "Candidate" => FreshUntilTold(p, s)
    BY <1>5 DEF FreshUntilTold
  <2>4. s.state = "Leader" => o.state = "Leader"
    BY <1>5, <1>6
  <2>5. p \in V \union {x} => s = o
    BY <1>7
  <2> QED BY <1>2, <2>1, <2>2, <2>3, <2>4, <2>5 DEF Subject
<1>9. ASSUME NEW W, W \subseteq c.votes \union (IF g THEN {p} ELSE {})
      PROVE  W \subseteq Members \ {n} /\ W \cap (V \union {x}) = {}
             /\ ~ MoreThanHalf(1 + Cardinality(W), 1 + Cardinality(c.rights))
  <2>1. W \subseteq Members \ {n} /\ W \cap (V \union {x}) = {} /\ c.rights = Members \ {n}
    BY <1>1, <1>4, <1>7, <1>9 DEF Fresh
  <2>2. Electors(x, V) /\ n \notin V \union {x}
    BY <1>3 DEF Under
  <2> QED BY <2>1, <2>2, ElectorsMeet
<1>10. \E W : W \cap (V \union {x}) = {} /\ r = [c EXCEPT !.votes = W]
  <2>1. g \in BOOLEAN
    BY DEF g, Grants
  <2>2. PICK W : W = IF g THEN c.votes \union {p} ELSE c.votes
    OBVIOUS
  <2>3. W \cap (V \union {x}) = {} /\ ~ MoreThanHalf(1 + Cardinality(W), 1 + Cardinality(c.rights))
    BY <1>9, <2>2
  <2>4. r = OnVoteResponse(n, c, p, 1, g)
    BY <1>5 DEF r
  <2>5. r = c \/ r = [c EXCEPT !.votes = W]
    <3>1. c.conf = Blank
      BY <1>4 DEF Fresh
    <3>2. PICK d : d = c
      OBVIOUS
    <3>5. PICK h \in BOOLEAN : h = g
      BY <2>1
    <3>3. GoodNode(n, d) /\ d.term = 1 /\ d.conf = Blank
      BY <1>2, <1>4, <3>1, <3>2
    <3>4. VoteOutcome(n, d, p, h, OnVoteResponse(n, d, p, 1, h))
      BY <3>3, CandidateFields
    <3> QED BY <2>2, <2>3, <2>4, <3>2, <3>4, <3>5 DEF VoteOutcome
  <2>6. c = [c EXCEPT !.votes = c.votes]
    BY <1>2 DEF GoodNode, Processes
  <2> QED BY <1>4, <2>3, <2>5, <2>6
<1>11. ASSUME NEW t, t \in {c, r} PROVE Subject(x, V, node[x].log, C, n, t) /\ t.log = c.log
  <2>1. PICK W : W \cap (V \union {x}) = {} /\ t = [c EXCEPT !.votes = W]
    <3>1. c = [c EXCEPT !.votes = c.votes]
      BY <1>2 DEF GoodNode, Processes
    <3> QED BY <1>4, <1>10, <1>11, <3>1
  <2>2. /\ t.log = c.log /\ t.commit = c.commit /\ t.conf = c.conf /\ t.term = c.term
        /\ t.peers = c.peers /\ t.rights = c.rights /\ t.state = c.state /\ t.voteFor = c.voteFor
        /\ t.votes = W
    BY <1>2, <2>1 DEF GoodNode, Processes
  <2> QED BY <1>2, <1>3, <2>1, <2>2 DEF Subject, Behind, KnowsFrom, FreshUntilTold, Fresh
<1>12. PICK t : t = (IF answered THEN r ELSE c) /\ t \in {c, r}
  OBVIOUS
<1>13. /\ node'[n] = t /\ node'[p] = s /\ \A q \in Node \ {n, p} : node'[q] = node[q]
  BY <1>1, <1>3, <1>12, Zenon DEF AllGood
<1>14. node'[x] = node[x]
  BY <1>3, <1>6, <1>7, <1>13 DEF o
<1>15. \A q \in Node \ {x} : /\ Subject(x, V, node[x].log, C, q, node'[q])
                             /\ Len(node[q].log) <= Len(node'[q].log)
  <2> SUFFICES ASSUME NEW q \in Node \ {x}
               PROVE  Subject(x, V, node[x].log, C, q, node'[q]) /\ node[q].log = node'[q].log
    BY UnderSubject
  <2>1. CASE q = n
    BY <1>11, <1>12, <1>13, <2>1 DEF c
  <2>2. CASE q = p
    BY <1>5, <1>8, <1>13, <2>2 DEF o
  <2>3. CASE q \notin {n, p}
    BY <1>13, <2>3, UnderSubject
  <2> QED BY <2>1, <2>2, <2>3
<1> QED BY <1>1, <1>14, <1>15, StepOfOthers
-----------------------------------------------------------------------------
(* A follower under the first leader: its log stays, or becomes the leader's.*)
LEMMA AfterAppendIs ==
  ASSUME NEW a \in Seq(LogEntries), NEW b \in Seq(LogEntries), PrefixOf(a, b), NEW k \in Nat,
         k <= Len(a)
  PROVE  AfterAppend(a, k - 1, SubSeq(b, k - 1 + 2, Len(b))) \in {a, b}
<1>1. Len(a) \in Nat /\ Len(b) \in Nat /\ Len(a) <= Len(b) /\ \A i \in 1 .. Len(a) : a[i] = b[i]
  BY LenProperties DEF PrefixOf
<1>2. \A i \in 1 .. Len(a) : a[i] \in LogEntries
  BY ElementOfSeq
<1>3. PICK c : c = SubSeq(a, 1, k)
  OBVIOUS
<1>4. c \in Seq(LogEntries) /\ Len(c) = k /\ \A i \in 1 .. k : c[i] = a[i]
  <2>1. \A i \in 1 .. k : a[i] \in LogEntries
    BY <1>1, <1>2
  <2>2. /\ SubSeq(a, 1, k) \in Seq(LogEntries)
        /\ Len(SubSeq(a, 1, k)) = IF 1 <= k THEN k - 1 + 1 ELSE 0
        /\ \A i \in 1 .. k - 1 + 1 : SubSeq(a, 1, k)[i] = a[1 + i - 1]
    BY <2>1, SubSeqProperties
  <2> QED BY <1>3, <2>2
<1>5. c = SubSeq(b, 1, k)
  <2>1. \A i \in 1 .. k : b[i] \in LogEntries
    BY <1>1, <1>2
  <2>2. /\ SubSeq(b, 1, k) \in Seq(LogEntries)
        /\ Len(SubSeq(b, 1, k)) = IF 1 <= k THEN k - 1 + 1 ELSE 0
        /\ \A i \in 1 .. k - 1 + 1 : SubSeq(b, 1, k)[i] = b[1 + i - 1]
    BY <2>1, SubSeqProperties
  <2>3. PICK d : d = SubSeq(b, 1, k)
    OBVIOUS
  <2>4. d \in Seq(LogEntries) /\ Len(d) = k /\ \A i \in 1 .. k : d[i] = b[i]
    BY <2>2, <2>3
  <2>5. Len(c) = Len(d) /\ \A i \in 1 .. Len(c) : c[i] = d[i]
    BY <1>1, <1>4, <2>4
  <2>6. c = d
    BY <1>4, <2>4, <2>5, SeqEqual
  <2> QED BY <2>3, <2>6
<1>6. SubSeq(b, 1, k) \o SubSeq(b, k + 1, Len(b)) = b
  <2>1. 1 \in 1 .. Len(b) + 1 /\ k \in 1 - 1 .. Len(b) /\ Len(b) \in k .. Len(b)
    BY <1>1
  <2>2. SubSeq(b, 1, k) \o SubSeq(b, k + 1, Len(b)) = SubSeq(b, 1, Len(b))
    BY <2>1, ConcatAdjacentSubSeq
  <2> QED BY <2>2, SubSeqFull
<1>7. k - 1 + 2 = k + 1 /\ k - 1 + 1 = k
  OBVIOUS
<1>8. AfterAppend(a, k - 1, SubSeq(b, k - 1 + 2, Len(b)))
        = IF a = <<>> \/ k - 1 >= 0 THEN SubSeq(a, 1, k) \o SubSeq(b, k + 1, Len(b)) ELSE a
  BY <1>7, Zenon DEF AfterAppend
<1> QED BY <1>3, <1>5, <1>6, <1>8

(* What the search for a change in the log leaves as it is.                 *)
SameRun(s, t) ==
  /\ t.log = s.log /\ t.commit = s.commit /\ t.state = s.state
  /\ t.term = s.term /\ t.voteFor = s.voteFor

LEMMA PeersSame ==
  ASSUME NEW n, NEW s, GoodNode(n, s), NEW P
  PROVE  SameRun(s, WithPeers(s, P)) /\ SameRun(s, WithoutPeers(s, P))
<1>1. SameRun(s, WithPeers(s, P))
  BY DEF SameRun, WithPeers, GoodNode, Processes
<1> DEFINE next == [p \in Node |-> IF p \in P THEN 0 ELSE s.next[p]]
           match == [p \in Node |-> IF p \in P THEN -1 ELSE s.match[p]]
<1>2. WithoutPeers(s, P) = [s EXCEPT !.peers = @ \ P, !.rights = @ \ P, !.votes = @ \ P,
                                     !.next = next, !.match = match]
  BY Zenon DEF WithoutPeers
<1> HIDE DEF next, match
<1>3. SameRun(s, WithoutPeers(s, P))
  BY <1>2 DEF SameRun, GoodNode, Processes
<1> QED BY <1>1, <1>3

LEMMA ConfSame ==
  ASSUME NEW n, NEW s, GoodNode(n, s), NEW c
  PROVE  SameRun(s, [s EXCEPT !.conf = c]) /\ [s EXCEPT !.conf = c].conf = c
BY DEF SameRun, GoodNode, Processes

LEMMA NewKnows ==
  ASSUME NEW n, NEW s, GoodNode(n, s), NEW C \in Int, KnowsFrom(s, C), NEW j \in Nat,
         s.conf.state = "OLD_JOINT" => s.conf.index <= C
  PROVE  /\ SameRun(s, OnUpdateConfigurationNew(s, j))
         /\ KnowsFrom(OnUpdateConfigurationNew(s, j), C)
         /\ OnUpdateConfigurationNew(s, j).conf = Blank => s.conf = Blank
<1> DEFINE c == [s.conf EXCEPT !.state = "JOINT_NEW", !.index2 = j]
           t == [s EXCEPT !.conf = c]
           P == s.conf.rem \ {s.leader}
<1>1. CASE s.conf.state # "OLD_JOINT"
  BY <1>1 DEF OnUpdateConfigurationNew, SameRun
<1>2. CASE s.conf.state = "OLD_JOINT"
  <2>1. /\ c \in Confs /\ c.state = "JOINT_NEW" /\ c.index = s.conf.index
        /\ c.old = s.conf.old /\ c.app = s.conf.app /\ c.rem = s.conf.rem
    <3>1. PICK o \in Confs, k \in Int : o = s.conf /\ k = j
      BY ProcessFields DEF GoodNode
    <3>2. [o EXCEPT !.state = "JOINT_NEW", !.index2 = k] \in Confs
      BY DEF Confs
    <3> QED BY <3>1, <3>2 DEF Confs
  <2>2. [s EXCEPT !.conf.state = "JOINT_NEW", !.conf.index2 = j] = t
    BY ProcessFields DEF GoodNode, Processes, Confs
  <2>3. OnUpdateConfigurationNew(s, j) = WithoutPeers(t, P)
    BY <1>2, <2>2, Zenon DEF OnUpdateConfigurationNew
  <2> HIDE DEF c
  <2>4. s.rights = s.peers
    BY <1>2 DEF GoodNode, RightsGiven
  <2>5. GoodNode(n, t) /\ t.conf = c /\ SameRun(s, t)
    BY <2>1, <2>4, ConfGood, ConfSame
  <2>6. P \in SUBSET Node
    BY ProcessFields DEF GoodNode
  <2> HIDE DEF t, P
  <2>7. WithoutPeers(t, P).conf = c /\ SameRun(t, WithoutPeers(t, P))
    BY <2>5, <2>6, WithoutPeersGood, PeersSame
  <2>8. PICK w : w = WithoutPeers(t, P)
    OBVIOUS
  <2>9. SameRun(s, w) /\ w.conf = c
    BY <2>5, <2>7, <2>8 DEF SameRun
  <2>10. KnowsFrom(w, C)
    BY <1>2, <2>1, <2>9 DEF KnowsFrom, SameRun, BothDecide
  <2> QED BY <2>1, <2>3, <2>8, <2>9, <2>10, BlankType
<1> QED BY <1>1, <1>2

LEMMA JointKnows ==
  ASSUME NEW n \in Node, NEW s, GoodNode(n, s), NEW C \in Int, KnowsFrom(s, C),
         NEW i \in 0 .. LastIndexOf(s.log), EntryAt(s.log, i).cmd = "TRANS"
  PROVE  /\ SameRun(s, OnUpdateConfigurationJoint(n, s, i))
         /\ KnowsFrom(OnUpdateConfigurationJoint(n, s, i), C)
<1> DEFINE e == EntryAt(s.log, i)
           c == [state |-> "OLD_JOINT", old |-> e.old, app |-> e.app, rem |-> e.rem,
                 index |-> i, index2 |-> -1]
           t == [s EXCEPT !.conf = c]
           P == e.app \ {n}
<1>1. CASE s.conf # Blank
  BY <1>1 DEF OnUpdateConfigurationJoint, SameRun
<1>2. CASE s.conf = Blank
  <2>1. e \in LogEntries
    BY ProcessFields, LogType DEF GoodNode
  <2>2. OnUpdateConfigurationJoint(n, s, i) = WithPeers(t, P)
    BY <1>2, Zenon DEF OnUpdateConfigurationJoint
  <2>3. c \in Confs
    BY <2>1 DEF Confs, LogEntries
  <2>4. c.state = "OLD_JOINT" /\ c.old = e.old /\ c.app = e.app /\ c.rem = e.rem /\ c.index = i
    OBVIOUS
  <2>5. P \in SUBSET Node /\ n \notin P
    BY <2>1 DEF LogEntries
  <2> HIDE DEF c
  <2>6. s.rights = s.peers
    BY <1>2, BlankType DEF GoodNode, RightsGiven
  <2>7. GoodNode(n, t) /\ t.conf = c /\ SameRun(s, t)
    BY <2>3, <2>6, ConfGood, ConfSame
  <2> HIDE DEF t, P
  <2>8. WithPeers(t, P).conf = c /\ SameRun(t, WithPeers(t, P))
    BY <2>5, <2>7, WithPeersGood, PeersSame
  <2>9. PICK w : w = WithPeers(t, P)
    OBVIOUS
  <2>10. SameRun(s, w) /\ w.conf = c
    BY <2>7, <2>8, <2>9 DEF SameRun
  <2>11. KnowsFrom(w, C)
    BY <2>4, <2>10 DEF KnowsFrom, SameRun
  <2> QED BY <2>2, <2>9, <2>10, <2>11
<1> QED BY <1>1, <1>2

LEMMA CommitKnows ==
  ASSUME NEW n, NEW s, GoodNode(n, s), NEW C \in Int, KnowsFrom(s, C)
  PROVE  SameRun(s, CommitConfiguration(s)) /\ KnowsFrom(CommitConfiguration(s), C)
<1> DEFINE P == s.conf.rem \cap {s.leader}
<1>1. PICK w : w = WithoutPeers(s, P)
  OBVIOUS
<1>2. PICK t : t = [w EXCEPT !.conf = Blank]
  OBVIOUS
<1>3. CommitConfiguration(s) \in {s, t}
  BY <1>1, <1>2, Zenon DEF CommitConfiguration, OnUpdateConfigurationFinish
<1>4. P \in SUBSET Node
  BY ProcessFields DEF GoodNode
<1> HIDE DEF P
<1>5. GoodNode(n, w) /\ SameRun(s, w)
  BY <1>1, <1>4, WithoutPeersGood, PeersSame
<1>6. SameRun(w, t) /\ t.conf = Blank
  BY <1>2, <1>5, ConfSame
<1>7. SameRun(s, t) /\ KnowsFrom(t, C)
  BY <1>5, <1>6, BlankType DEF SameRun, KnowsFrom, BothDecide, NewDecides
<1> QED BY <1>3, <1>7 DEF SameRun

LEMMA ReadKnows ==
  ASSUME NEW n \in Node, NEW s, GoodNode(n, s), NEW C \in Int, KnowsFrom(s, C), NEW prev \in Int,
         NEW L \in Seq(LogEntries), PrefixOf(s.log, L), JointBefore(L, C)
  PROVE  /\ SameRun(s, ReadConfiguration(n, s, prev))
         /\ KnowsFrom(ReadConfiguration(n, s, prev), C)
<1> DEFINE from  == {i \in 0 .. LastIndexOf(s.log) : i >= prev}
           trans == Indices(s.log, "TRANS") \cap from
           news  == {i \in Indices(s.log, "TRANS_NEW") \cap from : \A j \in trans : j < i}
           t     == IF news = {} THEN s ELSE OnUpdateConfigurationNew(s, Max(news))
<1>1. s.log \in Seq(LogEntries) /\ s.conf.index \in Int
  BY ProcessFields DEF GoodNode
<1>2. trans \in SUBSET (0 .. LastIndexOf(s.log)) /\ news \in SUBSET (0 .. LastIndexOf(s.log))
  OBVIOUS
<1>3. ReadConfiguration(n, s, prev) =
        IF trans = {} THEN t ELSE OnUpdateConfigurationJoint(n, t, Max(trans))
  BY Zenon DEF ReadConfiguration
<1>4. \A j \in news : /\ EntryAt(s.log, j).cmd = "TRANS_NEW" /\ j >= prev
                      /\ \A i \in 0 .. LastIndexOf(s.log) : EntryAt(s.log, i).cmd = "TRANS" /\ i >= prev
                                                              => i < j
  BY DEF Indices
<1>5. \A i \in trans : EntryAt(s.log, i).cmd = "TRANS"
  BY DEF Indices
<1> HIDE DEF trans, news
<1>6. GoodNode(n, t) /\ SameRun(s, t) /\ KnowsFrom(t, C)
  <2>1. CASE news = {}
    BY <2>1 DEF SameRun
  <2>2. CASE news # {}
    <3>1. Max(news) \in news /\ Max(news) \in Nat
      BY <1>1, <1>2, <2>2, LastOf
    <3>2. PICK j \in Nat : j = Max(news) /\ j \in news
      BY <3>1
    <3>3. ASSUME s.conf.state = "OLD_JOINT"
          PROVE  s.conf.index <= C
      <4>1. s.conf.index \in 0 .. LastIndexOf(s.log) /\ EntryAt(s.log, s.conf.index).cmd = "TRANS"
        BY <3>3 DEF KnowsFrom, BothDecide
      <4>2. s.conf.index < j
        <5>1. LastIndexOf(s.log) \in Int /\ j \in 0 .. LastIndexOf(s.log)
          BY <1>1, <1>2, <3>2, LogType
        <5> QED BY <1>4, <3>2, <4>1, <5>1
      <4>3. /\ LastIndexOf(s.log) <= LastIndexOf(L) /\ LastIndexOf(s.log) \in Int
            /\ LastIndexOf(L) \in Int
            /\ \A i \in 0 .. LastIndexOf(s.log) : EntryAt(s.log, i) = EntryAt(L, i)
        BY <1>1, PrefixFacts, LogType
      <4>4. j \in 0 .. LastIndexOf(L) /\ EntryAt(L, j).cmd = "TRANS_NEW"
            /\ s.conf.index \in 0 .. j /\ EntryAt(L, s.conf.index).cmd = "TRANS"
        BY <1>2, <1>4, <3>2, <4>1, <4>2, <4>3
      <4> QED BY <4>4 DEF JointBefore
    <3>4. GoodNode(n, OnUpdateConfigurationNew(s, j)) /\ SameRun(s, OnUpdateConfigurationNew(s, j))
          /\ KnowsFrom(OnUpdateConfigurationNew(s, j), C)
      BY <3>2, <3>3, OnUpdateConfigurationNewGood, NewKnows
    <3> QED BY <2>2, <3>2, <3>4
  <2> QED BY <2>1, <2>2
<1>7. PICK u : u = t
  OBVIOUS
<1> HIDE DEF t
<1>8. CASE trans # {}
  <2>1. Max(trans) \in trans
    BY <1>1, <1>2, <1>8, LastOf
  <2>2. PICK i : i = Max(trans) /\ i \in trans
    BY <2>1
  <2>3. GoodNode(n, u) /\ u.log = s.log /\ KnowsFrom(u, C) /\ SameRun(s, u)
    BY <1>6, <1>7 DEF SameRun
  <2>4. i \in 0 .. LastIndexOf(u.log) /\ EntryAt(u.log, i).cmd = "TRANS"
    BY <1>2, <1>5, <2>2, <2>3
  <2>5. SameRun(u, OnUpdateConfigurationJoint(n, u, i)) /\ KnowsFrom(OnUpdateConfigurationJoint(n, u, i), C)
    BY <2>3, <2>4, JointKnows
  <2> QED BY <1>3, <1>7, <1>8, <2>2, <2>3, <2>5 DEF SameRun
<1>9. CASE trans = {}
  BY <1>3, <1>6, <1>9
<1> QED BY <1>8, <1>9

(* What the follower p of the leader l answers: always a success.            *)
Followed(x, V, C, l, p, s, reply) ==
  LET t == reply.after
  IN /\ reply.success /\ t.term = 1 /\ t.log \in Seq(LogEntries)
     /\ PrefixOf(s.log, t.log) /\ PrefixOf(t.log, l.log)
     /\ Subject(x, V, l.log, C, p, t)

LEMMA RoutineFields ==
  ASSUME NEW p, NEW s, GoodNode(p, s), NEW n \in Node, NEW l, l.term = 1, s.term <= 1,
         s.state # "Leader", s.state = "Candidate" => s.term = 1
  PROVE  LET t == HandleRequestRoutine(s, n, l) IN
         /\ t.log = s.log /\ t.commit = s.commit /\ t.conf = s.conf /\ t.term = 1
         /\ t.state = "Follower"
         /\ s.term = 1 /\ s.state # "Candidate" => t.voteFor = s.voteFor
<1>1. s.term \in {0, 1} /\ s.state \in {"Follower", "Candidate"}
  <2>1. s.term \in 0 .. MaxTerm /\ s.state \in {"Follower", "Candidate", "Leader"}
    BY ProcessFields DEF GoodNode
  <2> QED BY <2>1
<1>2. PICK b : b = BecomeFollower(s, 1)
  OBVIOUS
<1>3. PICK c : c = [b EXCEPT !.leader = n]
  OBVIOUS
<1>4. PICK d : d = [s EXCEPT !.leader = n]
  OBVIOUS
<1>5. /\ c.log = s.log /\ c.commit = s.commit /\ c.conf = s.conf /\ c.term = 1
      /\ c.state = "Follower"
  BY <1>2, <1>3 DEF BecomeFollower, GoodNode, Processes
<1>6. /\ d.log = s.log /\ d.commit = s.commit /\ d.conf = s.conf /\ d.term = s.term
      /\ d.state = s.state /\ d.voteFor = s.voteFor
  BY <1>4 DEF GoodNode, Processes
<1>7. HandleRequestRoutine(s, n, l) =
        IF 1 > s.term \/ s.state = "Candidate" THEN c ELSE IF s.leader = None THEN d ELSE s
  BY <1>2, <1>3, <1>4, Zenon DEF HandleRequestRoutine
<1>8. CASE 1 > s.term \/ s.state = "Candidate"
  BY <1>1, <1>5, <1>7, <1>8
<1>9. CASE ~ (1 > s.term \/ s.state = "Candidate")
  BY <1>1, <1>6, <1>7, <1>9
<1> QED BY <1>8, <1>9

LEMMA FollowerUnder ==
  ASSUME NEW x \in Node, NEW V, NEW C \in Nat \union {-1}, NEW l, GoodNode(x, l), Leading(x, V, C, l),
         NEW p \in Node \ {x}, NEW s, GoodNode(p, s), s.term <= 1, Subject(x, V, l.log, C, p, s),
         l.next[p] <= Len(s.log), NEW prevTerm \in PrevTerms(l, l.next[p] - 1)
  PROVE  Followed(x, V, C, l, p, s, OnAppendEntriesRequest(p, s, x, l, prevTerm))
<1> DEFINE prev    == l.next[p] - 1
           entries == SubSeq(l.log, prev + 2, Len(l.log))
           t       == HandleRequestRoutine(s, x, l)
           log     == AfterAppend(t.log, prev, entries)
           commit  == IF l.commit > t.commit THEN Min({l.commit, LastIndexOf(log)}) ELSE t.commit
           kept    == [t EXCEPT !.log = SubSeq(@, 1, KeptUpTo(@, prev) + 1)]
           u       == [t EXCEPT !.log = log, !.commit = commit]
           r       == ReadConfiguration(p, u, prev)
           done    == CommitConfiguration(r)
           reply   == OnAppendEntriesRequest(p, s, x, l, prevTerm)
<1>1. /\ l.next[p] \in Nat /\ l.log \in Seq(LogEntries) /\ l.commit = C /\ l.term = 1
      /\ s.log \in Seq(LogEntries) /\ s.commit \in Nat \union {-1} /\ s.term \in Nat
      /\ OfFirstTerm(l.log) /\ JointBefore(l.log, C)
  <2>1. l.next \in [Node -> Nat] /\ l.log \in Seq(LogEntries)
        /\ s.log \in Seq(LogEntries) /\ s.commit \in Nat \union {-1} /\ s.term \in 0 .. MaxTerm
    BY ProcessFields DEF GoodNode
  <2> QED BY <2>1 DEF Leading, Subject
<1>2. PICK k \in Nat : k = l.next[p]
  BY <1>1
<1>3. k <= Len(s.log) /\ Len(s.log) \in Nat /\ Len(l.log) \in Nat /\ Len(s.log) <= Len(l.log)
      /\ PrefixOf(s.log, l.log)
  BY <1>1, <1>2, LenProperties DEF Subject, Behind, PrefixOf
<1>4. /\ t.log = s.log /\ t.commit = s.commit /\ t.conf = s.conf /\ t.term = 1
      /\ t.state = "Follower" /\ (s.term = 1 /\ s.state # "Candidate" => t.voteFor = s.voteFor)
      /\ GoodNode(p, t)
  <2>1. s.state # "Leader" /\ (s.state = "Candidate" => s.term = 1)
    BY DEF Subject, FreshUntilTold
  <2>2. GoodNode(p, t)
    <3>1. l.term \in 0 .. MaxTerm
      BY ProcessFields DEF GoodNode
    <3> QED BY <3>1, HandleRequestRoutineGood
  <2> QED BY <1>1, <2>1, <2>2, RoutineFields
<1>5. reply = IF l.term < s.term THEN [after |-> s, success |-> FALSE]
              ELSE IF prev > LastIndexOf(s.log) THEN [after |-> t, success |-> FALSE]
              ELSE IF Conflicts(s.log, prev, prevTerm) THEN [after |-> kept, success |-> FALSE]
              ELSE [after |-> done, success |-> TRUE]
  BY Zenon DEF OnAppendEntriesRequest
<1>6. ~ Conflicts(s.log, prev, prevTerm)
  <2> SUFFICES ASSUME prev > 0 PROVE EntryAt(s.log, prev).term = prevTerm
    BY DEF Conflicts
  <2>1. prev \in 0 .. LastIndexOf(s.log) /\ prev \in 0 .. LastIndexOf(l.log)
    <3>1. prev = k - 1
      BY <1>2
    <3>2. LastIndexOf(s.log) = Len(s.log) - 1 /\ LastIndexOf(l.log) = Len(l.log) - 1
      BY DEF LastIndexOf
    <3> HIDE DEF prev
    <3> QED BY <1>3, <3>1, <3>2
  <2>2. EntryAt(s.log, prev) = EntryAt(l.log, prev) /\ EntryAt(l.log, prev).term = 1
    BY <1>1, <1>3, <2>1, PrefixFacts DEF OfFirstTerm
  <2>3. prevTerm \in {EntryAt(l.log, prev).term}
    BY <1>1, <2>1 DEF PrevTerms, LastIndexOf
  <2> QED BY <2>2, <2>3
<1>7. log \in {s.log, l.log}
  <2>1. AfterAppend(s.log, k - 1, SubSeq(l.log, k - 1 + 2, Len(l.log))) \in {s.log, l.log}
    BY <1>1, <1>3, AfterAppendIs
  <2> QED BY <1>2, <1>4, <2>1
<1>8. ~ (l.term < s.term) /\ ~ (prev > LastIndexOf(s.log)) /\ prev \in Int
  <2>1. prev = k - 1
    BY <1>2
  <2>2. LastIndexOf(s.log) = Len(s.log) - 1
    BY DEF LastIndexOf
  <2> QED BY <1>1, <1>3, <2>1, <2>2
<1>9. reply = [after |-> done, success |-> TRUE]
  BY <1>5, <1>6, <1>8
<1> HIDE DEF prev, entries, t, log, reply, kept
<1>10. /\ log \in Seq(LogEntries) /\ PrefixOf(s.log, log) /\ PrefixOf(log, l.log)
       /\ LastIndexOf(s.log) <= LastIndexOf(log) /\ LastIndexOf(log) \in Nat \union {-1}
       /\ \A i \in 0 .. LastIndexOf(s.log) : EntryAt(log, i) = EntryAt(s.log, i)
  <2>1. PrefixOf(s.log, s.log) /\ PrefixOf(l.log, l.log)
    BY <1>3 DEF PrefixOf
  <2>2. log \in Seq(LogEntries) /\ PrefixOf(s.log, log) /\ PrefixOf(log, l.log)
    BY <1>1, <1>3, <1>7, <2>1
  <2> QED BY <1>1, <2>2, PrefixFacts, LogType
<1>11. commit \in Nat \union {-1} /\ commit <= C /\ commit <= LastIndexOf(log)
  <2>1. s.commit <= C /\ s.commit <= LastIndexOf(s.log)
    BY DEF Subject, Behind
  <2>2. LastIndexOf(s.log) \in Int
    BY <1>1, LogType
  <2>3. CASE C > s.commit
    <3>1. commit = Min({C, LastIndexOf(log)})
      BY <1>1, <1>4, <2>3
    <3>2. PICK m \in Int, c \in Int : m = LastIndexOf(log) /\ c = C
      BY <1>10
    <3>3. Min({c, m}) \in {c, m} /\ Min({c, m}) <= c /\ Min({c, m}) <= m
      BY LesserNumber
    <3> QED BY <1>10, <3>1, <3>2, <3>3
  <2>4. CASE ~ (C > s.commit)
    <3>1. commit = s.commit
      BY <1>1, <1>4, <2>4
    <3> QED BY <1>1, <1>10, <2>1, <2>2, <3>1
  <2> QED BY <2>3, <2>4
<1> HIDE DEF commit
<1>12. /\ u.log = log /\ u.commit = commit /\ u.conf = s.conf /\ u.term = 1
       /\ u.state = "Follower" /\ u.voteFor = t.voteFor /\ GoodNode(p, u)
  BY <1>4, <1>10, <1>11 DEF GoodNode, Processes, RightsGiven
<1> HIDE DEF u
<1>13. KnowsFrom(u, C)
  <2>1. KnowsFrom(s, C)
    BY DEF Subject, Behind
  <2>2. s.conf.index \in Int /\ LastIndexOf(s.log) \in Int
    BY <1>1, LogType, ProcessFields DEF GoodNode
  <2> QED BY <1>10, <1>12, <2>1, <2>2 DEF KnowsFrom
<1>14. SameRun(u, r) /\ KnowsFrom(r, C) /\ GoodNode(p, r)
  BY <1>1, <1>8, <1>10, <1>12, <1>13, ReadKnows, ReadConfigurationGood
<1> HIDE DEF r
<1>15. SameRun(r, done) /\ KnowsFrom(done, C)
  BY <1>14, CommitKnows
<1> HIDE DEF done
<1>16. /\ done.log = log /\ done.commit = commit /\ done.state = "Follower" /\ done.term = 1
       /\ done.voteFor = t.voteFor
  BY <1>12, <1>14, <1>15 DEF SameRun
<1>17. Behind(done, l.log, C)
  BY <1>10, <1>11, <1>15, <1>16 DEF Behind
<1>18. Subject(x, V, l.log, C, p, done)
  <2>1. p \in V => done.voteFor = x
    BY <1>4, <1>16 DEF Subject
  <2>2. FreshUntilTold(p, done)
    BY <1>16 DEF FreshUntilTold
  <2> QED BY <1>16, <1>17, <2>1, <2>2 DEF Subject
<1> QED BY <1>9, <1>10, <1>16, <1>18 DEF Followed, reply
-----------------------------------------------------------------------------
(* The leader is told; it may commit, and may log the joint configuration.   *)
LEMMA LeadingFrom ==
  ASSUME NEW x, NEW V, NEW C \in Nat \union {-1}, NEW D \in Nat \union {-1}, NEW k, GoodNode(x, k),
         Leading(x, V, C, k), C <= D, D <= LastIndexOf(k.log),
         NEW r, SameRun([k EXCEPT !.commit = D], r), KnowsFrom(r, D), Conducts(x, r)
  PROVE  Leading(x, V, D, r)
<1>1. /\ r.log = k.log /\ r.state = "Leader" /\ r.term = k.term /\ r.voteFor = k.voteFor
      /\ r.commit = D
  BY DEF SameRun, GoodNode, Processes, Leading
<1>2. k.log \in Seq(LogEntries)
  BY ProcessFields DEF GoodNode
<1>3. PrefixOf(r.log, r.log)
  BY <1>1, <1>2, LenProperties DEF PrefixOf
<1>4. Behind(r, r.log, D)
  BY <1>1, <1>2, <1>3, LogType DEF Behind
<1>5. JointBefore(r.log, D)
  <2>1. JointBefore(k.log, C) /\ LastIndexOf(k.log) \in Int
    BY <1>2, LogType DEF Leading
  <2> QED BY <1>1, <2>1 DEF JointBefore
<1>6. Subject(x, V, r.log, D, x, r)
  BY <1>1, <1>4 DEF Leading, Subject, FreshUntilTold
<1> QED BY <1>1, <1>5, <1>6 DEF Leading

(* A step of the leader that commits nothing and leaves its log and its       *)
(* configuration as they are.                                               *)
LEMMA LeadingSame ==
  ASSUME NEW x, NEW V, NEW C \in Nat \union {-1}, NEW k, GoodNode(x, k), Leading(x, V, C, k),
         NEW r, SameRun(k, r), r.conf = k.conf
  PROVE  Leading(x, V, C, r)
<1>1. r.log = k.log /\ r.state = k.state /\ r.term = k.term /\ r.voteFor = k.voteFor
      /\ r.commit = k.commit
  BY DEF SameRun
<1>2. Conducts(x, r)
  BY <1>1 DEF Leading, Conducts, Uncommitted, Pending
<1>3. Subject(x, V, r.log, C, x, r)
  BY <1>1 DEF Leading, Subject, Behind, KnowsFrom, FreshUntilTold
<1> QED BY <1>1, <1>2, <1>3 DEF Leading

(* What is known of the peers: as before, or forgotten.                     *)
NoMore(k, r) ==
  \A q \in Node : r.match[q] \in {-1, k.match[q]} /\ r.next[q] \in {0, k.next[q]}

(* What the leader decided with the votes of S.                             *)
DecidedBy(S, L, i) ==
  LET e == EntryAt(L, i) IN
  /\ e.cmd = "TRANS" => MajorityOf(S, e.old) /\ MajorityOf(S, New(e))
  /\ e.cmd = "TRANS_NEW" =>
       \E j \in 0 .. i - 1 : EntryAt(L, j).cmd = "TRANS" /\ MajorityOf(S, New(EntryAt(L, j)))

Voted(k, last) == {q \in k.rights : k.match[q] >= last}

(* r is k after it committed up to last: the change of members goes on.     *)
Moved(k, last, r) ==
  LET c == k.conf IN
  /\ SameRun([k EXCEPT !.commit = last], r) /\ NoMore(k, r)
  /\ c.state = "JOINT_NEW" /\ last >= c.index2 => r.conf = Blank
  /\ c.state = "OLD_JOINT" /\ last >= c.index =>
       /\ r.conf.state = "JOINT" /\ r.conf.index = c.index
       /\ r.conf.old = c.old /\ r.conf.app = c.app /\ r.conf.rem = c.rem
  /\ ~ (c.state = "JOINT_NEW" /\ last >= c.index2)
       /\ ~ (c.state = "OLD_JOINT" /\ last >= c.index) => r.conf = c

LEMMA CommittedConf ==
  ASSUME NEW x \in Node, NEW k, GoodNode(x, k), NEW last \in Nat
  PROVE  Moved(k, last, CommitAsLeader(k, last))
<1> DEFINE t == [k EXCEPT !.commit = last]
<1>1. PICK a : a = t
  OBVIOUS
<1>2. GoodNode(x, a) /\ a.conf = k.conf /\ a.match = k.match /\ a.next = k.next
  BY <1>1 DEF GoodNode, Processes, RightsGiven
<1>3. k.match \in [Node -> Nat \union {-1}] /\ k.next \in [Node -> Nat]
  BY ProcessFields DEF GoodNode
<1>4. PICK P \in SUBSET Node : P = k.conf.rem
  BY ProcessFields DEF GoodNode
<1>5. PICK w : w = WithoutPeers(a, P)
  OBVIOUS
<1>6. PICK f : f = [w EXCEPT !.conf = Blank]
  OBVIOUS
<1>7. GoodNode(x, w) /\ SameRun(a, w) /\ w.match = [q \in Node |-> IF q \in P THEN -1 ELSE a.match[q]]
      /\ w.next = [q \in Node |-> IF q \in P THEN 0 ELSE a.next[q]]
  <2>1. GoodNode(x, w) /\ SameRun(a, w)
    BY <1>2, <1>5, WithoutPeersGood, PeersSame
  <2>2. w = [a EXCEPT !.peers = @ \ P, !.rights = @ \ P, !.votes = @ \ P,
                      !.next = [q \in Node |-> IF q \in P THEN 0 ELSE a.next[q]],
                      !.match = [q \in Node |-> IF q \in P THEN -1 ELSE a.match[q]]]
    BY <1>5, Zenon DEF WithoutPeers
  <2>3. PICK m, i : m = [q \in Node |-> IF q \in P THEN -1 ELSE a.match[q]]
                    /\ i = [q \in Node |-> IF q \in P THEN 0 ELSE a.next[q]]
    OBVIOUS
  <2>4. w = [a EXCEPT !.peers = @ \ P, !.rights = @ \ P, !.votes = @ \ P, !.next = i, !.match = m]
    BY <2>2, <2>3
  <2>5. w.match = m /\ w.next = i
    BY <1>2, <2>4 DEF GoodNode, Processes
  <2> QED BY <2>1, <2>3, <2>5
<1>8. SameRun(w, f) /\ f.conf = Blank /\ f.match = w.match /\ f.next = w.next
  BY <1>6, <1>7 DEF SameRun, GoodNode, Processes
<1>9. SameRun(a, f) /\ NoMore(k, f)
  <2>1. \A q \in Node : f.match[q] \in {-1, k.match[q]} /\ f.next[q] \in {0, k.next[q]}
    BY <1>2, <1>7, <1>8
  <2> QED BY <1>7, <1>8, <2>1 DEF SameRun, NoMore
<1>10. PICK j : j = [a EXCEPT !.conf.state = "JOINT"]
  OBVIOUS
<1>11. /\ SameRun(a, j) /\ j.match = a.match /\ j.next = a.next
       /\ j.conf.state = "JOINT" /\ j.conf.index = k.conf.index
       /\ j.conf.old = k.conf.old /\ j.conf.app = k.conf.app /\ j.conf.rem = k.conf.rem
  BY <1>2, <1>10, ProcessFields DEF SameRun, GoodNode, Processes, Confs
<1>12. NoMore(k, j) /\ NoMore(k, a) /\ SameRun(a, a)
  BY <1>2, <1>3, <1>11 DEF NoMore, SameRun
<1>13. CommitAsLeader(k, last) =
        IF k.conf.state = "JOINT_NEW" /\ last >= k.conf.index2 THEN f
        ELSE IF k.conf.state = "OLD_JOINT" /\ last >= k.conf.index THEN j ELSE a
  <2>1. CommitAsLeader(k, last) =
        IF k.conf.state = "JOINT_NEW" /\ last >= k.conf.index2 THEN UpdateConfigurationFinish(a)
        ELSE IF k.conf.state = "OLD_JOINT" /\ last >= k.conf.index
             THEN [a EXCEPT !.conf.state = "JOINT"] ELSE a
    BY <1>1, Zenon DEF CommitAsLeader
  <2>2. UpdateConfigurationFinish(a) = f
    BY <1>2, <1>4, <1>5, <1>6, Zenon DEF UpdateConfigurationFinish
  <2> QED BY <1>10, <2>1, <2>2
<1>14. CASE k.conf.state = "JOINT_NEW" /\ last >= k.conf.index2
  BY <1>1, <1>8, <1>9, <1>13, <1>14 DEF Moved
<1>15. CASE k.conf.state = "OLD_JOINT" /\ last >= k.conf.index
  BY <1>1, <1>11, <1>12, <1>13, <1>15 DEF Moved
<1>16. CASE ~ (k.conf.state = "JOINT_NEW" /\ last >= k.conf.index2)
            /\ ~ (k.conf.state = "OLD_JOINT" /\ last >= k.conf.index)
  BY <1>1, <1>2, <1>12, <1>13, <1>16 DEF Moved
<1> QED BY <1>14, <1>15, <1>16

LEMMA UncommittedLater ==
  ASSUME NEW k, NEW r, r.log = k.log, k.log \in Seq(LogEntries), k.commit \in Int, r.commit \in Int,
         k.commit <= r.commit
  PROVE  Uncommitted(r) = {i \in Uncommitted(k) : i > r.commit}
<1>1. LastIndexOf(k.log) \in Int
  BY LogType
<1> QED BY <1>1 DEF Uncommitted

LEMMA VotesOfPeers ==
  ASSUME NEW x \in Node, NEW k, GoodNode(x, k), NEW S, S \subseteq k.rights,
         EnoughVotes(x, k, S)
  PROVE  /\ BothDecide(k.conf) /\ x \in k.conf.old => MajorityOf(S \union {x}, k.conf.old)
         /\ BothDecide(k.conf) \/ NewDecides(k.conf) => MajorityOf(S \union {x}, New(k.conf))
<1>1. k.conf.old \subseteq Node /\ S \subseteq Node /\ x \notin S
  BY ProcessFields DEF GoodNode
<1>2. ASSUME BothDecide(k.conf), x \in k.conf.old
      PROVE  MajorityOf(S \union {x}, k.conf.old)
  <2>1. MoreThanHalf(1 + Cardinality(S \cap k.conf.old), Cardinality(k.conf.old))
    BY <1>2 DEF EnoughVotes, OldVotes
  <2>2. IsFiniteSet(S \cap k.conf.old)
    BY <1>1, NodeAssumption, FS_Subset
  <2>3. x \notin S \cap k.conf.old /\ (S \cap k.conf.old) \union {x} = (S \union {x}) \cap k.conf.old
    BY <1>1, <1>2
  <2>4. Cardinality((S \cap k.conf.old) \union {x}) = Cardinality(S \cap k.conf.old) + 1
    BY <2>2, <2>3, FS_AddElement
  <2>5. Cardinality(S \cap k.conf.old) \in Nat
    BY <2>2, FS_CardinalityType
  <2>6. PICK a \in Nat : a = Cardinality(S \cap k.conf.old)
    BY <2>5
  <2>7. Cardinality((S \union {x}) \cap k.conf.old) = a + 1
    BY <2>3, <2>4, <2>6, Zenon
  <2> QED BY <2>1, <2>6, <2>7 DEF MajorityOf
<1>3. BothDecide(k.conf) \/ NewDecides(k.conf) => MajorityOf(S \union {x}, New(k.conf))
  BY DEF EnoughVotes, NewVotes, MajorityOf
<1> QED BY <1>2, <1>3

Committing(x, V, C, k, last, r) ==
  /\ last \in Nat /\ C < last /\ last <= LastIndexOf(k.log)
  /\ Leading(x, V, last, r) /\ r.log = k.log /\ NoMore(k, r)
  /\ k.conf.state = "STAGING" => r.conf = k.conf
  /\ \A i \in C + 1 .. last : DecidedBy(Voted(k, last) \union {x}, k.log, i)

LEMMA CommitUnder ==
  ASSUME NEW x \in Node, NEW V, NEW C \in Nat \union {-1}, NEW k, GoodNode(x, k),
         Leading(x, V, C, k), NEW last \in Nat \union {-1}, CanCommit(x, k, last)
  PROVE  Committing(x, V, C, k, last, CommitAsLeader(k, last))
<1>1. PICK r : r = CommitAsLeader(k, last)
  OBVIOUS
<1>2. k.commit = C /\ Conducts(x, k) /\ Subject(x, V, k.log, C, x, k) /\ KnowsFrom(k, C)
  BY DEF Leading, Subject, Behind
<1>3. last \in Nat /\ C < last /\ last <= LastIndexOf(k.log) /\ k.log \in Seq(LogEntries)
      /\ k.conf.index \in Int /\ k.conf.index2 \in Int /\ LastIndexOf(k.log) \in Int
  BY <1>2, ProcessFields, LogType DEF CanCommit, GoodNode
<1>4. PICK c \in Confs : c = k.conf
  BY ProcessFields DEF GoodNode
<1>5. /\ SameRun([k EXCEPT !.commit = last], r) /\ NoMore(k, r)
      /\ c.state = "JOINT_NEW" /\ last >= c.index2 => r.conf = Blank
      /\ c.state = "OLD_JOINT" /\ last >= c.index =>
           /\ r.conf.state = "JOINT" /\ r.conf.index = c.index
           /\ r.conf.old = c.old /\ r.conf.app = c.app /\ r.conf.rem = c.rem
      /\ ~ (c.state = "JOINT_NEW" /\ last >= c.index2)
           /\ ~ (c.state = "OLD_JOINT" /\ last >= c.index) => r.conf = c
  <2>1. Moved(k, last, r)
    BY <1>1, <1>3, CommittedConf
  <2> QED BY <1>4, <2>1 DEF Moved
<1>6. r.log = k.log /\ r.commit = last
  BY <1>5 DEF SameRun, GoodNode, Processes
<1>7. Uncommitted(r) = {i \in Uncommitted(k) : i > last} /\ Uncommitted(k) = Pending(k)
  <2>1. k.commit \in Int /\ r.commit \in Int /\ k.commit <= r.commit
    BY <1>2, <1>3, <1>6
  <2>2. Uncommitted(r) = {i \in Uncommitted(k) : i > r.commit}
    BY <1>3, <1>6, <2>1, UncommittedLater
  <2> QED BY <1>2, <1>6, <2>2 DEF Conducts
<1>8. \A i \in Uncommitted(k) : i \in Int
  BY <1>3 DEF Uncommitted
<1>9. k.conf # Blank => x \in c.old
  BY <1>2, <1>4 DEF Conducts
<1>10. BothDecide(c) \/ NewDecides(c) =>
         /\ c.index \in 0 .. LastIndexOf(k.log) /\ EntryAt(k.log, c.index).cmd = "TRANS"
         /\ EntryAt(k.log, c.index).old = c.old /\ New(EntryAt(k.log, c.index)) = New(c)
  BY <1>2, <1>4 DEF KnowsFrom, New
<1>11. Conducts(x, r) /\ KnowsFrom(r, last)
  <2>1. CASE c.state = "JOINT_NEW" /\ last >= c.index2
    <3>1. r.conf = Blank
      BY <1>5, <2>1
    <3>2. Uncommitted(r) = {}
      BY <1>3, <1>4, <1>7, <2>1 DEF Pending
    <3> QED BY <3>1, <3>2, BlankType DEF Conducts, Pending, KnowsFrom, BothDecide, NewDecides
  <2>2. CASE c.state = "OLD_JOINT" /\ last >= c.index
    <3>1. Uncommitted(r) = {}
      BY <1>3, <1>4, <1>7, <2>2 DEF Pending
    <3>2. r.conf.state = "JOINT" /\ r.conf.index = c.index /\ r.conf.old = c.old /\ r.conf.app = c.app
          /\ r.conf.rem = c.rem
      BY <1>5, <2>2
    <3>3. Conducts(x, r)
      BY <1>4, <1>9, <2>2, <3>1, <3>2, BlankType DEF Conducts, Pending
    <3>4. KnowsFrom(r, last)
      BY <1>2, <1>4, <1>6, <2>2, <3>2 DEF KnowsFrom, BothDecide
    <3> QED BY <3>3, <3>4
  <2>3. CASE ~ (c.state = "JOINT_NEW" /\ last >= c.index2) /\ ~ (c.state = "OLD_JOINT" /\ last >= c.index)
    <3>1. r.conf = c
      BY <1>5, <2>3
    <3>2. Uncommitted(r) = Pending(r)
      BY <1>3, <1>4, <1>7, <2>3, <3>1 DEF Pending
    <3>3. Conducts(x, r)
      BY <1>2, <1>4, <1>6, <3>1, <3>2 DEF Conducts
    <3>4. KnowsFrom(r, last)
      BY <1>2, <1>3, <1>4, <1>6, <3>1 DEF KnowsFrom
    <3> QED BY <3>3, <3>4
  <2> QED BY <2>1, <2>2, <2>3
<1>12. Leading(x, V, last, r)
  BY <1>3, <1>5, <1>11, LeadingFrom
<1>13. EnoughVotes(x, k, Voted(k, last)) /\ Voted(k, last) \subseteq k.rights
  BY DEF CanCommit, Voted
<1>14. ASSUME NEW i \in C + 1 .. last PROVE DecidedBy(Voted(k, last) \union {x}, k.log, i)
  <2>1. i \in 0 .. LastIndexOf(k.log) /\ i > k.commit
    BY <1>2, <1>3
  <2>2. EntryAt(k.log, i).cmd # "DATA" => i \in Pending(k)
    BY <1>7, <2>1 DEF Uncommitted
  <2>3. CASE c.state = "OLD_JOINT" /\ i = c.index
    <3>1. MajorityOf(Voted(k, last) \union {x}, c.old) /\ MajorityOf(Voted(k, last) \union {x}, New(c))
      BY <1>4, <1>9, <1>13, <2>3, VotesOfPeers, BlankType DEF BothDecide
    <3>2. EntryAt(k.log, i).cmd = "TRANS" /\ EntryAt(k.log, i).old = c.old
          /\ New(EntryAt(k.log, i)) = New(c)
      BY <1>10, <2>3 DEF BothDecide
    <3> QED BY <3>1, <3>2 DEF DecidedBy
  <2>4. CASE c.state = "JOINT_NEW" /\ i = c.index2
    <3>1. MajorityOf(Voted(k, last) \union {x}, New(c))
      BY <1>4, <1>13, <2>4, VotesOfPeers DEF NewDecides
    <3>2. EntryAt(k.log, i).cmd = "TRANS_NEW" /\ c.index < i
      BY <1>2, <1>4, <2>4 DEF Conducts
    <3>3. c.index \in 0 .. i - 1 /\ EntryAt(k.log, c.index).cmd = "TRANS"
          /\ New(EntryAt(k.log, c.index)) = New(c)
      BY <1>3, <1>10, <2>1, <2>4, <3>2 DEF NewDecides
    <3> QED BY <3>1, <3>2, <3>3 DEF DecidedBy
  <2>5. CASE EntryAt(k.log, i).cmd = "DATA"
    BY <2>5 DEF DecidedBy
  <2> QED BY <1>4, <2>2, <2>3, <2>4, <2>5 DEF Pending
<1> QED BY <1>1, <1>3, <1>4, <1>5, <1>6, <1>12, <1>14 DEF Committing

Told(x, V, C, D, l, p, last, r) ==
  /\ C <= D /\ D <= LastIndexOf(l.log)
  /\ Leading(x, V, D, r) /\ PrefixOf(l.log, r.log) /\ r.log \in Seq(LogEntries)
  /\ \A q \in Node : /\ r.match[q] \in {-1, IF q = p THEN last ELSE l.match[q]}
                     /\ r.next[q] \in {0, IF q = p THEN last + 1 ELSE l.next[q]}
  /\ \E S \in SUBSET Node : /\ \A q \in S : D <= IF q = p THEN last ELSE l.match[q]
                            /\ \A i \in C + 1 .. D : DecidedBy(S \union {x}, l.log, i)

LEMMA SuccessUnder ==
  ASSUME NEW x \in Node, NEW V, NEW C \in Nat \union {-1}, NEW l, GoodNode(x, l),
         Leading(x, V, C, l), NEW p \in l.peers, NEW last \in Nat \union {-1},
         last <= LastIndexOf(l.log)
  PROVE  \E D \in Nat \union {-1} :
           Told(x, V, C, D, l, p, last, OnAppendEntriesSuccess(x, l, p, last))
<1> DEFINE b == CaughtUp(l, p, last)
           i == Min({last, LastIndexOf(l.log)})
           t == Known(b, p, i)
           u == IF CanCommit(x, t, last) THEN CommitAsLeader(t, last) ELSE t
<1>1. OnAppendEntriesSuccess(x, l, p, last) =
        IF StagingEnds(l, t, p) THEN UpdateConfigurationJoint(u) ELSE u
  BY Zenon DEF OnAppendEntriesSuccess
<1>2. /\ l.log \in Seq(LogEntries) /\ LastIndexOf(l.log) \in Nat \union {-1} /\ p \in Node
      /\ l.match \in [Node -> Nat \union {-1}] /\ l.next \in [Node -> Nat] /\ l.peers \subseteq Node
  <2>1. l.log \in Seq(LogEntries) /\ l.match \in [Node -> Nat \union {-1}]
        /\ l.next \in [Node -> Nat] /\ l.peers \subseteq Node
    BY ProcessFields DEF GoodNode
  <2> QED BY <2>1, LogType
<1>3. i = last
  <2>1. PICK m \in Int, c \in Int : m = LastIndexOf(l.log) /\ c = last
    BY <1>2
  <2>2. Min({c, m}) \in {c, m} /\ Min({c, m}) <= c /\ Min({c, m}) <= m
    BY LesserNumber
  <2> QED BY <2>1, <2>2
<1>4. /\ GoodNode(x, b) /\ b.conf = l.conf /\ SameRun(l, b)
      /\ b.match = l.match /\ b.next = l.next
  <2>1. GoodNode(x, b) /\ b.conf = l.conf
    BY CaughtUpGood
  <2>2. SameRun(l, b) /\ b.match = l.match /\ b.next = l.next
    BY DEF CaughtUp, SameRun, GoodNode, Processes
  <2> QED BY <2>1, <2>2
<1> HIDE DEF b, i
<1>5. /\ GoodNode(x, t) /\ t.conf = l.conf /\ SameRun(b, t)
      /\ \A q \in Node : /\ t.match[q] = IF q = p THEN last ELSE l.match[q]
                         /\ t.next[q] = IF q = p THEN last + 1 ELSE l.next[q]
  <2>1. GoodNode(x, t) /\ t.conf = l.conf
    BY <1>3, <1>4, KnownGood
  <2>2. PICK nx, mt : nx = [b.next EXCEPT ![p] = last + 1] /\ mt = [b.match EXCEPT ![p] = last]
    OBVIOUS
  <2>3. t = [b EXCEPT !.next = nx, !.match = mt]
    BY <1>3, <1>4, <2>2 DEF Known, GoodNode, Processes
  <2>4. SameRun(b, t) /\ t.match = mt /\ t.next = nx
    BY <1>4, <2>3 DEF SameRun, GoodNode, Processes
  <2>5. \A q \in Node : /\ mt[q] = IF q = p THEN last ELSE l.match[q]
                        /\ nx[q] = IF q = p THEN last + 1 ELSE l.next[q]
    BY <1>2, <1>4, <2>2
  <2> QED BY <2>1, <2>4, <2>5
<1>6. SameRun(l, t)
  BY <1>4, <1>5 DEF SameRun
<1>7. Leading(x, V, C, t) /\ t.log = l.log
  BY <1>5, <1>6, LeadingSame DEF SameRun
<1> HIDE DEF t
<1> DEFINE Reached(D, a) ==
             /\ C <= D /\ D <= LastIndexOf(l.log) /\ Leading(x, V, D, a) /\ a.log = l.log /\ NoMore(t, a)
             /\ t.conf.state = "STAGING" => a.conf = t.conf
             /\ \E S \in SUBSET Node : /\ \A q \in S : D <= t.match[q]
                                       /\ \A j \in C + 1 .. D : DecidedBy(S \union {x}, l.log, j)
             /\ GoodNode(x, a)
<1>8. PICK D \in Nat \union {-1} : Reached(D, u)
  <2>1. CASE CanCommit(x, t, last)
    <3>0. PICK a : a = u
      OBVIOUS
    <3>6. Committing(x, V, C, t, last, CommitAsLeader(t, last))
      BY <1>5, <1>7, <2>1, CommitUnder
    <3>1. /\ last \in Nat /\ C < last /\ last <= LastIndexOf(t.log)
          /\ Leading(x, V, last, a) /\ a.log = t.log /\ NoMore(t, a)
          /\ t.conf.state = "STAGING" => a.conf = t.conf
          /\ \A j \in C + 1 .. last : DecidedBy(Voted(t, last) \union {x}, t.log, j)
      BY <2>1, <3>0, <3>6 DEF Committing
    <3>2. GoodNode(x, a)
      BY <1>5, <2>1, <3>0, <3>1, CommitAsLeaderGood
    <3>3. t.rights \subseteq Node
      BY <1>5, ProcessFields DEF GoodNode
    <3>4. PICK S \in SUBSET Node : S = Voted(t, last)
      BY <3>3 DEF Voted
    <3>5. \A q \in S : last <= t.match[q]
      <4>1. t.match \in [Node -> Nat \union {-1}]
        BY <1>5, ProcessFields DEF GoodNode
      <4> QED BY <3>1, <3>4, <4>1 DEF Voted
    <3>8. \A j \in C + 1 .. last : DecidedBy(S \union {x}, l.log, j)
      BY <1>7, <3>1, <3>4
    <3>9. \E Q \in SUBSET Node : /\ \A q \in Q : last <= t.match[q]
                                 /\ \A j \in C + 1 .. last : DecidedBy(Q \union {x}, l.log, j)
      BY <3>5, <3>8
    <3>10. C <= last /\ last <= LastIndexOf(l.log) /\ a.log = l.log
      BY <1>7, <3>1
    <3>7. Reached(last, a)
      BY <3>1, <3>2, <3>9, <3>10
    <3> HIDE DEF Reached
    <3> QED BY <3>0, <3>7
  <2>2. CASE ~ CanCommit(x, t, last)
    <3>1. u = t
      BY <2>2
    <3>2. NoMore(t, t)
      BY DEF NoMore
    <3>3. C <= LastIndexOf(l.log)
      BY <1>7 DEF Leading, Subject, Behind
    <3>4. \A j \in C + 1 .. C : DecidedBy({} \union {x}, l.log, j)
      OBVIOUS
    <3>5. {} \in SUBSET Node /\ \A q \in {} : C <= t.match[q]
      OBVIOUS
    <3>7. \E Q \in SUBSET Node : /\ \A q \in Q : C <= t.match[q]
                                 /\ \A j \in C + 1 .. C : DecidedBy(Q \union {x}, l.log, j)
      BY <3>4, <3>5
    <3>8. C <= C
      OBVIOUS
    <3>6. Reached(C, t)
      BY <1>5, <1>7, <3>2, <3>3, <3>7, <3>8
    <3> HIDE DEF Reached, u
    <3> QED BY <3>1, <3>6
  <2> QED BY <2>1, <2>2
<1> HIDE DEF u
<1>9. \A q \in Node : /\ u.match[q] \in {-1, IF q = p THEN last ELSE l.match[q]}
                      /\ u.next[q] \in {0, IF q = p THEN last + 1 ELSE l.next[q]}
  BY <1>5, <1>8 DEF NoMore
<1>10. \E S \in SUBSET Node : /\ \A q \in S : D <= IF q = p THEN last ELSE l.match[q]
                              /\ \A j \in C + 1 .. D : DecidedBy(S \union {x}, l.log, j)
  BY <1>5, <1>8
<1>11. PrefixOf(l.log, l.log)
  BY <1>2, LenProperties DEF PrefixOf
<1>12. CASE ~ StagingEnds(l, t, p)
  <2>1. Told(x, V, C, D, l, p, last, u)
    BY <1>2, <1>8, <1>9, <1>10, <1>11 DEF Told
  <2> QED BY <1>1, <1>12, <2>1
<1>13. CASE StagingEnds(l, t, p)
  <2>1. l.conf.state = "STAGING"
    BY <1>13 DEF StagingEnds, GoodNode, RightsGiven
  <2>2. PICK a, w : a = u /\ w = UpdateConfigurationJoint(a)
    OBVIOUS
  <2>3. GoodNode(x, a) /\ Leading(x, V, D, a) /\ a.conf.state = "STAGING" /\ a.log = l.log
    BY <1>5, <1>8, <2>1, <2>2
  <2>4. /\ Leading(x, V, D, w) /\ PrefixOf(a.log, w.log) /\ w.log \in Seq(LogEntries)
        /\ w.next = a.next /\ w.match = a.match
    BY <2>2, <2>3, JointUnder
  <2>5. Told(x, V, C, D, l, p, last, w)
    BY <1>8, <1>9, <1>10, <2>2, <2>3, <2>4 DEF Told
  <2> QED BY <1>1, <1>13, <2>2, <2>5
<1> QED BY <1>12, <1>13
-----------------------------------------------------------------------------
(* The leader and a follower: what became decided is what the leader         *)
(* committed.                                                               *)
LEMMA UpToGrows ==
  ASSUME NEW a \in Seq(LogEntries), NEW b \in Seq(LogEntries), PrefixOf(a, b),
         NEW C \in Nat \union {-1}, NEW D \in Nat \union {-1}, C <= D, C <= LastIndexOf(a)
  PROVE  UpTo(a, C) \subseteq UpTo(b, D)
<1>1. \A i \in 0 .. C : i \in 0 .. LastIndexOf(a) /\ i \in 0 .. D
  BY LogType
<1>2. \A i \in 0 .. C : EntryAt(a, i) = EntryAt(b, i)
  BY <1>1, PrefixFacts
<1> QED BY <1>1, <1>2 DEF UpTo

LEMMA DecidedUpTo ==
  ASSUME NEW s, s.log \in Seq(LogEntries), s.commit \in Nat \union {-1},
         s.commit <= LastIndexOf(s.log)
  PROVE  Decided(s) = UpTo(s.log, s.commit)
<1>1. LastIndexOf(s.log) \in Int
  BY LogType
<1>2. PICK m \in Int, c \in Int : m = LastIndexOf(s.log) /\ c = s.commit
  BY <1>1
<1>3. Min({c, m}) \in {c, m} /\ Min({c, m}) <= c /\ Min({c, m}) <= m
  BY LesserNumber
<1>4. Min({c, m}) = c
  BY <1>2, <1>3
<1> QED BY <1>2, <1>4 DEF Decided, UpTo

(* What x knows after an exchange with p, whether it heard the answer or not. *)
Heard(x, V, C, D, l, p, last, r) ==
  /\ C <= D /\ D <= LastIndexOf(l.log)
  /\ Leading(x, V, D, r) /\ PrefixOf(l.log, r.log) /\ r.log \in Seq(LogEntries)
  /\ \A q \in Node : /\ r.match[q] \in {-1, l.match[q], IF q = p THEN last ELSE l.match[q]}
                     /\ r.next[q] \in {0, l.next[q], IF q = p THEN last + 1 ELSE l.next[q]}
  /\ \E S \in SUBSET Node : /\ \A q \in S : D <= IF q = p THEN last ELSE l.match[q]
                            /\ \A i \in C + 1 .. D : DecidedBy(S \union {x}, l.log, i)

LEMMA AnswerUnder ==
  ASSUME NEW x \in Node, NEW V, NEW C \in Nat \union {-1}, NEW l, GoodNode(x, l),
         Leading(x, V, C, l), NEW p \in l.peers, NEW s, NEW reply,
         Followed(x, V, C, l, p, s, reply), NEW answered \in BOOLEAN
  PROVE  \E D \in Nat \union {-1} :
           Heard(x, V, C, D, l, p, LastIndexOf(reply.after.log),
                 IF answered THEN OnAppendEntriesResponse(x, l, p, reply) ELSE l)
<1>1. PICK last : last = LastIndexOf(reply.after.log)
  OBVIOUS
<1>2. /\ l.log \in Seq(LogEntries) /\ l.match \in [Node -> Nat \union {-1}] /\ l.next \in [Node -> Nat]
  BY ProcessFields DEF GoodNode
<1>3. last \in Nat \union {-1} /\ last <= LastIndexOf(l.log) /\ LastIndexOf(l.log) \in Int
  <2>1. reply.after.log \in Seq(LogEntries) /\ PrefixOf(reply.after.log, l.log)
    BY DEF Followed
  <2> QED BY <1>1, <1>2, <2>1, PrefixFacts, LogType
<1>4. CASE answered
  <2>1. PICK r : r = OnAppendEntriesSuccess(x, l, p, last)
    OBVIOUS
  <2>2. OnAppendEntriesResponse(x, l, p, reply) = r
    <3>1. reply.success /\ ~ (reply.after.term > l.term)
      BY DEF Followed, Leading, Subject
    <3> QED BY <1>1, <2>1, <3>1, Zenon DEF OnAppendEntriesResponse
  <2>3. PICK D \in Nat \union {-1} : Told(x, V, C, D, l, p, last, r)
    BY <1>3, <2>1, SuccessUnder
  <2>4. Heard(x, V, C, D, l, p, last, r)
    BY <2>3 DEF Told, Heard
  <2> QED BY <1>1, <1>4, <2>2, <2>4
<1>5. CASE ~ answered
  <2>1. C <= C /\ C <= LastIndexOf(l.log) /\ PrefixOf(l.log, l.log)
    <3>1. l.commit = C /\ l.commit <= LastIndexOf(l.log)
      BY DEF Leading, Subject, Behind
    <3> QED BY <1>2, <3>1, LenProperties DEF PrefixOf
  <2>2. \E S \in SUBSET Node : /\ \A q \in S : C <= IF q = p THEN last ELSE l.match[q]
                               /\ \A i \in C + 1 .. C : DecidedBy(S \union {x}, l.log, i)
    <3>1. {} \in SUBSET Node /\ \A i \in C + 1 .. C : DecidedBy({} \union {x}, l.log, i)
      OBVIOUS
    <3> QED BY <3>1
  <2>3. Heard(x, V, C, C, l, p, last, l)
    BY <1>2, <2>1, <2>2 DEF Heard
  <2> QED BY <1>1, <1>5, <2>3
<1> QED BY <1>4, <1>5

LEMMA AppendEntriesUnder ==
  ASSUME AllGood, AllGood', FirstTerm, NEW x \in Members, NEW V, NEW C \in Nat \union {-1},
         Under(x, V, C), NEW n \in Node, NEW p \in Node, NEW answered \in BOOLEAN,
         AppendEntries(n, p, answered)
  PROVE  \E D \in Nat \union {-1} : Under(x, V, D)'
<1> DEFINE l == node[x]
           s == node[p]
<1>1. /\ n = x /\ x \in Node /\ l.state = "Leader" /\ p \in l.peers
  BY UnderSubject DEF AppendEntries, Subject
<1>2. PICK prevTerm, reply :
        /\ prevTerm \in PrevTerms(l, l.next[p] - 1)
        /\ reply = OnAppendEntriesRequest(p, s, x, l, prevTerm)
        /\ node' = [node EXCEPT ![p] = reply.after,
                      ![x] = IF answered THEN OnAppendEntriesResponse(x, l, p, reply) ELSE l]
  <2>1. AppendEntries(x, p, answered)
    BY <1>1
  <2>2. \E prevTerm \in PrevTerms(l, l.next[p] - 1) :
          node' = [node EXCEPT ![p] = OnAppendEntriesRequest(p, s, x, l, prevTerm).after,
                     ![x] = IF answered
                            THEN OnAppendEntriesResponse(x, l, p, OnAppendEntriesRequest(p, s, x, l, prevTerm))
                            ELSE l]
    BY <2>1, Zenon DEF AppendEntries
  <2> QED BY <2>2, Zenon
<1>3. committed' = committed \union Decided(node'[x]) \union Decided(node'[p])
  BY <1>1, Zenon DEF AppendEntries
<1>4. /\ GoodNode(x, l) /\ Subject(x, V, l.log, C, x, l) /\ l.log \in Seq(LogEntries)
      /\ GoodNode(p, s) /\ Subject(x, V, l.log, C, p, s) /\ s.log \in Seq(LogEntries)
      /\ s.term <= 1 /\ KnowsPeers(l)
  BY <1>1, UnderSubject DEF FirstTerm, Under
<1>5. p # x
  BY <1>1, <1>4 DEF GoodNode
<1>6. Leading(x, V, C, l)
  BY <1>1, <1>4 DEF Under, Leading
<1>7. Followed(x, V, C, l, p, s, reply)
  <2>1. l.next[p] <= Len(s.log)
    BY <1>4 DEF KnowsPeers
  <2> QED BY <1>1, <1>2, <1>4, <1>5, <1>6, <2>1, FollowerUnder
<1>8. PICK f, last, r : /\ f = reply.after /\ last = LastIndexOf(f.log)
                        /\ r = IF answered THEN OnAppendEntriesResponse(x, l, p, reply) ELSE l
  OBVIOUS
<1>9. PICK D \in Nat \union {-1} : Heard(x, V, C, D, l, p, last, r)
  BY <1>1, <1>4, <1>6, <1>7, <1>8, AnswerUnder
<1>10. node'[x] = r /\ node'[p] = f /\ \A q \in Node \ {x, p} : node'[q] = node[q]
  BY <1>1, <1>2, <1>5, <1>8, Zenon DEF AllGood
<1>11. /\ f.log \in Seq(LogEntries) /\ PrefixOf(s.log, f.log) /\ PrefixOf(f.log, l.log)
       /\ Subject(x, V, l.log, C, p, f) /\ GoodNode(p, f)
  BY <1>7, <1>8, <1>10 DEF Followed, AllGood
<1>12. /\ C <= D /\ D <= LastIndexOf(l.log) /\ Leading(x, V, D, r)
       /\ PrefixOf(l.log, r.log) /\ r.log \in Seq(LogEntries)
  BY <1>9 DEF Heard
<1> HIDE DEF l, s
<1>13. ASSUME NEW q \in Node
       PROVE  /\ Len(node[q].log) \in Nat /\ Len(node'[q].log) \in Nat
              /\ Len(node[q].log) <= Len(node'[q].log)
  <2>1. \A a, b \in Seq(LogEntries) : PrefixOf(a, b) => Len(a) \in Nat /\ Len(b) \in Nat /\ Len(a) <= Len(b)
    BY LenProperties DEF PrefixOf
  <2>2. CASE q = x
    BY <1>4, <1>10, <1>12, <2>1, <2>2 DEF l
  <2>3. CASE q = p
    BY <1>4, <1>10, <1>11, <2>1, <2>3 DEF s
  <2>4. CASE q \notin {x, p}
    <3>1. node'[q] = node[q] /\ Len(node[q].log) \in Nat
      BY <1>10, <2>4, UnderSubject
    <3> QED BY <3>1
  <2> QED BY <2>2, <2>3, <2>4
<1>14. \A q \in Node : Subject(x, V, node'[x].log, D, q, node'[q])
  <2> SUFFICES ASSUME NEW q \in Node PROVE Subject(x, V, r.log, D, q, node'[q])
    BY <1>10
  <2>1. CASE q = x
    BY <1>10, <1>12, <2>1 DEF Leading
  <2>2. CASE q = p
    BY <1>4, <1>10, <1>11, <1>12, <2>2, SubjectBehind
  <2>3. CASE q \notin {x, p}
    <3>1. node'[q] = node[q] /\ GoodNode(q, node[q]) /\ Subject(x, V, l.log, C, q, node[q])
      BY <1>10, <2>3, UnderSubject DEF l
    <3> QED BY <1>4, <1>12, <3>1, SubjectBehind
  <2> QED BY <2>1, <2>2, <2>3
<1>15. committed' = UpTo(node'[x].log, D)
  <2>1. committed = UpTo(l.log, C) /\ C <= LastIndexOf(l.log)
    BY DEF Under, l
  <2>2. UpTo(l.log, C) \subseteq UpTo(r.log, D)
    BY <1>4, <1>12, <2>1, UpToGrows
  <2>3. r.commit = D /\ r.commit <= LastIndexOf(r.log)
    BY <1>12 DEF Leading, Subject, Behind
  <2>4. Decided(r) = UpTo(r.log, D)
    BY <1>12, <2>3, DecidedUpTo
  <2>5. f.commit \in Nat \union {-1} /\ f.commit <= C /\ f.commit <= LastIndexOf(f.log)
    BY <1>11, ProcessFields DEF GoodNode, Subject, Behind
  <2>6. Decided(f) = UpTo(f.log, f.commit)
    BY <1>11, <2>5, DecidedUpTo
  <2>7. UpTo(f.log, f.commit) \subseteq UpTo(l.log, C)
    BY <1>4, <1>11, <2>5, UpToGrows
  <2> QED BY <1>3, <1>10, <2>1, <2>2, <2>4, <2>6, <2>7
<1>16. \A q \in Node : /\ l.match[q] \in Int /\ l.next[q] \in Int
                       /\ l.match[q] <= LastIndexOf(node[q].log) /\ l.next[q] <= Len(node[q].log)
  <2>1. l.match \in [Node -> Nat \union {-1}] /\ l.next \in [Node -> Nat]
    BY <1>4, ProcessFields DEF GoodNode
  <2> QED BY <1>4, <2>1 DEF KnowsPeers
<1>17. ASSUME NEW q \in Node, NEW m, m \in {l.match[q], IF q = p THEN last ELSE l.match[q]}
       PROVE  m \in Int /\ m <= LastIndexOf(node'[q].log)
  <2>1. CASE m = l.match[q]
    <3>1. PICK a \in Nat, b \in Nat : a = Len(node[q].log) /\ b = Len(node'[q].log) /\ a <= b
      BY <1>13
    <3>2. m \in Int /\ m <= a - 1
      BY <1>16, <2>1, <3>1 DEF LastIndexOf
    <3>3. LastIndexOf(node'[q].log) = b - 1
      BY <3>1 DEF LastIndexOf
    <3> QED BY <3>1, <3>2, <3>3
  <2>2. CASE q = p /\ m = last
    <3>1. m = Len(f.log) - 1 /\ LastIndexOf(node'[q].log) = Len(f.log) - 1 /\ Len(f.log) \in Nat
      BY <1>8, <1>10, <1>13, <2>2 DEF LastIndexOf
    <3> QED BY <3>1
  <2> QED BY <1>17, <2>1, <2>2
<1>18. KnowsPeers(node[x])'
  <2> SUFFICES ASSUME NEW q \in Node
               PROVE  r.match[q] <= LastIndexOf(node'[q].log) /\ r.next[q] <= Len(node'[q].log)
    BY <1>10 DEF KnowsPeers
  <2>1. Len(node'[q].log) \in Nat /\ LastIndexOf(node'[q].log) = Len(node'[q].log) - 1
    BY <1>13 DEF LastIndexOf
  <2>2. r.match[q] <= LastIndexOf(node'[q].log)
    <3>1. r.match[q] = -1 \/ r.match[q] \in {l.match[q], IF q = p THEN last ELSE l.match[q]}
      BY <1>9 DEF Heard
    <3>2. CASE r.match[q] = -1
      BY <2>1, <3>2
    <3>3. CASE r.match[q] \in {l.match[q], IF q = p THEN last ELSE l.match[q]}
      BY <1>17, <3>3
    <3> QED BY <3>1, <3>2, <3>3
  <2>3. r.next[q] <= Len(node'[q].log)
    <3>1. r.next[q] \in {0, l.next[q], IF q = p THEN last + 1 ELSE l.next[q]}
      BY <1>9 DEF Heard
    <3>2. CASE r.next[q] \in {0, l.next[q]}
      <4>1. PICK a \in Nat, b \in Nat : a = Len(node[q].log) /\ b = Len(node'[q].log) /\ a <= b
        BY <1>13
      <4>2. PICK m \in Int : m = l.next[q] /\ m <= a
        BY <1>16, <4>1
      <4> QED BY <3>2, <4>1, <4>2
    <3>3. CASE q = p /\ r.next[q] = last + 1
      <4>1. last \in Int /\ last <= LastIndexOf(node'[q].log)
        BY <1>17, <3>3
      <4> QED BY <2>1, <3>3, <4>1
    <3> QED BY <3>1, <3>2, <3>3
  <2> QED BY <2>2, <2>3
<1>19. ASSUME NEW i \in C + 1 .. D PROVE OnMajorities(node[x].log, i)'
  <2>1. PICK S \in SUBSET Node : /\ \A q \in S : D <= IF q = p THEN last ELSE l.match[q]
                                 /\ DecidedBy(S \union {x}, l.log, i)
    BY <1>9 DEF Heard
  <2>2. i \in Nat /\ i <= LastIndexOf(l.log) /\ LastIndexOf(l.log) \in Int
    BY <1>4, <1>12, LogType
  <2>3. S \union {x} \subseteq HoldersOf(i)' /\ HoldersOf(i)' \subseteq Node
    <3>1. ASSUME NEW q \in S PROVE i <= LastIndexOf(node'[q].log)
      <4>1. PICK m : m = IF q = p THEN last ELSE l.match[q]
        OBVIOUS
      <4>2. m \in Int /\ m <= LastIndexOf(node'[q].log) /\ D <= m
        BY <1>17, <2>1, <4>1
      <4>3. LastIndexOf(node'[q].log) \in Int
        BY <1>13 DEF LastIndexOf
      <4> QED BY <4>2, <4>3
    <3>2. i <= LastIndexOf(node'[x].log)
      <4>1. LastIndexOf(l.log) <= LastIndexOf(r.log) /\ LastIndexOf(r.log) \in Int
        BY <1>4, <1>12, PrefixFacts, LogType
      <4> QED BY <1>10, <2>2, <4>1
    <3> QED BY <1>1, <3>1, <3>2 DEF HoldersOf
  <2>4. \A j \in 0 .. i : EntryAt(r.log, j) = EntryAt(l.log, j) /\ EntryAt(l.log, j) \in LogEntries
    <3>1. \A j \in 0 .. i : j \in 0 .. LastIndexOf(l.log)
      BY <2>2
    <3> QED BY <1>4, <1>12, <3>1, PrefixFacts, LogType
  <2>5. \A e \in LogEntries : e.old \in SUBSET Node /\ New(e) \in SUBSET Node
    BY DEF LogEntries, New
  <2>6. ASSUME NEW Q \in SUBSET Node, MajorityOf(S \union {x}, Q)
        PROVE  MajorityOf(HoldersOf(i)', Q)
    BY <1>1, <2>3, <2>6, MajorityGrows
  <2>7. OnMajorities(r.log, i)'
    <3>1. PICK T : T = HoldersOf(i)'
      OBVIOUS
    <3>2. PICK Z \in SUBSET Node : Z = S \union {x}
      BY <1>1
    <3>3. ASSUME NEW Q \in SUBSET Node, MajorityOf(Z, Q) PROVE MajorityOf(T, Q)
      BY <2>6, <3>1, <3>2, <3>3
    <3>0. PICK a : a = r.log
      OBVIOUS
    <3>4. PICK e \in LogEntries : e = EntryAt(a, i) /\ e = EntryAt(l.log, i)
      BY <2>2, <2>4, <3>0
    <3>5. e.cmd = "TRANS" => MajorityOf(T, e.old) /\ MajorityOf(T, New(e))
      BY <2>1, <2>5, <3>2, <3>3, <3>4 DEF DecidedBy
    <3>6. e.cmd = "TRANS_NEW" =>
            \E j \in 0 .. i - 1 : EntryAt(l.log, j).cmd = "TRANS" /\ MajorityOf(Z, New(EntryAt(l.log, j)))
      BY <2>1, <3>2, <3>4 DEF DecidedBy
    <3>7. ASSUME NEW j \in 0 .. i - 1
          PROVE  EntryAt(a, j) = EntryAt(l.log, j) /\ New(EntryAt(l.log, j)) \in SUBSET Node
      BY <2>2, <2>4, <2>5, <3>0
    <3>8. e.cmd = "TRANS_NEW" =>
            \E j \in 0 .. i - 1 : EntryAt(a, j).cmd = "TRANS" /\ MajorityOf(T, New(EntryAt(a, j)))
      BY <3>3, <3>6, <3>7
    <3> QED BY <3>0, <3>1, <3>4, <3>5, <3>8 DEF OnMajorities
  <2> QED BY <1>10, <2>7
<1>20. D <= LastIndexOf(node'[x].log)
  BY <1>4, <1>10, <1>12, PrefixFacts, LogType
<1>21. PrefixOf(node[x].log, node'[x].log) /\ OfFirstTerm(node'[x].log) /\ JointBefore(node'[x].log, D)
       /\ node'[x].commit = D /\ Conducts(x, node'[x])
  BY <1>10, <1>12 DEF Leading, l
<1> QED BY <1>12, <1>13, <1>14, <1>15, <1>18, <1>19, <1>20, <1>21, StepUnder
-----------------------------------------------------------------------------
(* Before anybody leads.                                                    *)
LEMMA InitNoLeader == Init => NoLeaderYet
<1> SUFFICES ASSUME Init PROVE NoLeaderYet
  OBVIOUS
<1>1. ASSUME NEW n \in Node
      PROVE  /\ node[n].log = <<>> /\ node[n].conf = Blank
             /\ node[n].peers = Members \ {n} /\ node[n].rights = Members \ {n}
             /\ node[n].state = "Follower" /\ node[n].commit = -1
             /\ \A p \in Node : node[n].match[p] = -1
  <2>1. node[n] = Process(Members \ {n})
    BY Zenon DEF Init
  <2> QED BY <2>1 DEF Process
<1>2. committed = {}
  BY DEF Init
<1> QED BY <1>1, <1>2 DEF NoLeaderYet, Fresh, FreshUntilTold

LEMMA Novice ==
  ASSUME AllGood, NoLeaderYet, NEW n \in Node
  PROVE  /\ GoodNode(n, node[n]) /\ Fresh(n, node[n]) /\ FreshUntilTold(n, node[n])
         /\ node[n].state # "Leader" /\ node[n].commit = -1
         /\ \A p \in Node : node[n].match[p] = -1
         /\ node[n].term \in Nat
<1>1. node[n].term \in 0 .. MaxTerm
  BY ProcessFields DEF AllGood, GoodNode
<1> QED BY <1>1 DEF AllGood, NoLeaderYet

LEMMA OnTimerElectionEarly ==
  ASSUME AllGood, NoLeaderYet, FirstTerm', NEW n \in Node, OnTimerElection(n)
  PROVE  NoLeaderYet'
<1> DEFINE s == node[n]
           t == [s EXCEPT !.state = "Candidate", !.term = @ + 1, !.voteFor = n,
                          !.leader = None, !.votes = {}]
<1>1. node' = [node EXCEPT ![n] = t] /\ committed' = {}
  BY Zenon DEF OnTimerElection, NoLeaderYet
<1>2. node'[n] = t /\ \A q \in Node \ {n} : node'[q] = node[q]
  BY <1>1, Zenon DEF AllGood
<1>3. GoodNode(n, s) /\ Fresh(n, s) /\ s.commit = -1 /\ s.term \in Nat
      /\ \A p \in Node : s.match[p] = -1
  BY Novice
<1> HIDE DEF s
<1>4. /\ t.state = "Candidate" /\ t.term = s.term + 1 /\ t.voteFor = n /\ t.votes = {}
      /\ t.log = s.log /\ t.conf = s.conf /\ t.peers = s.peers /\ t.rights = s.rights
      /\ t.commit = s.commit /\ t.match = s.match
  BY <1>3 DEF GoodNode, Processes
<1> HIDE DEF t
<1>5. s.term = 0 /\ t.term = 1
  BY <1>2, <1>3, <1>4 DEF FirstTerm
<1>6. Fresh(n, t) /\ FreshUntilTold(n, t) /\ t.state # "Leader" /\ t.commit = -1
      /\ \A p \in Node : t.match[p] = -1
  BY <1>3, <1>4, <1>5 DEF Fresh, FreshUntilTold
<1>7. ASSUME NEW d \in Node, node'[d].state = "Candidate", NEW p \in node'[d].votes
      PROVE  node'[p].term = 1 /\ node'[p].voteFor = d /\ node'[p].state = "Follower"
  <2>1. d # n
    BY <1>2, <1>4, <1>7
  <2>2. node[d].state = "Candidate" /\ p \in node[d].votes
    BY <1>2, <1>7, <2>1
  <2>3. node[p].term = 1 /\ node[p].voteFor = d /\ node[p].state = "Follower"
    BY <2>2 DEF NoLeaderYet
  <2>4. p # n /\ p \in Node
    <3>1. node[d].votes \subseteq Node
      BY ProcessFields DEF AllGood, GoodNode
    <3> QED BY <1>5, <2>2, <2>3, <3>1 DEF s
  <2> QED BY <1>2, <2>3, <2>4
<1> QED BY <1>1, <1>2, <1>6, <1>7, Novice DEF NoLeaderYet

LEMMA RestartEarly ==
  ASSUME AllGood, NoLeaderYet, NEW n \in Node, Restart(n)
  PROVE  NoLeaderYet'
<1> DEFINE s == node[n]
           P == LoadedPeers(n, s)
           t == [Process(P) EXCEPT !.term = s.term, !.voteFor = s.voteFor,
                                   !.log = s.log, !.conf = s.conf]
<1>1. node' = [node EXCEPT ![n] = t] /\ committed' = {}
  BY Zenon DEF Restart, NoLeaderYet
<1>2. node'[n] = t /\ \A q \in Node \ {n} : node'[q] = node[q]
  BY <1>1, Zenon DEF AllGood
<1>3. GoodNode(n, s) /\ Fresh(n, s) /\ s.state # "Leader"
  BY Novice
<1>4. P = s.peers
  BY <1>3, BlankType DEF LoadedPeers, NewDecides, BothDecide, GoodNode, Fresh
<1> HIDE DEF s, P
<1>5. /\ t.state = "Follower" /\ t.term = s.term /\ t.voteFor = s.voteFor
      /\ t.log = s.log /\ t.conf = s.conf /\ t.peers = P /\ t.rights = P /\ t.commit = -1
      /\ \A p \in Node : t.match[p] = -1
  BY DEF Process
<1> HIDE DEF t
<1>6. Fresh(n, t) /\ FreshUntilTold(n, t)
  BY <1>3, <1>4, <1>5 DEF Fresh, FreshUntilTold
<1>7. ASSUME NEW d \in Node, node'[d].state = "Candidate", NEW p \in node'[d].votes
      PROVE  node'[p].term = 1 /\ node'[p].voteFor = d /\ node'[p].state = "Follower"
  <2>1. d # n
    BY <1>2, <1>5, <1>7
  <2>2. node[d].state = "Candidate" /\ p \in node[d].votes
    BY <1>2, <1>7, <2>1
  <2>3. node[p].term = 1 /\ node[p].voteFor = d /\ node[p].state = "Follower"
    BY <2>2 DEF NoLeaderYet
  <2>4. p \in Node
    BY <2>2, ProcessFields DEF AllGood, GoodNode
  <2> QED BY <1>2, <1>5, <2>3, <2>4 DEF s
<1> QED BY <1>1, <1>2, <1>5, <1>6, <1>7, Novice DEF NoLeaderYet

(* Nobody leads, so nobody sends entries, and no change is under way.        *)
LEMMA NoneLeadsEarly ==
  ASSUME AllGood, NoLeaderYet, NEW n \in Node
  PROVE  /\ ~ OnTimerConfiguration(n) /\ ~ DoLog(n)
         /\ \A app, rem : ~ UpdateConfiguration(n, app, rem)
         /\ \A p, answered : ~ AppendEntries(n, p, answered)
<1>1. node[n].state # "Leader" /\ node[n].conf.state # "JOINT"
  BY Novice, BlankType DEF Fresh
<1> QED BY <1>1, Zenon DEF OnTimerConfiguration, DoLog, UpdateConfiguration, AppendEntries

VotedFor(d, s) == s.term = 1 /\ s.voteFor = d /\ s.state = "Follower"

(* What the request does to the voter, and whom it and others have voted for. *)
LEMMA EarlyVote ==
  ASSUME AllGood, FirstTerm, NoLeaderYet, NEW n \in Node, node[n].state = "Candidate",
         NEW p \in Node \ {n}, NEW s, s = OnVoteRequest(node[p], n, node[n])
  PROVE  /\ Fresh(p, s) /\ FreshUntilTold(p, s) /\ s.state # "Leader" /\ s.commit = -1
         /\ \A q \in Node : s.match[q] = -1
         /\ s.state = "Candidate" => s = node[p]
         /\ \A d \in Node : VotedFor(d, node[p]) => VotedFor(d, s)
         /\ Grants(node[p], n, node[n]) => VotedFor(n, s)
<1> DEFINE o == node[p]
           c == node[n]
           g == Grants(o, n, c)
<1>1. /\ GoodNode(p, o) /\ Fresh(p, o) /\ FreshUntilTold(p, o) /\ o.state # "Leader"
      /\ o.commit = -1 /\ o.term \in Nat /\ o.term <= 1 /\ \A q \in Node : o.match[q] = -1
  BY Novice DEF FirstTerm
<1>2. c.term = 1
  BY Novice DEF FreshUntilTold
<1>3. None \notin Node
  OBVIOUS
<1> HIDE DEF o, c
<1>4. /\ s.log = o.log /\ s.commit = o.commit /\ s.conf = o.conf
      /\ s.peers = o.peers /\ s.rights = o.rights /\ s.term = 1
      /\ o.term = 1 /\ o.voteFor \notin {None, n} => s = o /\ ~ g
      /\ o.term = 1 /\ ~ g => s = o
      /\ o.term = 0 => s.state = "Follower"
      /\ o.term = 1 => s.state = o.state /\ s.votes = o.votes
      /\ \A q \in Node : s.match[q] = -1
      /\ g => s.voteFor = n
  <2>1. s = OnVoteRequest(o, n, c)
    BY DEF o, c
  <2> QED BY <1>1, <1>2, <2>1, VoterFields
<1> HIDE DEF g
<1>5. o.term \in {0, 1} /\ o.state \in {"Follower", "Candidate"}
  <2>1. o.state \in {"Follower", "Candidate", "Leader"}
    BY <1>1, ProcessFields DEF GoodNode
  <2> QED BY <1>1, <2>1
<1>6. o.state = "Candidate" => s = o /\ ~ g
  BY <1>1, <1>3, <1>4 DEF FreshUntilTold
<1>7. s.state = "Candidate" => o.state = "Candidate" /\ s = o
  BY <1>4, <1>5, <1>6
<1>8. s.state # "Leader"
  BY <1>1, <1>4, <1>5
<1>9. Fresh(p, s) /\ FreshUntilTold(p, s)
  BY <1>1, <1>4, <1>7 DEF Fresh, FreshUntilTold
<1>10. ASSUME NEW d \in Node, VotedFor(d, o) PROVE VotedFor(d, s)
  <2>1. CASE d = n /\ g
    BY <1>4, <1>10, <2>1 DEF VotedFor
  <2>2. CASE ~ (d = n /\ g)
    BY <1>3, <1>4, <1>10, <2>2 DEF VotedFor
  <2> QED BY <2>1, <2>2
<1>11. g => VotedFor(n, s)
  BY <1>4, <1>5, <1>6 DEF VotedFor
<1> QED BY <1>1, <1>4, <1>7, <1>8, <1>9, <1>10, <1>11 DEF o, c, g

(* The first leader: its log is empty, like everybody's.                     *)
LEMMA FirstLeader ==
  ASSUME NEW n \in Members, NEW W, W \subseteq Members \ {n},
         MoreThanHalf(1 + Cardinality(W), 1 + Cardinality(Members \ {n})), committed' = {},
         \A q \in Node : Fresh(q, node'[q]) /\ FreshUntilTold(q, node'[q]) /\ node'[q].commit = -1,
         \A q \in Node \ {n} : node'[q].state # "Leader",
         \A q \in W : VotedFor(n, node'[q]),
         \A d \in Node \ {n} : node'[d].state = "Candidate" =>
           \A q \in node'[d].votes : VotedFor(d, node'[q]),
         node'[n].state = "Leader", node'[n].term = 1, node'[n].voteFor = n,
         \A q \in Node : node'[n].match[q] = -1 /\ node'[n].next[q] = 0
  PROVE  Under(n, W, -1)'
<1>1. Electors(n, W)
  <2>1. IsFiniteSet(Members)
    BY FS_Subset, NodeAssumption
  <2>2. Cardinality(Members \ {n}) = Cardinality(Members) - 1 /\ Cardinality(Members) \in Nat
    BY <2>1, FS_RemoveElement, FS_CardinalityType
  <2>3. 1 + Cardinality(Members \ {n}) = Cardinality(Members)
    BY <2>2
  <2> QED BY <2>3 DEF Electors
<1>2. \A q \in Node : node'[q].log = <<>> /\ node'[q].conf = Blank
  BY DEF Fresh
<1>3. n \in Node /\ Len(<<>>) = 0
  OBVIOUS
<1>4. LastIndexOf(<<>>) = -1
  BY <1>3 DEF LastIndexOf
<1>5. UpTo(<<>>, -1) = {} /\ OfFirstTerm(<<>>) /\ JointBefore(<<>>, -1)
  BY <1>4 DEF UpTo, OfFirstTerm, JointBefore
<1>6. ASSUME NEW q \in Node PROVE Subject(n, W, <<>>, -1, q, node'[q])
  <2>1. Behind(node'[q], <<>>, -1)
    <3>1. PrefixOf(<<>>, <<>>)
      BY <1>3 DEF PrefixOf
    <3>2. KnowsFrom(node'[q], -1)
      BY <1>2, BlankType DEF KnowsFrom, BothDecide, NewDecides
    <3> QED BY <1>2, <1>4, <3>1, <3>2 DEF Behind
  <2>2. node'[q].state = "Candidate" => node'[q].votes \cap (W \union {n}) = {}
    <3> SUFFICES ASSUME node'[q].state = "Candidate", NEW z \in node'[q].votes, z \in W \union {n}
                 PROVE  FALSE
      OBVIOUS
    <3>1. q # n /\ VotedFor(q, node'[z])
      OBVIOUS
    <3> QED BY <3>1 DEF VotedFor
  <2>3. q \in W \union {n} => node'[q].term = 1 /\ node'[q].voteFor = n /\ node'[q].state # "Candidate"
    BY DEF VotedFor
  <2> QED BY <2>1, <2>2, <2>3 DEF Subject
<1>7. Conducts(n, node'[n])
  BY <1>2, <1>3, <1>4, BlankType DEF Conducts, Uncommitted, Pending
<1>8. KnowsPeers(node[n])'
  BY <1>2, <1>3, <1>4 DEF KnowsPeers
<1>9. \A i \in 0 .. -1 : OnMajorities(node[n].log, i)'
  OBVIOUS
<1> QED BY <1>1, <1>2, <1>3, <1>4, <1>5, <1>6, <1>7, <1>8, <1>9 DEF Under

LEMMA RequestVoteEarly ==
  ASSUME AllGood, FirstTerm, NoLeaderYet, NEW n \in Node, NEW p \in Node, NEW answered \in BOOLEAN,
         RequestVote(n, p, answered)
  PROVE  NoLeaderYet' \/ (n \in Members /\ \E W \in SUBSET Members : Under(n, W, -1)')
<1> DEFINE c == node[n]
           o == node[p]
           g == Grants(o, n, c)
<1>1. PICK s : s = OnVoteRequest(o, n, c)
  OBVIOUS
<1>2. PICK r : r = OnVoteResponse(n, c, p, s.term, g)
  OBVIOUS
<1>3. /\ c.state = "Candidate" /\ p \in c.peers /\ n \in o.peers
      /\ node' = [node EXCEPT ![p] = s, ![n] = IF answered THEN r ELSE c]
      /\ committed' = {}
  BY <1>1, <1>2, Zenon DEF RequestVote, NoLeaderYet
<1>4. /\ GoodNode(n, c) /\ Fresh(n, c) /\ FreshUntilTold(n, c) /\ c.commit = -1
      /\ \A q \in Node : c.match[q] = -1
      /\ Fresh(p, o)
  BY Novice
<1>5. n # p /\ n \in Members /\ c.votes \subseteq Members \ {n} /\ p \in Members \ {n}
  BY <1>3, <1>4 DEF GoodNode, Fresh
<1>6. c.term = 1 /\ c.voteFor = n /\ c.conf = Blank
  BY <1>3, <1>4 DEF FreshUntilTold, Fresh
<1>7. /\ Fresh(p, s) /\ FreshUntilTold(p, s) /\ s.state # "Leader" /\ s.commit = -1
      /\ \A q \in Node : s.match[q] = -1
      /\ s.state = "Candidate" => s = o
      /\ \A d \in Node : VotedFor(d, o) => VotedFor(d, s)
      /\ g => VotedFor(n, s)
  BY <1>1, <1>3, <1>5, EarlyVote
<1>8. g \in BOOLEAN /\ s.term = 1
  <2>1. o.term <= 1 /\ GoodNode(p, o)
    BY Novice DEF FirstTerm
  <2> QED BY <1>1, <1>6, <2>1, VoterFields DEF Grants
<1>9. \A d \in Node : c.state = "Candidate" /\ node[d].state = "Candidate" =>
        \A q \in node[d].votes : q \in Node /\ q # n /\ VotedFor(d, node[q])
  <2>1. \A d \in Node : node[d].votes \subseteq Node
    BY Novice, ProcessFields DEF GoodNode
  <2> QED BY <1>3, <2>1 DEF NoLeaderYet, VotedFor
<1>10. PICK t : t = (IF answered THEN r ELSE c)
  OBVIOUS
<1>11. node'[n] = t /\ node'[p] = s /\ \A q \in Node \ {n, p} : node'[q] = node[q]
  BY <1>3, <1>5, <1>10, Zenon DEF AllGood
<1>12. \A d \in Node, q \in Node \ {n} : VotedFor(d, node[q]) => VotedFor(d, node'[q])
  BY <1>7, <1>11
<1>13. ASSUME NEW d \in Node \ {n}, node'[d].state = "Candidate", NEW q \in node'[d].votes
       PROVE  VotedFor(d, node'[q])
  <2>1. node'[d] = node[d]
    BY <1>7, <1>11, <1>13
  <2> QED BY <1>3, <1>9, <1>12, <1>13, <2>1
<1>14. ASSUME NEW q \in Node \ {n}
       PROVE  /\ Fresh(q, node'[q]) /\ FreshUntilTold(q, node'[q]) /\ node'[q].commit = -1
              /\ node'[q].state # "Leader" /\ \A z \in Node : node'[q].match[z] = -1
  BY <1>7, <1>11, Novice
<1>15. VoteOutcome(n, c, p, g, r)
  <2>1. r = OnVoteResponse(n, c, p, 1, g)
    BY <1>2, <1>8
  <2>2. PICK h \in BOOLEAN : h = g
    BY <1>8
  <2>3. VoteOutcome(n, c, p, h, OnVoteResponse(n, c, p, 1, h))
    BY <1>4, <1>6, CandidateFields
  <2> QED BY <2>1, <2>2, <2>3
<1> HIDE DEF c, o, g
<1>16. PICK W : /\ W = (IF g THEN c.votes \union {p} ELSE c.votes)
                /\ \/ r = c
                   \/ p \in c.rights /\ r = [c EXCEPT !.votes = W]
                   \/ /\ p \in c.rights /\ MoreThanHalf(1 + Cardinality(W), 1 + Cardinality(c.rights))
                      /\ r = BecomeLeader(n, [c EXCEPT !.votes = W])
  BY <1>15 DEF VoteOutcome
<1>17. W \subseteq Members \ {n} /\ \A q \in W \union c.votes : VotedFor(n, node'[q])
  <2>1. ASSUME NEW q \in c.votes PROVE VotedFor(n, node'[q])
    BY <1>3, <1>9, <1>12 DEF c
  <2>2. g => VotedFor(n, node'[p])
    BY <1>7, <1>11
  <2> QED BY <1>5, <1>16, <2>1, <2>2
<1>18. ASSUME NEW Y \in {W, c.votes}, t = [c EXCEPT !.votes = Y] PROVE NoLeaderYet'
  <2>1. /\ t.log = c.log /\ t.commit = c.commit /\ t.conf = c.conf /\ t.term = c.term
        /\ t.peers = c.peers /\ t.rights = c.rights /\ t.state = c.state /\ t.voteFor = c.voteFor
        /\ t.votes = Y /\ t.match = c.match
    BY <1>4, <1>18 DEF GoodNode, Processes
  <2>2. /\ Fresh(n, t) /\ FreshUntilTold(n, t) /\ t.commit = -1 /\ t.state # "Leader"
        /\ \A q \in Node : t.match[q] = -1
    BY <1>3, <1>4, <1>6, <2>1 DEF Fresh, FreshUntilTold, c
  <2>3. \A q \in t.votes : VotedFor(n, node'[q])
    BY <1>17, <2>1
  <2>4. \A q \in Node : /\ Fresh(q, node'[q]) /\ FreshUntilTold(q, node'[q]) /\ node'[q].commit = -1
                        /\ node'[q].state # "Leader" /\ \A z \in Node : node'[q].match[z] = -1
    BY <1>11, <1>14, <2>2
  <2>5. ASSUME NEW d \in Node, node'[d].state = "Candidate", NEW q \in node'[d].votes
        PROVE  node'[q].term = 1 /\ node'[q].voteFor = d /\ node'[q].state = "Follower"
    <3>1. VotedFor(d, node'[q])
      BY <1>11, <1>13, <2>3, <2>5
    <3> QED BY <3>1 DEF VotedFor
  <2> QED BY <1>3, <2>4, <2>5 DEF NoLeaderYet
<1>19. c = [c EXCEPT !.votes = c.votes]
  BY <1>4 DEF GoodNode, Processes
<1>20. CASE t = c \/ t = [c EXCEPT !.votes = W]
  <2>1. CASE t = c
    <3>1. t = [c EXCEPT !.votes = c.votes] /\ c.votes \in {W, c.votes}
      BY <1>19, <2>1
    <3> QED BY <1>18, <3>1
  <2>2. CASE t = [c EXCEPT !.votes = W]
    BY <1>18, <2>2
  <2> QED BY <1>20, <2>1, <2>2
<1>21. CASE ~ (t = c \/ t = [c EXCEPT !.votes = W])
  <2>1. PICK b : b = [c EXCEPT !.votes = W]
    OBVIOUS
  <2>2. /\ MoreThanHalf(1 + Cardinality(W), 1 + Cardinality(c.rights))
        /\ t = BecomeLeader(n, b)
    BY <1>10, <1>16, <1>21, <2>1
  <2>3. /\ b.log = c.log /\ b.commit = -1 /\ b.conf = c.conf /\ b.term = 1
        /\ b.peers = c.peers /\ b.rights = c.rights /\ b.voteFor = n /\ b.match = c.match
        /\ DOMAIN b = DOMAIN c
    BY <1>4, <1>6, <2>1 DEF GoodNode, Processes
  <2>4. /\ t.log = c.log /\ t.commit = -1 /\ t.conf = c.conf /\ t.term = 1
        /\ t.peers = c.peers /\ t.rights = c.rights /\ t.voteFor = n /\ t.match = c.match
        /\ t.state = "Leader" /\ t.next = [q \in Node |-> IF q \in b.peers THEN b.commit + 1 ELSE 0]
    BY <1>4, <2>2, <2>3 DEF BecomeLeader, GoodNode, Processes
  <2>5. Fresh(n, t) /\ FreshUntilTold(n, t)
    BY <1>4, <2>4 DEF Fresh, FreshUntilTold
  <2>6. \A q \in Node : t.match[q] = -1 /\ t.next[q] = 0
    BY <1>4, <2>3, <2>4
  <2>7. c.rights = Members \ {n}
    BY <1>4 DEF Fresh
  <2>8. \A q \in Node : Fresh(q, node'[q]) /\ FreshUntilTold(q, node'[q]) /\ node'[q].commit = -1
    BY <1>11, <1>14, <2>4, <2>5
  <2>9. \A q \in W : VotedFor(n, node'[q])
    BY <1>17
  <2>10. \A d \in Node \ {n} : node'[d].state = "Candidate" =>
           \A q \in node'[d].votes : VotedFor(d, node'[q])
    BY <1>13
  <2>11. \A q \in Node \ {n} : node'[q].state # "Leader"
    BY <1>14
  <2>12. MoreThanHalf(1 + Cardinality(W), 1 + Cardinality(Members \ {n}))
    BY <2>2, <2>7
  <2>13. Under(n, W, -1)'
    BY <1>3, <1>5, <1>11, <1>17, <2>4, <2>6, <2>8, <2>9, <2>10, <2>11, <2>12, FirstLeader
  <2> QED BY <1>5, <1>17, <2>13
<1> QED BY <1>20, <1>21
-----------------------------------------------------------------------------
(* No step takes a term back, so the first term, once over, is over.         *)
Fields == {"state", "term", "voteFor", "leader", "log", "commit", "conf", "peers", "rights",
           "votes", "next", "match"}

LEMMA ReadTerm ==
  ASSUME NEW n, NEW s, DOMAIN s = Fields, NEW prev
  PROVE  /\ ReadConfiguration(n, s, prev).term = s.term
         /\ CommitConfiguration(s).term = s.term
         /\ DOMAIN ReadConfiguration(n, s, prev) = Fields
<1>1. ASSUME NEW t, DOMAIN t = DOMAIN s, NEW P
      PROVE  /\ WithPeers(t, P).term = t.term /\ WithoutPeers(t, P).term = t.term
             /\ DOMAIN WithPeers(t, P) = DOMAIN s /\ DOMAIN WithoutPeers(t, P) = DOMAIN s
  <2>1. DOMAIN t = {"state", "term", "voteFor", "leader", "log", "commit", "conf", "peers", "rights",
                    "votes", "next", "match"}
    BY <1>1 DEF Fields
  <2>2. PICK i, m : /\ i = [p \in Node |-> IF p \in P THEN 0 ELSE t.next[p]]
                    /\ m = [p \in Node |-> IF p \in P THEN -1 ELSE t.match[p]]
    OBVIOUS
  <2>3. WithoutPeers(t, P) = [t EXCEPT !.peers = @ \ P, !.rights = @ \ P, !.votes = @ \ P,
                                       !.next = i, !.match = m]
    BY <2>2, Zenon DEF WithoutPeers
  <2> QED BY <1>1, <2>1, <2>3 DEF WithPeers
<1>2. ASSUME NEW t, DOMAIN t = DOMAIN s, NEW c
      PROVE  [t EXCEPT !.conf = c].term = t.term /\ DOMAIN [t EXCEPT !.conf = c] = DOMAIN s
  BY <1>2 DEF Fields
<1>3. CommitConfiguration(s).term = s.term
  <2>1. PICK w : w = WithoutPeers(s, s.conf.rem \cap {s.leader})
    OBVIOUS
  <2>2. CommitConfiguration(s) \in {s, [w EXCEPT !.conf = Blank]}
    BY <2>1, Zenon DEF CommitConfiguration, OnUpdateConfigurationFinish
  <2>3. w.term = s.term /\ DOMAIN w = DOMAIN s
    BY <1>1, <2>1
  <2> QED BY <1>2, <2>2, <2>3
<1>4. ASSUME NEW j PROVE OnUpdateConfigurationNew(s, j).term = s.term /\ DOMAIN OnUpdateConfigurationNew(s, j) = DOMAIN s
  <2>1. PICK w : w = [s EXCEPT !.conf.state = "JOINT_NEW", !.conf.index2 = j]
    OBVIOUS
  <2>2. w.term = s.term /\ DOMAIN w = DOMAIN s
    BY <2>1 DEF Fields
  <2>3. OnUpdateConfigurationNew(s, j) \in {s, WithoutPeers(w, s.conf.rem \ {s.leader})}
    BY <2>1, Zenon DEF OnUpdateConfigurationNew
  <2> QED BY <1>1, <2>2, <2>3
<1>5. ASSUME NEW t, DOMAIN t = DOMAIN s, t.term = s.term, NEW i
      PROVE  /\ OnUpdateConfigurationJoint(n, t, i).term = s.term
             /\ DOMAIN OnUpdateConfigurationJoint(n, t, i) = DOMAIN s
  <2>1. PICK c, P : \/ OnUpdateConfigurationJoint(n, t, i) = t
                    \/ OnUpdateConfigurationJoint(n, t, i) = WithPeers([t EXCEPT !.conf = c], P)
    BY Zenon DEF OnUpdateConfigurationJoint
  <2>3. PICK b : b = [t EXCEPT !.conf = c]
    OBVIOUS
  <2>2. [t EXCEPT !.conf = c].term = s.term /\ DOMAIN [t EXCEPT !.conf = c] = DOMAIN s
    BY <1>2, <1>5
  <2>4. WithPeers(b, P).term = s.term /\ DOMAIN WithPeers(b, P) = DOMAIN s
    BY <1>1, <2>2, <2>3
  <2> QED BY <1>5, <2>1, <2>3, <2>4
<1>6. \E t, i : /\ t = s \/ \E j : t = OnUpdateConfigurationNew(s, j)
                /\ ReadConfiguration(n, s, prev) \in {t, OnUpdateConfigurationJoint(n, t, i)}
  <2> DEFINE from  == {k \in 0 .. LastIndexOf(s.log) : k >= prev}
             trans == Indices(s.log, "TRANS") \cap from
             news  == {k \in Indices(s.log, "TRANS_NEW") \cap from : \A j \in trans : j < k}
  <2>1. PICK j, i : j = Max(news) /\ i = Max(trans)
    OBVIOUS
  <2>2. PICK t : t = IF news = {} THEN s ELSE OnUpdateConfigurationNew(s, j)
    OBVIOUS
  <2>3. ReadConfiguration(n, s, prev) = IF trans = {} THEN t ELSE OnUpdateConfigurationJoint(n, t, i)
    BY <2>1, <2>2, Zenon DEF ReadConfiguration
  <2> HIDE DEF trans, news
  <2> QED BY <2>2, <2>3
<1> QED BY <1>3, <1>4, <1>5, <1>6


LEMMA LoggedTerm ==
  ASSUME NEW s, DOMAIN s = Fields
  PROVE  /\ \A cmd : Logged(s, cmd).term = s.term
         /\ UpdateConfigurationJoint(s).term = s.term
<1>1. ASSUME NEW t, DOMAIN t = Fields, NEW cmd PROVE Logged(t, cmd).term = t.term
  <2>1. PICK e : Logged(t, cmd) = [t EXCEPT !.log = Append(@, e)]
    BY Zenon DEF Logged
  <2> QED BY <1>1, <2>1 DEF Fields
<1>2. PICK b : b = [s EXCEPT !.conf.index = Len(s.log), !.conf.state = "OLD_JOINT"]
  OBVIOUS
<1>3. b.term = s.term /\ DOMAIN b = Fields
  BY <1>2 DEF Fields
<1>4. UpdateConfigurationJoint(s) = Logged(b, "TRANS")
  BY <1>2, Zenon DEF UpdateConfigurationJoint
<1> QED BY <1>1, <1>3, <1>4

LEMMA RequestTerm ==
  ASSUME NEW p \in Node, NEW s, GoodNode(p, s), NEW n \in Node, NEW l, GoodNode(n, l), NEW prevTerm
  PROVE  OnAppendEntriesRequest(p, s, n, l, prevTerm).after.term >= s.term
<1> DEFINE prev    == l.next[p] - 1
           entries == SubSeq(l.log, prev + 2, Len(l.log))
           t       == HandleRequestRoutine(s, n, l)
           log     == AfterAppend(t.log, prev, entries)
           commit  == IF l.commit > t.commit THEN Min({l.commit, LastIndexOf(log)}) ELSE t.commit
           kept    == [t EXCEPT !.log = SubSeq(@, 1, KeptUpTo(@, prev) + 1)]
           u       == [t EXCEPT !.log = log, !.commit = commit]
           r       == ReadConfiguration(p, u, prev)
           done    == CommitConfiguration(r)
           reply   == OnAppendEntriesRequest(p, s, n, l, prevTerm)
<1>1. reply = IF l.term < s.term THEN [after |-> s, success |-> FALSE]
              ELSE IF prev > LastIndexOf(s.log) THEN [after |-> t, success |-> FALSE]
              ELSE IF Conflicts(s.log, prev, prevTerm) THEN [after |-> kept, success |-> FALSE]
              ELSE [after |-> done, success |-> TRUE]
  BY Zenon DEF OnAppendEntriesRequest
<1>2. l.term \in Nat /\ s.term \in Nat
  <2>1. l.term \in 0 .. MaxTerm /\ s.term \in 0 .. MaxTerm
    BY ProcessFields DEF GoodNode
  <2> QED BY <2>1
<1>3. DOMAIN s = Fields
  BY DEF GoodNode, Processes, Fields
<1>4. ASSUME ~ (l.term < s.term)
      PROVE  t.term \in Nat /\ t.term >= s.term /\ DOMAIN t = Fields
  <2>1. PICK b : b = BecomeFollower(s, l.term)
    OBVIOUS
  <2>2. b.term = l.term /\ DOMAIN b = Fields
    BY <1>3, <2>1 DEF BecomeFollower, Fields
  <2>3. PICK c, d : c = [b EXCEPT !.leader = n] /\ d = [s EXCEPT !.leader = n]
    OBVIOUS
  <2>4. c.term = l.term /\ DOMAIN c = Fields /\ d.term = s.term /\ DOMAIN d = Fields
    BY <1>3, <2>2, <2>3 DEF Fields
  <2>5. t \in {c, d, s}
    BY <2>1, <2>3, Zenon DEF HandleRequestRoutine
  <2> QED BY <1>2, <1>3, <1>4, <2>4, <2>5
<1> HIDE DEF prev, entries, t, log, commit
<1>5. ASSUME DOMAIN t = Fields
      PROVE  kept.term = t.term /\ done.term = t.term
  <2>1. kept.term = t.term /\ u.term = t.term /\ DOMAIN u = Fields
    BY <1>5 DEF Fields
  <2> HIDE DEF u
  <2>2. r.term = u.term /\ DOMAIN r = Fields
    BY <2>1, ReadTerm
  <2> HIDE DEF r
  <2>3. done.term = r.term
    BY <2>2, ReadTerm
  <2> QED BY <2>1, <2>2, <2>3
<1> HIDE DEF kept, done, reply
<1>6. reply.after.term >= s.term
  <2>1. CASE l.term < s.term
    BY <1>1, <1>2, <2>1
  <2>2. CASE ~ (l.term < s.term)
    <3>1. reply.after \in {t, kept, done}
      BY <1>1, <2>2
    <3> QED BY <1>4, <1>5, <2>2, <3>1
  <2> QED BY <2>1, <2>2
<1> QED BY <1>6 DEF reply

LEMMA ResponseTerm ==
  ASSUME NEW n \in Node, NEW l, GoodNode(n, l), NEW p \in l.peers, NEW reply, NEW q, GoodNode(q, reply.after)
  PROVE  OnAppendEntriesResponse(n, l, p, reply).term >= l.term
<1> DEFINE last == LastIndexOf(reply.after.log)
           b == CaughtUp(l, p, last)
           i == Min({last, LastIndexOf(l.log)})
           t == Known(b, p, i)
           u == IF CanCommit(n, t, last) THEN CommitAsLeader(t, last) ELSE t
           f == BecomeFollower(l, reply.after.term)
<1>1. l.term \in Nat /\ reply.after.term \in Nat /\ last \in Nat \union {-1} /\ i \in Nat \union {-1}
  <2>1. l.term \in 0 .. MaxTerm /\ reply.after.term \in 0 .. MaxTerm
        /\ l.log \in Seq(LogEntries) /\ reply.after.log \in Seq(LogEntries)
    BY ProcessFields DEF GoodNode
  <2>2. PICK a \in Nat \union {-1}, c \in Nat \union {-1} : a = last /\ c = LastIndexOf(l.log)
    BY <2>1, LogType
  <2>3. a \in Int /\ c \in Int
    OBVIOUS
  <2>4. Min({a, c}) \in {a, c}
    BY <2>3, LesserNumber
  <2> QED BY <2>1, <2>2, <2>4
<1>2. ASSUME NEW s, GoodNode(n, s), NEW j
      PROVE  Known(s, p, j).term = s.term
  BY <1>2 DEF Known, GoodNode, Processes
<1>3. GoodNode(n, b) /\ b.term = l.term
  <2>1. b.term = l.term
    BY DEF CaughtUp, GoodNode, Processes
  <2> QED BY <2>1, CaughtUpGood
<1>4. OnAppendEntriesResponse(n, l, p, reply) =
        IF reply.after.term > l.term THEN [f EXCEPT !.leader = None]
        ELSE IF reply.success THEN (IF StagingEnds(l, t, p) THEN UpdateConfigurationJoint(u) ELSE u)
        ELSE Known(l, p, last)
  BY Zenon DEF OnAppendEntriesResponse, OnAppendEntriesSuccess
<1>5. [f EXCEPT !.leader = None].term = reply.after.term
  BY DEF BecomeFollower, GoodNode, Processes
<1> HIDE DEF b, i, last, f
<1>6. GoodNode(n, t) /\ t.term = l.term
  BY <1>1, <1>2, <1>3, KnownGood
<1> HIDE DEF t
<1>7. GoodNode(n, u) /\ u.term = l.term
  <2>1. CASE CanCommit(n, t, last)
    <3>1. last \in Nat
      <4>1. t.commit \in Nat \union {-1}
        BY <1>6, ProcessFields DEF GoodNode
      <4> QED BY <1>1, <2>1, <4>1 DEF CanCommit
    <3>2. PICK a : a = CommitAsLeader(t, last)
      OBVIOUS
    <3>3. GoodNode(n, a) /\ SameRun([t EXCEPT !.commit = last], a)
      <4>1. GoodNode(n, a)
        BY <1>6, <3>1, <3>2, CommitAsLeaderGood
      <4>2. Moved(t, last, a)
        BY <1>6, <3>1, <3>2, CommittedConf
      <4> QED BY <4>1, <4>2 DEF Moved
    <3>4. a.term = t.term
      BY <1>6, <3>3 DEF SameRun, GoodNode, Processes
    <3> QED BY <1>6, <2>1, <3>2, <3>3, <3>4
  <2>2. CASE ~ CanCommit(n, t, last)
    BY <1>6, <2>2
  <2> QED BY <2>1, <2>2
<1> HIDE DEF u
<1>8. UpdateConfigurationJoint(u).term = l.term
  <2>1. DOMAIN u = Fields
    BY <1>7 DEF GoodNode, Processes, Fields
  <2> QED BY <1>7, <2>1, LoggedTerm
<1>9. Known(l, p, last).term = l.term
  BY <1>2
<1> QED BY <1>1, <1>4, <1>5, <1>7, <1>8, <1>9

LEMMA TermsGrow ==
  ASSUME AllGood, AllGood', [Next]_vars, NEW n \in Node
  PROVE  node[n].term <= node'[n].term
<1>1. \A q \in Node : GoodNode(q, node[q]) /\ node[q].term \in Nat
  <2>1. \A q \in Node : node[q].term \in 0 .. MaxTerm
    BY ProcessFields DEF AllGood, GoodNode
  <2> QED BY <2>1 DEF AllGood
<1>2. ASSUME NEW q \in Node, NEW t, node' = [node EXCEPT ![q] = t], node[q].term <= t.term
      PROVE  node[n].term <= node'[n].term
  BY <1>1, <1>2 DEF AllGood
<1>3. ASSUME NEW q \in Node, NEW z \in Node, NEW s, NEW t, node' = [node EXCEPT ![z] = s, ![q] = t],
             node[z].term <= s.term, node[q].term <= t.term
      PROVE  node[n].term <= node'[n].term
  BY <1>1, <1>3 DEF AllGood
<1>4. ASSUME NEW q \in Node, OnTimerElection(q) PROVE node[n].term <= node'[n].term
  <2>1. PICK s, t : /\ s = node[q] /\ node' = [node EXCEPT ![q] = t]
                    /\ t = [s EXCEPT !.state = "Candidate", !.term = @ + 1,
                                     !.voteFor = q, !.leader = None, !.votes = {}]
    BY <1>4, Zenon DEF OnTimerElection
  <2>2. GoodNode(q, s) /\ s.term \in Nat
    BY <1>1, <2>1
  <2>3. t.term = s.term + 1
    BY <2>1, <2>2 DEF GoodNode, Processes
  <2>4. node[q].term <= t.term
    BY <2>1, <2>2, <2>3
  <2> QED BY <1>2, <2>1, <2>4
<1>5. ASSUME NEW q \in Node, OnTimerConfiguration(q) PROVE node[n].term <= node'[n].term
  <2> DEFINE s == node[q]
             t == [s EXCEPT !.conf.state = "JOINT_NEW", !.conf.index2 = Len(s.log)]
  <2>3. node' = [node EXCEPT ![q] = IF s.state = "Leader" THEN Logged(t, "TRANS_NEW") ELSE t]
    BY <1>5, Zenon DEF OnTimerConfiguration
  <2>4. t.term = s.term /\ DOMAIN t = Fields /\ s.term \in Nat
    BY <1>1 DEF GoodNode, Processes, Fields
  <2> HIDE DEF t
  <2>5. Logged(t, "TRANS_NEW").term = t.term
    BY <2>4, LoggedTerm
  <2>6. PICK u : u = IF s.state = "Leader" THEN Logged(t, "TRANS_NEW") ELSE t
    OBVIOUS
  <2>7. node[q].term <= u.term
    BY <2>4, <2>5, <2>6
  <2>8. node' = [node EXCEPT ![q] = u]
    BY <2>3, <2>6
  <2> QED BY <1>2, <2>7, <2>8
<1>6. ASSUME NEW q \in Node, DoLog(q) PROVE node[n].term <= node'[n].term
  <2>1. PICK t : t = Logged(node[q], "DATA") /\ node' = [node EXCEPT ![q] = t]
    BY <1>6 DEF DoLog, AllGood
  <2>2. DOMAIN node[q] = Fields /\ node[q].term \in Nat
    BY <1>1 DEF GoodNode, Processes, Fields
  <2>3. node[q].term <= t.term
    BY <2>1, <2>2, LoggedTerm
  <2> QED BY <1>2, <2>1, <2>3
<1>7. ASSUME NEW q \in Node, Restart(q) PROVE node[n].term <= node'[n].term
  <2>1. PICK s, P, t : /\ s = node[q] /\ node' = [node EXCEPT ![q] = t]
                       /\ t = [Process(P) EXCEPT !.term = s.term, !.voteFor = s.voteFor,
                                                 !.log = s.log, !.conf = s.conf]
    BY <1>7, Zenon DEF Restart
  <2>2. t.term = s.term /\ s.term \in Nat
    BY <1>1, <2>1 DEF Process
  <2>3. node[q].term <= t.term
    BY <2>1, <2>2
  <2> QED BY <1>2, <2>1, <2>3
<1>8. ASSUME NEW q \in Node, NEW app, NEW rem, UpdateConfiguration(q, app, rem)
      PROVE  node[n].term <= node'[n].term
  <2>1. PICK s, conf : s = node[q]
          /\ node' = [node EXCEPT ![q] =
               IF app = {} THEN UpdateConfigurationJoint(WithPeers([s EXCEPT !.conf = conf], app \ {q}))
               ELSE [WithPeers([s EXCEPT !.conf = conf], app \ {q}) EXCEPT !.rights = @ \ app]]
    BY <1>8, Zenon DEF UpdateConfiguration
  <2>2. PICK w : w = WithPeers([s EXCEPT !.conf = conf], app \ {q})
    OBVIOUS
  <2>3. w.term = s.term /\ DOMAIN w = Fields
    BY <1>1, <2>1, <2>2 DEF WithPeers, GoodNode, Processes, Fields
  <2>4. [w EXCEPT !.rights = @ \ app].term = w.term
    BY <2>3 DEF Fields
  <2>5. UpdateConfigurationJoint(w).term = w.term
    BY <2>3, LoggedTerm
  <2>6. PICK t : t = IF app = {} THEN UpdateConfigurationJoint(w) ELSE [w EXCEPT !.rights = @ \ app]
    OBVIOUS
  <2>7. node' = [node EXCEPT ![q] = t]
    BY <2>1, <2>2, <2>6
  <2>8. node[q].term <= t.term
    BY <1>1, <2>1, <2>3, <2>4, <2>5, <2>6
  <2> QED BY <1>2, <2>7, <2>8
<1>9. ASSUME NEW q \in Node, NEW z \in Node, NEW answered \in BOOLEAN, RequestVote(q, z, answered)
       PROVE  node[n].term <= node'[n].term
  <2> DEFINE c == node[q]
             o == node[z]
  <2>1. PICK s, g : s = OnVoteRequest(o, q, c) /\ g = Grants(o, q, c)
    OBVIOUS
  <2>2. PICK r : r = OnVoteResponse(q, c, z, s.term, g)
    OBVIOUS
  <2>3. node' = [node EXCEPT ![z] = s, ![q] = IF answered THEN r ELSE c]
    BY <1>9, <2>1, <2>2, Zenon DEF RequestVote
  <2>4. GoodNode(q, c) /\ GoodNode(z, o) /\ c.term \in Nat /\ o.term \in Nat
        /\ DOMAIN c = Fields /\ DOMAIN o = Fields
    BY <1>1 DEF GoodNode, Processes, Fields
  <2> HIDE DEF c, o
  <2>5. s.term >= o.term /\ s.term \in Nat
    <3>1. PICK b : b = BecomeFollower(o, c.term)
      OBVIOUS
    <3>2. PICK i : i = IF c.term > o.term THEN [b EXCEPT !.leader = None] ELSE o
      OBVIOUS
    <3>3. i.term >= o.term /\ i.term \in Nat /\ DOMAIN i = Fields
      BY <2>4, <3>1, <3>2 DEF BecomeFollower, Fields
    <3>4. s \in {i, [i EXCEPT !.voteFor = q, !.leader = None]}
      <4>1. i = Informed(o, c.term)
        BY <3>1, <3>2, Zenon DEF Informed
      <4> QED BY <2>1, <4>1 DEF OnVoteRequest
    <3> QED BY <3>3, <3>4 DEF Fields
  <2>6. r.term >= c.term
    <3>1. PICK W : W = IF g THEN c.votes \union {z} ELSE c.votes
      OBVIOUS
    <3>2. PICK t : t = [c EXCEPT !.votes = W]
      OBVIOUS
    <3>3. t.term = c.term /\ DOMAIN t = Fields
      BY <2>4, <3>2 DEF Fields
    <3>4. r = IF z \notin c.rights THEN c
              ELSE IF s.term > c.term THEN BecomeFollower(c, s.term)
              ELSE IF EnoughVotes(q, t, W) THEN BecomeLeader(q, t) ELSE t
      BY <2>2, <3>1, <3>2, Zenon DEF OnVoteResponse
    <3>5. BecomeFollower(c, s.term).term = s.term /\ BecomeLeader(q, t).term = t.term
      BY <2>4, <3>3 DEF BecomeFollower, BecomeLeader, Fields
    <3> QED BY <2>4, <2>5, <3>3, <3>4, <3>5
  <2>7. PICK t : t = IF answered THEN r ELSE c
    OBVIOUS
  <2>8. c.term <= t.term
    BY <2>4, <2>6, <2>7
  <2>9. o.term <= s.term
    BY <2>4, <2>5
  <2> QED BY <1>3, <2>3, <2>7, <2>8, <2>9 DEF c, o
<1>10. ASSUME NEW q \in Node, NEW z \in Node, NEW answered \in BOOLEAN, AppendEntries(q, z, answered)
       PROVE  node[n].term <= node'[n].term
  <2> DEFINE l == node[q]
             o == node[z]
  <2>1. z \in l.peers
    BY <1>10, Zenon DEF AppendEntries
  <2>2. PICK prevTerm : node' = [node EXCEPT ![z] = OnAppendEntriesRequest(z, o, q, l, prevTerm).after,
           ![q] = IF answered
                  THEN OnAppendEntriesResponse(q, l, z, OnAppendEntriesRequest(z, o, q, l, prevTerm)) ELSE l]
    BY <1>10, Zenon DEF AppendEntries
  <2>3. PICK reply : reply = OnAppendEntriesRequest(z, o, q, l, prevTerm)
    OBVIOUS
  <2>4. GoodNode(q, l) /\ GoodNode(z, o) /\ l.term \in Nat /\ o.term \in Nat
    BY <1>1
  <2> HIDE DEF l, o
  <2>5. GoodNode(z, reply.after) /\ reply.after.term >= o.term
    BY <2>3, <2>4, OnAppendEntriesRequestGood, RequestTerm
  <2>6. reply.after.term \in 0 .. MaxTerm
    BY <2>5, ProcessFields DEF GoodNode
  <2>7. OnAppendEntriesResponse(q, l, z, reply).term >= l.term
        /\ OnAppendEntriesResponse(q, l, z, reply).term \in Nat
    <3>1. GoodNode(q, OnAppendEntriesResponse(q, l, z, reply))
      BY <2>1, <2>4, <2>5, OnAppendEntriesResponseGood
    <3>2. OnAppendEntriesResponse(q, l, z, reply).term \in 0 .. MaxTerm
      BY <3>1, ProcessFields DEF GoodNode
    <3>3. OnAppendEntriesResponse(q, l, z, reply).term >= l.term
      BY <2>1, <2>4, <2>5, ResponseTerm
    <3> QED BY <3>2, <3>3
  <2>8. PICK s, t : s = reply.after /\ t = IF answered THEN OnAppendEntriesResponse(q, l, z, reply) ELSE l
    OBVIOUS
  <2>9. o.term <= s.term /\ l.term <= t.term
    BY <2>4, <2>5, <2>6, <2>7, <2>8
  <2>10. node' = [node EXCEPT ![z] = s, ![q] = t]
    BY <2>2, <2>3, <2>8
  <2> QED BY <1>3, <2>9, <2>10 DEF l, o
<1>11. CASE UNCHANGED vars
  BY <1>1, <1>11 DEF vars
<1>12. CASE Next
  BY <1>4, <1>5, <1>6, <1>7, <1>8, <1>9, <1>10, <1>12, Zenon DEF Next
<1> QED BY <1>11, <1>12

LEMMA FirstTermBefore ==
  ASSUME AllGood, AllGood', [Next]_vars, FirstTerm'
  PROVE  FirstTerm
<1> SUFFICES ASSUME NEW n \in Node PROVE node[n].term <= 1
  BY DEF FirstTerm
<1>1. node[n].term \in 0 .. MaxTerm /\ node'[n].term \in 0 .. MaxTerm
  BY ProcessFields DEF AllGood, GoodNode
<1>2. node'[n].term <= 1
  BY DEF FirstTerm
<1> QED BY <1>1, <1>2, TermsGrow
-----------------------------------------------------------------------------
LEMMA NextOneLeader ==
  ASSUME AllGood, AllGood', [Next]_vars, FirstTerm => OneLeader, FirstTerm'
  PROVE  OneLeader'
<1>1. FirstTerm /\ OneLeader
  BY FirstTermBefore
<1>2. CASE UNCHANGED vars
  <2>1. node' = node /\ committed' = committed
    BY <1>2 DEF vars
  <2>2. NoLeaderYet => NoLeaderYet'
    BY <2>1 DEF NoLeaderYet
  <2>3. ASSUME NEW x \in Members, NEW V \in SUBSET Members, NEW C \in Nat \union {-1}, Under(x, V, C)
        PROVE  Under(x, V, C)'
    BY <2>1, <2>3, StepOfOthers, UnderSubject
  <2> QED BY <1>1, <2>2, <2>3 DEF OneLeader
<1>3. CASE Next
  <2>1. CASE NoLeaderYet
    <3>1. ASSUME NEW n \in Node, NEW p \in Node, NEW answered \in BOOLEAN, RequestVote(n, p, answered)
          PROVE  OneLeader'
      <4>1. NoLeaderYet' \/ (n \in Members /\ \E W \in SUBSET Members : Under(n, W, -1)')
        BY <1>1, <2>1, <3>1, RequestVoteEarly
      <4>2. -1 \in Nat \union {-1}
        OBVIOUS
      <4> QED BY <4>1, <4>2 DEF OneLeader
    <3>2. ASSUME NEW n \in Node, OnTimerElection(n) \/ Restart(n)
          PROVE  OneLeader'
      BY <2>1, <3>2, OnTimerElectionEarly, RestartEarly DEF OneLeader
    <3> QED BY <1>3, <2>1, <3>1, <3>2, NoneLeadsEarly, Zenon DEF Next
  <2>2. CASE ~ NoLeaderYet
    <3>1. PICK x \in Members, V \in SUBSET Members, C \in Nat \union {-1} : Under(x, V, C)
      BY <1>1, <2>2 DEF OneLeader
    <3>2. ASSUME NEW D \in Nat \union {-1}, Under(x, V, D)' PROVE OneLeader'
      BY <3>2 DEF OneLeader
    <3>3. ASSUME NEW n \in Node, NEW p \in Node, NEW answered \in BOOLEAN, RequestVote(n, p, answered)
          PROVE  OneLeader'
      BY <1>1, <3>1, <3>2, <3>3, RequestVoteUnder
    <3>4. ASSUME NEW n \in Node, NEW p \in Node, NEW answered \in BOOLEAN, AppendEntries(n, p, answered)
          PROVE  OneLeader'
      BY <1>1, <3>1, <3>2, <3>4, AppendEntriesUnder
    <3>5. ASSUME NEW n \in Node, NEW c \in Changes, UpdateConfiguration(n, c.app, c.rem)
          PROVE  OneLeader'
      BY <3>1, <3>2, <3>5, UpdateConfigurationUnder
    <3>6. ASSUME NEW n \in Node, OnTimerElection(n) PROVE OneLeader'
      BY <3>1, <3>2, <3>6, OnTimerElectionUnder
    <3>7. ASSUME NEW n \in Node, OnTimerConfiguration(n) PROVE OneLeader'
      BY <3>1, <3>2, <3>7, OnTimerConfigurationUnder
    <3>8. ASSUME NEW n \in Node, DoLog(n) \/ Restart(n) PROVE OneLeader'
      BY <3>1, <3>2, <3>8, DoLogUnder, RestartUnder
    <3> QED BY <1>3, <3>3, <3>4, <3>5, <3>6, <3>7, <3>8, Zenon DEF Next
  <2> QED BY <2>1, <2>2
<1> QED BY <1>2, <1>3

LEMMA AlwaysOneLeader == Spec => [](AllGood /\ (FirstTerm => OneLeader))
<1>1. Init => AllGood /\ (FirstTerm => OneLeader)
  BY InitAllGood, InitNoLeader DEF OneLeader
<1>2. AllGood /\ (FirstTerm => OneLeader) /\ [Next]_vars => (AllGood /\ (FirstTerm => OneLeader))'
  <2> SUFFICES ASSUME AllGood, FirstTerm => OneLeader, [Next]_vars
               PROVE  AllGood' /\ (FirstTerm' => OneLeader')
    OBVIOUS
  <2>1. AllGood'
    BY NextAllGood
  <2> QED BY <2>1, NextOneLeader
<1> QED BY <1>1, <1>2, PTL DEF Spec

(* Whoever has the index of a committed entry has the entry.                 *)
LEMMA HoldersAre ==
  ASSUME AllGood, NEW x \in Members, NEW V, NEW C \in Nat \union {-1}, Under(x, V, C), NEW i \in 0 .. C
  PROVE  Holders([index |-> i, entry |-> EntryAt(node[x].log, i)]) = HoldersOf(i)
<1>1. ASSUME NEW n \in Node, i <= LastIndexOf(node[n].log)
      PROVE  EntryAt(node[n].log, i) = EntryAt(node[x].log, i)
  <2>1. node[n].log \in Seq(LogEntries) /\ node[x].log \in Seq(LogEntries)
        /\ PrefixOf(node[n].log, node[x].log)
    BY UnderSubject DEF Subject, Behind
  <2>2. LastIndexOf(node[n].log) \in Int
    BY <2>1, LogType
  <2>3. i \in 0 .. LastIndexOf(node[n].log)
    BY <1>1, <2>2
  <2> QED BY <2>1, <2>3, PrefixFacts
<1> QED BY <1>1 DEF Holders, Holds, HoldersOf

LEMMA OneLeaderSafe ==
  ASSUME AllGood, OneLeader
  PROVE  /\ Agree /\ OneLeaderPerTerm /\ NewestLeaderComplete
         /\ JointOnBothMajorities /\ NewOnNewMajority
<1>1. CASE NoLeaderYet
  <2>1. committed = {} /\ \A n \in Node : node[n].state # "Leader" /\ node[n].conf = Blank
    BY <1>1 DEF NoLeaderYet, Fresh
  <2> QED BY <2>1, BlankType
       DEF Agree, OneLeaderPerTerm, NewestLeaderComplete, JointOnBothMajorities, NewOnNewMajority
<1>2. CASE ~ NoLeaderYet
  <2>1. PICK x \in Members, V \in SUBSET Members, C \in Nat \union {-1} : Under(x, V, C)
    BY <1>2 DEF OneLeader
  <2>2. PICK L \in Seq(LogEntries) : L = node[x].log
    BY UnderSubject, <2>1
  <2>3. /\ committed = UpTo(L, C) /\ C <= LastIndexOf(L) /\ LastIndexOf(L) \in Nat \union {-1}
        /\ \A n \in Node : node[n].state = "Leader" => n = x
        /\ \A i \in 0 .. C : OnMajorities(L, i)
    BY <2>1, <2>2, LogType DEF Under, Subject
  <2>4. ASSUME NEW a \in committed
        PROVE  /\ a.index \in 0 .. C /\ a.entry = EntryAt(L, a.index) /\ Holders(a) = HoldersOf(a.index)
               /\ Holds(node[x], a)
    <3>1. PICK i \in 0 .. C : a = [index |-> i, entry |-> EntryAt(L, i)]
      BY <2>3, <2>4 DEF UpTo
    <3>2. Holders(a) = HoldersOf(i)
      BY <2>1, <2>2, <3>1, HoldersAre
    <3>3. Holds(node[x], a)
      BY <2>2, <2>3, <3>1 DEF Holds
    <3> QED BY <3>1, <3>2, <3>3
  <2>5. Agree
    BY <2>4 DEF Agree
  <2>6. OneLeaderPerTerm
    BY <2>3 DEF OneLeaderPerTerm
  <2>7. NewestLeaderComplete
    BY <2>3, <2>4 DEF NewestLeaderComplete
  <2>8. ASSUME NEW i \in 0 .. C
        PROVE  /\ [index |-> i, entry |-> EntryAt(L, i)] \in committed
               /\ Holders([index |-> i, entry |-> EntryAt(L, i)]) = HoldersOf(i)
    BY <2>1, <2>2, <2>3, HoldersAre DEF UpTo
  <2>9. JointOnBothMajorities
    <3> SUFFICES ASSUME NEW n \in Node, node[n].conf.state \in {"JOINT", "JOINT_NEW"}
                 PROVE  \E a \in committed :
                          /\ a.entry.cmd = "TRANS"
                          /\ MajorityOf(Holders(a), node[n].conf.old)
                          /\ MajorityOf(Holders(a), New(node[n].conf))
      BY DEF JointOnBothMajorities
    <3>1. PICK s, c : s = node[n] /\ c = s.conf
      OBVIOUS
    <3>2. KnowsFrom(s, C) /\ PrefixOf(s.log, L) /\ s.log \in Seq(LogEntries)
      BY <2>1, <2>2, <3>1, UnderSubject DEF Subject, Behind
    <3>3. /\ c.index \in 0 .. LastIndexOf(s.log) /\ c.index <= C
          /\ EntryAt(s.log, c.index).cmd = "TRANS" /\ EntryAt(s.log, c.index).old = c.old
          /\ EntryAt(s.log, c.index).app = c.app /\ EntryAt(s.log, c.index).rem = c.rem
      BY <3>1, <3>2 DEF KnowsFrom, BothDecide, NewDecides
    <3>4. PICK i, e : i = c.index /\ e = EntryAt(L, i)
      OBVIOUS
    <3>5. i \in 0 .. C /\ e.cmd = "TRANS" /\ e.old = c.old /\ New(e) = New(c)
      <4>1. e = EntryAt(s.log, c.index)
        BY <3>2, <3>3, <3>4, PrefixFacts
      <4>2. c.index \in 0 .. C
        BY <3>3
      <4> QED BY <3>3, <3>4, <4>1, <4>2 DEF New
    <3>6. MajorityOf(HoldersOf(i), e.old) /\ MajorityOf(HoldersOf(i), New(e))
      BY <2>3, <3>4, <3>5 DEF OnMajorities
    <3>7. PICK a : a = [index |-> i, entry |-> e]
      OBVIOUS
    <3>8. a \in committed /\ Holders(a) = HoldersOf(i) /\ a.entry = e
      BY <2>8, <3>4, <3>5, <3>7
    <3> QED BY <3>1, <3>5, <3>6, <3>8
  <2>10. NewOnNewMajority
    <3> SUFFICES ASSUME NEW a \in committed, a.entry.cmd = "TRANS_NEW"
                 PROVE  \E b \in committed : /\ b.entry.cmd = "TRANS" /\ b.index < a.index
                                             /\ MajorityOf(Holders(a), New(b.entry))
      BY DEF NewOnNewMajority
    <3>1. PICK i \in 0 .. C : i = a.index /\ a.entry = EntryAt(L, i) /\ Holders(a) = HoldersOf(i)
      BY <2>4
    <3>2. PICK j \in 0 .. i - 1 : /\ EntryAt(L, j).cmd = "TRANS"
                                  /\ MajorityOf(HoldersOf(i), New(EntryAt(L, j)))
      BY <2>3, <3>1 DEF OnMajorities
    <3>3. PICK b : b = [index |-> j, entry |-> EntryAt(L, j)]
      OBVIOUS
    <3>4. b \in committed /\ b.index = j /\ b.entry = EntryAt(L, j) /\ j < i
      BY <2>8, <3>3
    <3> QED BY <3>1, <3>2, <3>4
  <2> QED BY <2>5, <2>6, <2>7, <2>9, <2>10
<1> QED BY <1>1, <1>2
-----------------------------------------------------------------------------
(* While the first term lasts, the change goes through, or is interrupted by *)
(* restarts of anybody and lost answers, and nobody else can win an election *)
(* with the members of either configuration (node_conf.cpp, enough_votes and *)
(* enough_votes_trans_conf of node.h): a term has one leader.               *)
THEOREM FirstTermOneLeader == Spec => [](FirstTerm => OneLeaderPerTerm)
<1>1. AllGood /\ (FirstTerm => OneLeader) => (FirstTerm => OneLeaderPerTerm)
  BY OneLeaderSafe
<1> QED BY <1>1, AlwaysOneLeader, PTL

(* What the leader and the followers commit of one index while the first    *)
(* term lasts is the same, by whichever configuration it was decided        *)
(* (on_append_entries_request, on_append_entries_response).                 *)
THEOREM FirstTermAgrees == Spec => [](FirstTerm => Agree)
<1>1. AllGood /\ (FirstTerm => OneLeader) => (FirstTerm => Agree)
  BY OneLeaderSafe
<1> QED BY <1>1, AlwaysOneLeader, PTL

(* The leader of the first term has all that anybody committed in it.       *)
THEOREM FirstTermComplete == Spec => [](FirstTerm => NewestLeaderComplete)
<1>1. AllGood /\ (FirstTerm => OneLeader) => (FirstTerm => NewestLeaderComplete)
  BY OneLeaderSafe
<1> QED BY <1>1, AlwaysOneLeader, PTL

(* Who leaves C_old behind, leader or follower, has a committed C_old,new    *)
(* that is on majorities of both, while the first term lasts                *)
(* (update_configuration_new, on_update_configuration_new).                 *)
THEOREM FirstTermJoint == Spec => [](FirstTerm => JointOnBothMajorities)
<1>1. AllGood /\ (FirstTerm => OneLeader) => (FirstTerm => JointOnBothMajorities)
  BY OneLeaderSafe
<1> QED BY <1>1, AlwaysOneLeader, PTL

(* C_new is committed by a majority of C_new, also by a leader that leaves,  *)
(* while the first term lasts (enough_votes_trans_conf).                    *)
THEOREM FirstTermNew == Spec => [](FirstTerm => NewOnNewMajority)
<1>1. AllGood /\ (FirstTerm => OneLeader) => (FirstTerm => NewOnNewMajority)
  BY OneLeaderSafe
<1> QED BY <1>1, AlwaysOneLeader, PTL
=============================================================================
