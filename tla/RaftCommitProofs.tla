--------------------------- MODULE RaftCommitProofs ---------------------------
(* What RaftNode commits stays committed, for every set of nodes and all      *)
(* bounds: an entry given to a state machine is on a majority of the disks,   *)
(* in the log of every later leader, and no state machine is given another.   *)
EXTENDS RaftLogProofs

-----------------------------------------------------------------------------
(* on_append_entries_request compares no terms when prev is the first index   *)
(* of the log or lies before it: the hypothesis is that it could have, that   *)
(* the request fits the log of its receiver there.                           *)
StartsCompared ==
  \A m \in CurrentRequests : m.term >= currentTerm[m.to] /\ logs[m.to] # <<>> =>
    /\ m.prev = 0 => TermAt(logs[m.to], 0) = m.prevTerm
    /\ m.prev = -1 => Extends(m.entries, logs[m.to])

(* What the other proofs have shown.                                        *)
Known == /\ TypeOK /\ ElectionInv /\ LeadersWon /\ RequestsByWinners /\ ElectionSafety
         /\ CountsFresh /\ LogInv /\ OrderInv

(* An entry at its index, as it is given to a state machine.                 *)
Points == [index : Nat, entry : Entries]
PointAt(log, i) == [index |-> i, entry |-> log[i + 1]]

Majorities == {Q \in SUBSET Node : EnoughVotes(Cardinality(Q))}

SortedLog(log) ==
  \A i, k \in 0 .. LastIndexOf(log) : i <= k => TermAt(log, i) <= TermAt(log, k)

(* A log is at least as recent as x: whoever holds x may vote for it.         *)
UpTo(log, x) ==
  /\ log # <<>>
  /\ \/ LastTermOf(log) > x.entry.term
     \/ LastTermOf(log) = x.entry.term /\ LastIndexOf(log) >= x.index
-----------------------------------------------------------------------------
LEMMA LastOf ==
  ASSUME NEW log \in Seq(Entries)
  PROVE  /\ LastIndexOf(log) \in Int /\ LastIndexOf(log) >= -1
         /\ log # <<>> <=> LastIndexOf(log) >= 0
         /\ log # <<>> => LastTermOf(log) = TermAt(log, LastIndexOf(log))
         /\ \A i \in 0 .. LastIndexOf(log) :
              i \in Nat /\ log[i + 1] \in Entries /\ TermAt(log, i) \in Nat
<1>1. LastIndexOf(log) \in Int /\ LastIndexOf(log) >= -1
  BY LogType DEF Index
<1>2. log # <<>> <=> LastIndexOf(log) >= 0
  BY LenProperties, EmptySeq DEF LastIndexOf
<1>3. log # <<>> => LastTermOf(log) = TermAt(log, LastIndexOf(log))
  <2>1. Len(log) \in Nat
    BY LenProperties
  <2>2. Len(log) = LastIndexOf(log) + 1
    BY <2>1 DEF LastIndexOf
  <2> QED BY <2>2 DEF LastTermOf, TermAt
<1>4. \A i \in 0 .. LastIndexOf(log) : log[i + 1] \in Entries /\ TermAt(log, i) \in Nat
  BY LogType
<1> QED BY <1>1, <1>2, <1>3, <1>4

LEMMA PointTypes ==
  ASSUME NEW x \in Points
  PROVE  /\ x.index \in Nat /\ x.entry \in Entries
         /\ x.entry.term \in Nat /\ x.entry.owner \in Node
BY DEF Points, Entries

LEMMA PointAtType ==
  ASSUME NEW log \in Seq(Entries), NEW i \in 0 .. LastIndexOf(log)
  PROVE  /\ PointAt(log, i) \in Points /\ Holds(log, PointAt(log, i))
         /\ PointAt(log, i).index = i /\ PointAt(log, i).entry = log[i + 1]
         /\ PointAt(log, i).entry.term = TermAt(log, i)
BY LastOf DEF PointAt, Points, Holds, TermAt

LEMMA HoldsIndex ==
  ASSUME NEW log \in Seq(Entries), NEW x \in Points, Holds(log, x)
  PROVE  /\ x.index \in 0 .. LastIndexOf(log) /\ log[x.index + 1] = x.entry
         /\ TermAt(log, x.index) = x.entry.term /\ log # <<>>
BY LastOf, PointTypes DEF Holds, TermAt

(* Who holds x in a log in the order of the terms is at least as recent.     *)
LEMMA HoldsUpTo ==
  ASSUME NEW log \in Seq(Entries), SortedLog(log), NEW x \in Points, Holds(log, x)
  PROVE  UpTo(log, x)
<1>1. /\ x.index \in 0 .. LastIndexOf(log) /\ TermAt(log, x.index) = x.entry.term /\ log # <<>>
  BY HoldsIndex
<1>2. /\ LastIndexOf(log) \in Int /\ LastIndexOf(log) >= 0 /\ LastTermOf(log) \in Nat
      /\ LastTermOf(log) = TermAt(log, LastIndexOf(log)) /\ x.entry.term \in Nat
  BY <1>1, LastOf, PointTypes, LogType
<1>3. LastTermOf(log) >= x.entry.term
  BY <1>1, <1>2 DEF SortedLog
<1> QED BY <1>1, <1>2, <1>3 DEF UpTo

(* What a log has, a part of it from the start has, if it is recent enough.  *)
LEMMA PrefixHolds ==
  ASSUME NEW a \in Seq(Entries), NEW b \in Seq(Entries), SortedLog(b), Extends(b, a),
         NEW x \in Points, UpTo(a, x), UpTo(b, x) => Holds(b, x)
  PROVE  Holds(a, x)
<1> DEFINE la == LastIndexOf(a)
           lb == LastIndexOf(b)
           t == x.entry.term
<1>1. /\ la \in Int /\ lb \in Int /\ la >= 0 /\ lb >= la /\ t \in Nat /\ x.index \in Nat
      /\ LastTermOf(a) = TermAt(a, la) /\ LastTermOf(b) = TermAt(b, lb)
      /\ a # <<>> /\ b # <<>> /\ LastTermOf(a) \in Nat /\ LastTermOf(b) \in Nat
  <2>1. a # <<>>
    BY DEF UpTo
  <2>2. la \in Int /\ lb \in Int /\ la >= 0 /\ lb >= la /\ LastTermOf(a) = TermAt(a, la)
    BY <2>1, LastOf DEF Extends
  <2>3. b # <<>> /\ LastTermOf(b) = TermAt(b, lb)
    BY <2>2, LastOf
  <2> QED BY <2>1, <2>2, <2>3, LogType, PointTypes
<1>2. \A i \in 0 .. la : b[i + 1] = a[i + 1]
  BY DEF Extends
<1>3. TermAt(b, la) = LastTermOf(a)
  <2>1. la \in 0 .. la
    BY <1>1
  <2>2. b[la + 1] = a[la + 1]
    BY <1>2, <2>1
  <2> QED BY <1>1, <2>2 DEF TermAt
<1>4. LastTermOf(b) >= LastTermOf(a)
  BY <1>1, <1>3 DEF SortedLog
<1>5. LastTermOf(a) >= t
  BY <1>1 DEF UpTo
<1>6. UpTo(b, x)
  <2>1. CASE LastTermOf(b) > t
    BY <1>1, <2>1 DEF UpTo
  <2>2. CASE LastTermOf(b) = t
    <3>1. LastTermOf(a) = t
      BY <1>1, <1>4, <1>5, <2>2
    <3>2. la >= x.index
      BY <1>1, <3>1 DEF UpTo
    <3> QED BY <1>1, <2>2, <3>2 DEF UpTo
  <2> QED BY <1>1, <1>4, <1>5, <2>1, <2>2
<1>7. /\ x.index \in 0 .. lb /\ b[x.index + 1] = x.entry /\ TermAt(b, x.index) = t
  BY <1>6, HoldsIndex
<1>8. x.index <= la
  <2>1. CASE LastTermOf(a) > t
    <3>1. SUFFICES ASSUME x.index > la PROVE FALSE
      BY <1>1
    <3>2. TermAt(b, la) <= TermAt(b, x.index)
      BY <1>1, <1>7, <3>1 DEF SortedLog
    <3> QED BY <1>1, <1>3, <1>7, <2>1, <3>2
  <2>2. CASE LastTermOf(a) = t
    BY <1>1, <2>2 DEF UpTo
  <2> QED BY <1>1, <1>5, <2>1, <2>2
<1>9. a[x.index + 1] = x.entry
  BY <1>1, <1>2, <1>7, <1>8
<1> QED BY <1>8, <1>9 DEF Holds

LEMMA MajoritiesMeet ==
  ASSUME NEW Q \in Majorities, NEW R \in Majorities
  PROVE  \E q \in Node : q \in Q /\ q \in R
<1>1. Q \subseteq Node /\ R \subseteq Node
      /\ Cardinality(Q) > Cardinality(Node) \div 2 /\ Cardinality(R) > Cardinality(Node) \div 2
  BY DEF Majorities, EnoughVotes
<1>2. /\ Cardinality(Node) \in Nat /\ Cardinality(Q) \in Nat /\ Cardinality(R) \in Nat
  BY <1>1, NodeAssumption, FS_Subset, FS_CardinalityType
<1>3. Cardinality(Q) + Cardinality(R) > Cardinality(Node)
  BY <1>1, <1>2
<1>4. Q \cap R # {}
  BY <1>1, <1>3, NodeAssumption, FS_MajoritiesIntersect
<1> QED BY <1>1, <1>4

(* A set that holds a majority is one.                                      *)
LEMMA LargerMajority ==
  ASSUME NEW Q \in Majorities, NEW R \in SUBSET Node, Q \subseteq R
  PROVE  R \in Majorities
<1>1. IsFiniteSet(R) /\ Cardinality(Q) <= Cardinality(R) /\ Cardinality(Q) \in Nat
      /\ Cardinality(R) \in Nat /\ Cardinality(Node) \in Nat
  BY NodeAssumption, FS_Subset, FS_CardinalityType DEF Majorities
<1> QED BY <1>1 DEF Majorities, EnoughVotes
-----------------------------------------------------------------------------
LEMMA KnownNode ==
  ASSUME Known, NEW n \in Node
  PROVE  /\ logs[n] \in Seq(Entries) /\ LastIndexOf(logs[n]) \in Int /\ LastIndexOf(logs[n]) >= -1
         /\ currentTerm[n] \in Nat /\ disk[n].term \in Nat /\ disk[n].term <= currentTerm[n]
         /\ disk[n].logs = logs[n]
         /\ state[n] \in {"Candidate", "Leader"} => disk[n].term = currentTerm[n]
         /\ state[n] = "Leader" => Won(n, currentTerm[n])
         /\ commitIndex[n] \in Int /\ commitIndex[n] >= -1
<1>1. TypeOK /\ DiskLogs /\ LeadersWon /\ DiskBehind /\ VoteSelf
  BY DEF Known, LogInv, ElectionInv
<1>2. logs[n] \in Seq(Entries) /\ currentTerm[n] \in Nat
  BY <1>1, LogTypes
<1>3. disk[n].term \in Nat /\ commitIndex[n] \in Index
  BY <1>1, BallotTypes DEF TypeOK, LogTypeOK
<1> QED BY <1>1, <1>2, <1>3, LastOf DEF DiskLogs, LeadersWon, DiskBehind, VoteSelf, Index

(* Entries are of winners, of terms that are on disk, and a leader has those  *)
(* of its term.                                                             *)
LEMMA KnownEntry ==
  ASSUME Known, NEW n \in Node, NEW i \in 0 .. LastIndexOf(logs[n])
  PROVE  /\ Won(logs[n][i + 1].owner, TermAt(logs[n], i))
         /\ TermAt(logs[n], i) <= disk[n].term
         /\ \A l \in Node : state[l] = "Leader" /\ TermAt(logs[n], i) = currentTerm[l] =>
              i <= LastIndexOf(logs[l]) /\ logs[l][i + 1] = logs[n][i + 1]
<1>1. TypeOK /\ EntriesWon /\ LeaderHolds /\ LogTerms
  BY DEF Known, LogInv, OrderInv
<1>2. logs[n] \in Seq(Entries) /\ Whole(logs[n]) \in Views /\ i \in Int
  BY <1>1, LogTypes, ViewsType, LastOf
<1>3. i \in Covered(Whole(logs[n])) /\ EntryIn(Whole(logs[n]), i) = logs[n][i + 1]
  BY <1>2, WholeType
<1>4. Stands(logs[n][i + 1], i)
  BY <1>2, <1>3 DEF Stands
<1> QED BY <1>1, <1>4 DEF EntriesWon, LeaderHolds, LogTerms, TermAt

(* Two logs with an entry of one term at one index agree up to there.        *)
LEMMA SameBefore ==
  ASSUME Known, NEW n \in Node, NEW o \in Node,
         NEW i \in 0 .. LastIndexOf(logs[n]), i <= LastIndexOf(logs[o]),
         TermAt(logs[n], i) = TermAt(logs[o], i),
         NEW j \in 0 .. i
  PROVE  logs[n][j + 1] = logs[o][j + 1]
<1>1. TypeOK /\ LogMatching
  BY MatchFromTerms DEF Known
<1>2. PICK a \in Seq(Entries), b \in Seq(Entries) : a = logs[n] /\ b = logs[o]
  BY <1>1, LogTypes
<1>3. PICK k \in Nat : k = i /\ j \in 0 .. k
  BY <1>2, LastOf
<1>4. Len(a) \in Nat /\ Len(b) \in Nat /\ k + 1 <= Len(a) /\ k + 1 <= Len(b)
  BY <1>2, <1>3, LenProperties DEF LastIndexOf
<1>5. k + 1 \in DOMAIN a \cap DOMAIN b
  BY <1>2, <1>3, <1>4, LenProperties
<1>6. a[k + 1].term = b[k + 1].term
  BY <1>2, <1>3 DEF TermAt
<1>7. SubSeq(a, 1, k + 1) = SubSeq(b, 1, k + 1)
  BY <1>1, <1>2, <1>5, <1>6 DEF LogMatching
<1>8. k + 1 \in Nat /\ j + 1 \in 1 .. k + 1
  BY <1>3
<1>9. SubSeq(a, 1, k + 1)[j + 1] = a[j + 1] /\ SubSeq(b, 1, k + 1)[j + 1] = b[j + 1]
  BY <1>4, <1>8, PrefixEntries
<1> QED BY <1>2, <1>7, <1>9

(* Two logs that hold x agree up to it.                                     *)
LEMMA HoldersAgree ==
  ASSUME Known, NEW n \in Node, NEW o \in Node, NEW x \in Points,
         Holds(logs[n], x), Holds(logs[o], x), NEW j \in 0 .. x.index
  PROVE  /\ j \in 0 .. LastIndexOf(logs[n]) /\ j \in 0 .. LastIndexOf(logs[o])
         /\ logs[n][j + 1] = logs[o][j + 1]
<1>1. /\ x.index \in 0 .. LastIndexOf(logs[n]) /\ x.index \in 0 .. LastIndexOf(logs[o])
      /\ TermAt(logs[n], x.index) = TermAt(logs[o], x.index)
  BY KnownNode, HoldsIndex
<1>2. LastIndexOf(logs[n]) \in Int /\ LastIndexOf(logs[o]) \in Int
  BY KnownNode
<1>3. j \in 0 .. LastIndexOf(logs[n]) /\ j \in 0 .. LastIndexOf(logs[o])
      /\ x.index <= LastIndexOf(logs[o])
  BY <1>1, <1>2
<1> QED BY <1>1, <1>3, SameBefore

(* If they hold x, and one of them an earlier y, so does the other.           *)
LEMMA HoldersShare ==
  ASSUME Known, NEW n \in Node, NEW o \in Node, NEW x \in Points, NEW y \in Points,
         Holds(logs[n], x), Holds(logs[o], x), Holds(logs[n], y), y.index <= x.index
  PROVE  Holds(logs[o], y)
<1>1. y.index \in 0 .. x.index /\ logs[n][y.index + 1] = y.entry
  BY KnownNode, HoldsIndex, PointTypes
<1>2. y.index \in 0 .. LastIndexOf(logs[o]) /\ logs[n][y.index + 1] = logs[o][y.index + 1]
  BY <1>1, HoldersAgree
<1> QED BY <1>1, <1>2, KnownNode DEF Holds

LEMMA PointKnown ==
  ASSUME Known, NEW n \in Node, NEW x \in Points, Holds(logs[n], x)
  PROVE  Won(x.entry.owner, x.entry.term) /\ x.entry.term <= disk[n].term
<1>1. /\ x.index \in 0 .. LastIndexOf(logs[n]) /\ TermAt(logs[n], x.index) = x.entry.term
      /\ logs[n][x.index + 1] = x.entry
  BY KnownNode, HoldsIndex
<1> QED BY <1>1, KnownEntry

LEMMA KnownGrant ==
  ASSUME Known, NEW g \in grants
  PROVE  /\ g.voter \in Node /\ g.cand \in Node /\ g.term \in Nat
         /\ g.term <= disk[g.voter].term
<1>1. TypeOK /\ VotesKept
  BY DEF Known, ElectionInv
<1>2. g.voter \in Node /\ g.cand \in Node /\ g.term \in Nat
  BY <1>1, HistoryTypes
<1>3. disk[g.voter].term \in Nat
  BY <1>2, KnownNode
<1> QED BY <1>1, <1>2, <1>3 DEF VotesKept, Remembers

(* A majority voted for the winner of a term, in that term, and is past it.  *)
LEMMA WinnerVoters ==
  ASSUME Known, NEW e \in elected
  PROVE  /\ Voters(e) \in Majorities
         /\ \A q \in Voters(e) : /\ q \in Node /\ disk[q].term >= e.term
                                 /\ q = e.node \/ Grant(q, e.term, e.node) \in grants
<1>1. TypeOK /\ ElectionInv
  BY DEF Known
<1>2. Voters(e) \in Majorities
  BY <1>1, VotersMajority DEF Majorities, EnoughVotes
<1>3. ASSUME NEW q \in Voters(e)
      PROVE  /\ q \in Node /\ disk[q].term >= e.term
             /\ q = e.node \/ Grant(q, e.term, e.node) \in grants
  <2>1. q \in Node /\ e.node \in Node /\ e.term \in Nat /\ disk[q].term \in Nat
    BY <1>1, <1>2, HistoryTypes, KnownNode DEF Majorities
  <2>2. CASE q = e.node
    BY <1>1, <2>1, <2>2 DEF ElectionInv, WinnersFaithful, Remembers
  <2>3. CASE q # e.node
    <3>1. e.votes[q] # 0 /\ e.votes[q] \in {0, e.term}
      BY <2>1, <2>3 DEF Voters, Peers, Known, CountsFresh, Fresh
    <3>2. Grant(q, e.term, e.node) \in grants
      BY <1>1, <2>1, <3>1 DEF ElectionInv, WinnersCounted
    <3>3. disk[q].term >= e.term
      BY <3>2, KnownGrant DEF Grant
    <3> QED BY <2>1, <3>2, <3>3
  <2> QED BY <2>2, <2>3
<1> QED BY <1>2, <1>3

LEMMA WonVoters ==
  ASSUME Known, NEW n, NEW t, Won(n, t)
  PROVE  \E V \in Majorities : \A q \in V : q \in Node /\ disk[q].term >= t
<1>1. PICK e \in elected : e.node = n /\ e.term = t
  BY DEF Won, WonIn
<1> QED BY <1>1, WinnerVoters
-----------------------------------------------------------------------------
(* The inductive invariant.  First what the logs, the votes and the requests  *)
(* under way are like.                                                      *)
Sorted == \A n \in Node : SortedLog(logs[n])

(* Who was voted for has asked for it, so it is in that term or past it.      *)
GrantsAsked == \A g \in grants : g.term <= disk[g.cand].term

(* A candidate's calls of its term show its log, which it keeps.             *)
VotesAsked ==
  \A m \in msgs :
    m.type = "VoteRequest" /\ m.live /\ m.term = currentTerm[m.from] /\ state[m.from] = "Candidate" =>
      m.lastIndex = LastIndexOf(logs[m.from]) /\ m.lastTerm = LastTermOf(logs[m.from])

(* A leader's calls of its term show its log, and all of other terms in it.   *)
Exact ==
  \A m \in CurrentRequests :
    /\ m.prev <= LastIndexOf(logs[m.from]) /\ End(Part(m)) <= LastIndexOf(logs[m.from])
    /\ Shows(m, logs[m.from])
    /\ m.commit <= commitIndex[m.from] /\ m.commit <= End(Part(m))
    /\ \A i \in 0 .. LastIndexOf(logs[m.from]) :
         TermAt(logs[m.from], i) # m.term => i <= End(Part(m))

AnswersWon == \A r \in msgs : r.type = "AppendResponse" => Won(r.to, r.asked)

(* No term is above the number of elections.                                 *)
TermsCounted == \A n \in Node : currentTerm[n] <= faults.election

(* What a leader takes, or will take, for the last entry its peer shares.     *)
Asked(n, p) == {m \in CurrentRequests : m.from = n /\ m.to = p}
Answers(n, p) ==
  {r \in msgs : /\ r.type = "AppendResponse" /\ r.to = n /\ r.from = p
                /\ r.asked = currentTerm[n] /\ r.term = currentTerm[n]}
Claimed(n, p, i) ==
  \/ i = nextIndex[n][p] - 1 \/ i = matchIndex[n][p]
  \/ \E m \in Asked(n, p) : i = m.prev
  \/ \E r \in Answers(n, p) : i = r.last

SameUpTo(a, b, i) ==
  i <= LastIndexOf(a) /\ i <= LastIndexOf(b) /\ \A k \in 0 .. i : a[k + 1] = b[k + 1]

(* Above commit_index the peer does share it, until it is in a later term.    *)
Knows(p, n, i) ==
  /\ disk[p].term >= currentTerm[n]
  /\ disk[p].term = currentTerm[n] => SameUpTo(logs[p], logs[n], i)
ClaimTrue(n, p, i) ==
  i <= LastIndexOf(logs[n]) /\ (i > commitIndex[n] => Knows(p, n, i))
ClaimsTrue ==
  \A n \in Node : state[n] = "Leader" =>
    \A p \in Peers(n) : \A i \in Index : Claimed(n, p, i) => ClaimTrue(n, p, i)

(* Then what an entry x has to be to be safe: every log that is at least as   *)
(* recent holds it, and so does every leader of its term or a later one; and   *)
(* before a later term T is won, the nodes of a set have shut it to those who  *)
(* lack x: each holds x unless it has left T behind, and whom it has voted for *)
(* in T holds x.                                                            *)
LogsHave(x) == \A n \in Node : UpTo(logs[n], x) => Holds(logs[n], x)
LeadersHave(x) ==
  \A n \in Node : state[n] = "Leader" /\ currentTerm[n] >= x.entry.term => Holds(logs[n], x)

Unwon(T) == \A e \in elected : e.term # T
Runs(c, T) == state[c] = "Candidate" /\ currentTerm[c] = T
Shut(q, x, T) ==
  /\ disk[q].term <= T => Holds(logs[q], x)
  /\ \A g \in grants : g.voter = q /\ g.term = T /\ Runs(g.cand, T) => Holds(logs[g.cand], x)
Chosen(x, T) == \E Q \in Majorities : \A q \in Q : Shut(q, x, T)

(* A: those who have acknowledged x.                                         *)
Spread(x, A) ==
  /\ LogsHave(x) /\ LeadersHave(x)
  /\ \A T \in Nat : T > x.entry.term /\ Unwon(T) => Chosen(x, T) \/ \A q \in A : Shut(q, x, T)
Fixed(x) ==
  /\ x \in Points /\ Won(x.entry.owner, x.entry.term)
  /\ \E A \in Majorities : Spread(x, A)

(* A leader's entries of its term are as safe as that while they may still be  *)
(* committed: while those who can acknowledge them are a majority.            *)
Ackers(n, j) == {n} \union {p \in Peers(n) : \E i \in Index : Claimed(n, p, i) /\ i >= j}
Alive(A, t) == \A M \in Majorities : \E p \in M : p \in A \/ disk[p].term <= t
Open(n, j) ==
  /\ state[n] = "Leader" /\ j \in 0 .. LastIndexOf(logs[n]) /\ j > commitIndex[n]
  /\ TermAt(logs[n], j) = currentTerm[n]
OpenSpread ==
  \A n \in Node, j \in Nat :
    Open(n, j) /\ Alive(Ackers(n, j), currentTerm[n]) => Spread(PointAt(logs[n], j), Ackers(n, j))

(* What is committed is at or below an entry that is safe, and so is what has  *)
(* been applied.                                                            *)
CommitFixed ==
  \A n \in Node : commitIndex[n] >= 0 =>
    \E x : Fixed(x) /\ x.index >= commitIndex[n] /\ x.entry.term <= currentTerm[n]
AppliedFixed ==
  \A a \in applied : \E x :
    /\ Fixed(x) /\ a.index <= x.index
    /\ \A n \in Node : Holds(logs[n], x) => Holds(logs[n], a)

CommitInv ==
  /\ Sorted /\ GrantsAsked /\ VotesAsked /\ Exact /\ AnswersWon /\ TermsCounted
  /\ ClaimsTrue /\ OpenSpread /\ CommitFixed /\ AppliedFixed
-----------------------------------------------------------------------------
(* What a step does.  Node k's log stays, or grows as a leader's, or takes     *)
(* after that of a leader l, or is cut off below an entry that l has           *)
(* committed.                                                               *)
Keeps(log, old, l) ==
  \A i \in 0 .. LastIndexOf(old) :
    i <= LastIndexOf(l) /\ old[i + 1] = l[i + 1] =>
      i <= LastIndexOf(log) /\ log[i + 1] = old[i + 1]
Follows(k, l) ==
  /\ l \in Node \ {k} /\ state[l] = "Leader" /\ state'[k] # "Leader"
  /\ disk'[k].term = currentTerm[l]
Takes(k, l) ==
  /\ Follows(k, l)
  /\ Extends(logs[l], logs'[k]) /\ Keeps(logs'[k], logs[k], logs[l])
Cuts(k, l) ==
  /\ Follows(k, l) /\ Extends(logs[k], logs'[k])
  /\ \E c \in Nat : /\ c <= commitIndex[l] /\ c <= LastIndexOf(logs[k]) /\ c <= LastIndexOf(logs[l])
                    /\ logs[k][c + 1] # logs[l][c + 1]
Grows(k) ==
  /\ state[k] = "Leader" /\ logs'[k] = Append(logs[k], Entry(k))
  /\ disk'[k].term = disk[k].term
LogMove(k) ==
  /\ k \in Node /\ \A q \in Node \ {k} : logs'[q] = logs[q]
  /\ logs'[k] = logs[k] \/ Grows(k) \/ \E l : Takes(k, l) \/ Cuts(k, l)

(* A candidate was one, of the same term and log, or has no votes yet.        *)
CandidateMove ==
  \A c \in Node : state'[c] = "Candidate" =>
    \/ state[c] = "Candidate" /\ currentTerm'[c] = currentTerm[c] /\ logs'[c] = logs[c]
    \/ \A g \in grants' : g.cand = c => g.term < currentTerm'[c]

(* A vote goes to a log that is at least as recent as the voter's.            *)
Recent(a, b) ==
  \/ LastTermOf(a) > LastTermOf(b)
  \/ LastTermOf(a) = LastTermOf(b) /\ LastIndexOf(a) >= LastIndexOf(b)
GrantMove ==
  \A g \in grants' : g \in grants \/
    /\ logs' = logs /\ disk[g.voter].term <= g.term
    /\ Runs(g.cand, g.term) => Recent(logs[g.cand], logs[g.voter])

(* A leader was one, or has just been elected and claims next to nothing.     *)
Wins(n) ==
  /\ state[n] = "Candidate" /\ UNCHANGED <<logs, grants, commitIndex, disk>>
  /\ \E e \in elected' : e.node = n /\ e.term = currentTerm[n]
  /\ \A p \in Peers(n) : \A i \in Index : Claimed(n, p, i)' => i = -1 \/ i = commitIndex[n]
Leads(n) ==
  /\ state[n] = "Leader" /\ commitIndex'[n] >= commitIndex[n]
  /\ logs'[n] = logs[n] \/ Grows(n)
LeaderMove ==
  \A n \in Node : state'[n] = "Leader" =>
    currentTerm'[n] = currentTerm[n] /\ (Leads(n) \/ Wins(n))

(* A leader claims no more than before, but of a peer that has just taken      *)
(* after it.                                                                *)
ClaimMove ==
  \A n \in Node : state[n] = "Leader" /\ state'[n] = "Leader" =>
    \A p \in Peers(n) : \A i \in Index : Claimed(n, p, i)' =>
      \/ \E i0 \in Index : Claimed(n, p, i0) /\ i <= i0
      \/ Takes(p, n) /\ i <= LastIndexOf(logs'[p])

(* A leader commits what a majority has acknowledged, the others follow one.   *)
Commits(n, j) ==
  /\ state[n] = "Leader" /\ state'[n] = "Leader" /\ logs' = logs
  /\ Open(n, j) /\ Ackers(n, j) \in Majorities
CommitMove ==
  \A n \in Node : commitIndex'[n] >= 0 =>
    \/ commitIndex'[n] <= commitIndex[n] /\ currentTerm'[n] >= currentTerm[n]
    \/ \E l \in Node : /\ state[l] = "Leader" /\ commitIndex'[n] <= commitIndex[l]
                       /\ currentTerm'[n] >= currentTerm[l]
    \/ currentTerm'[n] = currentTerm[n] /\ Commits(n, commitIndex'[n])
ApplyMove ==
  \A a \in applied' : a \in applied \/
    \E l \in Node : state'[l] = "Leader" /\ Holds(logs'[l], a) /\ a.index <= commitIndex'[l]

CommitStep ==
  /\ \E k : LogMove(k)
  /\ DiskGrows /\ elected \subseteq elected'
  /\ CandidateMove /\ GrantMove /\ LeaderMove /\ ClaimMove /\ CommitMove /\ ApplyMove
-----------------------------------------------------------------------------
LEMMA GrowsLog ==
  ASSUME Known, NEW k \in Node, Grows(k)
  PROVE  /\ logs'[k] \in Seq(Entries) /\ LastIndexOf(logs'[k]) = LastIndexOf(logs[k]) + 1
         /\ \A i \in 0 .. LastIndexOf(logs[k]) : logs'[k][i + 1] = logs[k][i + 1]
         /\ logs'[k][LastIndexOf(logs[k]) + 2] = Entry(k)
         /\ TermAt(logs'[k], LastIndexOf(logs[k]) + 1) = currentTerm[k]
         /\ Extends(logs'[k], logs[k])
<1>1. PICK log \in Seq(Entries), e \in Entries : log = logs[k] /\ e = Entry(k)
  BY KnownNode DEF Entry, Entries
<1>2. /\ Append(log, e) \in Seq(Entries) /\ LastIndexOf(Append(log, e)) = Len(log)
      /\ Len(log) \in Nat
      /\ \A i \in 0 .. LastIndexOf(log) : Append(log, e)[i + 1] = log[i + 1]
      /\ Append(log, e)[Len(log) + 1] = e
  BY AppendType
<1>3. logs'[k] = Append(log, e)
  BY <1>1 DEF Grows
<1>4. Len(log) = LastIndexOf(log) + 1 /\ LastIndexOf(log) \in Int
  BY <1>2 DEF LastIndexOf
<1>5. e.term = currentTerm[k]
  BY <1>1 DEF Entry
<1>6. LastIndexOf(log) + 1 + 1 = Len(log) + 1 /\ LastIndexOf(log) + 2 = Len(log) + 1
  BY <1>4
<1>7. /\ Append(log, e)[LastIndexOf(log) + 2] = e /\ Append(log, e)[LastIndexOf(log) + 1 + 1] = e
      /\ LastIndexOf(Append(log, e)) = LastIndexOf(log) + 1
  BY <1>2, <1>4, <1>6
<1>8. Extends(Append(log, e), log)
  BY <1>2, <1>4, <1>7 DEF Extends
<1> QED BY <1>1, <1>2, <1>3, <1>5, <1>7, <1>8 DEF TermAt

LEMMA FollowsKnown ==
  ASSUME Known, DiskGrows, NEW k \in Node, NEW l, Follows(k, l)
  PROVE  /\ l \in Node /\ l # k /\ state[l] = "Leader" /\ Won(l, currentTerm[l])
         /\ disk[k].term <= currentTerm[l] /\ disk'[k].term = currentTerm[l]
         /\ currentTerm[l] \in Nat
<1>1. l \in Node /\ l # k /\ state[l] = "Leader" /\ disk'[k].term = currentTerm[l]
  BY DEF Follows
<1>2. disk'[k].term >= disk[k].term
  BY DEF DiskGrows
<1> QED BY <1>1, <1>2, KnownNode

LEMMA PrefixSorted ==
  ASSUME NEW a \in Seq(Entries), NEW b \in Seq(Entries), SortedLog(b), Extends(b, a)
  PROVE  SortedLog(a)
<1> SUFFICES ASSUME NEW i \in 0 .. LastIndexOf(a), NEW j \in 0 .. LastIndexOf(a), i <= j
             PROVE  TermAt(a, i) <= TermAt(a, j)
  BY DEF SortedLog
<1>1. LastIndexOf(a) \in Int /\ LastIndexOf(b) \in Int /\ LastIndexOf(b) >= LastIndexOf(a)
  BY LastOf DEF Extends
<1>2. i \in 0 .. LastIndexOf(b) /\ j \in 0 .. LastIndexOf(b)
  BY <1>1
<1>3. TermAt(b, i) = TermAt(a, i) /\ TermAt(b, j) = TermAt(a, j)
  BY DEF Extends, TermAt
<1> QED BY <1>2, <1>3 DEF SortedLog

LEMMA SortedStays ==
  ASSUME Known, Known', Sorted, DiskGrows, NEW k, LogMove(k)
  PROVE  Sorted'
<1> SUFFICES ASSUME NEW n \in Node PROVE SortedLog(logs'[n])
  BY DEF Sorted
<1>t. logs[n] \in Seq(Entries) /\ logs'[n] \in Seq(Entries)
  BY KnownNode, LogTypes DEF Known, TypeOK, LogTypeOK
<1>1. CASE logs'[n] = logs[n]
  BY <1>1 DEF Sorted
<1>2. CASE n = k /\ Grows(k)
  <2>1. /\ LastIndexOf(logs'[n]) = LastIndexOf(logs[n]) + 1
        /\ \A i \in 0 .. LastIndexOf(logs[n]) : logs'[n][i + 1] = logs[n][i + 1]
        /\ TermAt(logs'[n], LastIndexOf(logs[n]) + 1) = currentTerm[n]
    BY <1>2, GrowsLog
  <2>2. /\ LastIndexOf(logs[n]) \in Int
        /\ \A i \in 0 .. LastIndexOf(logs[n]) : TermAt(logs[n], i) <= currentTerm[n]
    <3>1. disk[n].term <= currentTerm[n] /\ disk[n].term \in Nat /\ currentTerm[n] \in Nat
          /\ LastIndexOf(logs[n]) \in Int
      BY KnownNode
    <3>2. ASSUME NEW i \in 0 .. LastIndexOf(logs[n]) PROVE TermAt(logs[n], i) <= currentTerm[n]
      <4>1. TermAt(logs[n], i) <= disk[n].term /\ TermAt(logs[n], i) \in Nat
        BY <1>t, KnownEntry, LastOf
      <4> QED BY <3>1, <4>1
    <3> QED BY <3>1, <3>2
  <2>3. SUFFICES ASSUME NEW i \in 0 .. LastIndexOf(logs'[n]), NEW j \in 0 .. LastIndexOf(logs'[n]),
                        i <= j
                 PROVE  TermAt(logs'[n], i) <= TermAt(logs'[n], j)
    BY DEF SortedLog
  <2>4. \A h \in 0 .. LastIndexOf(logs[n]) : TermAt(logs'[n], h) = TermAt(logs[n], h)
    BY <2>1 DEF TermAt
  <2>5. CASE j <= LastIndexOf(logs[n])
    BY <2>1, <2>2, <2>3, <2>4, <2>5 DEF Sorted, SortedLog
  <2>6. CASE j > LastIndexOf(logs[n])
    <3>1. j = LastIndexOf(logs[n]) + 1
      BY <2>1, <2>2, <2>6
    <3>2. CASE i = j
      BY <1>t, <3>2, LastOf
    <3>3. CASE i # j
      BY <2>1, <2>2, <2>3, <2>4, <3>1, <3>3
    <3> QED BY <3>2, <3>3
  <2> QED BY <2>1, <2>2, <2>5, <2>6
<1>3. CASE n = k /\ \E l : Takes(k, l) \/ Cuts(k, l)
  <2>1. PICK l : Takes(k, l) \/ Cuts(k, l)
    BY <1>3
  <2>2. PICK b \in Seq(Entries) : SortedLog(b) /\ Extends(b, logs'[n])
    BY <1>3, <2>1, KnownNode DEF Takes, Cuts, Follows, Sorted
  <2> QED BY <1>t, <2>2, PrefixSorted
<1> QED BY <1>1, <1>2, <1>3 DEF LogMove

(* Who holds x holds it on, if it is not cut off.                            *)
LEMMA HoldStays ==
  ASSUME Known, DiskGrows, NEW k, LogMove(k), NEW n \in Node, NEW x \in Points, LeadersHave(x),
         Holds(logs[n], x)
  PROVE  Holds(logs'[n], x) \/ (n = k /\ \E l : Cuts(k, l) /\ Holds(logs[l], x))
<1>0. k \in Node
  BY DEF LogMove
<1>1. /\ x.index \in 0 .. LastIndexOf(logs[n]) /\ logs[n][x.index + 1] = x.entry
      /\ TermAt(logs[n], x.index) = x.entry.term /\ LastIndexOf(logs[n]) \in Int
  BY KnownNode, HoldsIndex
<1>2. CASE logs'[n] = logs[n]
  BY <1>2
<1>3. CASE n = k /\ Grows(k)
  BY <1>1, <1>3, GrowsLog DEF Holds
<1>4. ASSUME n = k, NEW l, Follows(k, l) PROVE l \in Node /\ Holds(logs[l], x)
  <2>1. x.entry.term <= disk[k].term
    BY <1>4, PointKnown
  <2>2. currentTerm[l] >= x.entry.term
    BY <1>0, <1>4, <2>1, FollowsKnown, KnownNode, PointTypes
  <2> QED BY <1>0, <1>4, <2>2, FollowsKnown DEF LeadersHave
<1>5. ASSUME n = k, NEW l, Takes(k, l) PROVE Holds(logs'[n], x)
  <2>1. Follows(k, l)
    BY <1>5 DEF Takes
  <2>2. l \in Node /\ Holds(logs[l], x)
    BY <1>4, <1>5, <2>1
  <2>3. x.index <= LastIndexOf(logs[l]) /\ logs[k][x.index + 1] = logs[l][x.index + 1]
    BY <1>1, <1>5, <2>2 DEF Holds
  <2> QED BY <1>1, <1>5, <2>3 DEF Takes, Keeps, Holds
<1>6. ASSUME n = k, NEW l, Cuts(k, l) PROVE Holds(logs[l], x)
  BY <1>4, <1>6 DEF Cuts
<1> QED BY <1>2, <1>3, <1>5, <1>6 DEF LogMove

LEMMA LogsHaveStays ==
  ASSUME Known, Known', Sorted, DiskGrows, NEW k, LogMove(k), NEW x \in Points,
         LogsHave(x), LeadersHave(x)
  PROVE  LogsHave(x)'
<1> SUFFICES ASSUME NEW n \in Node, UpTo(logs'[n], x) PROVE Holds(logs'[n], x)
  BY DEF LogsHave
<1>t. logs[n] \in Seq(Entries) /\ logs'[n] \in Seq(Entries)
  BY KnownNode DEF Known, TypeOK, LogTypeOK
<1>1. CASE logs'[n] = logs[n]
  BY <1>1 DEF LogsHave
<1>2. CASE n = k /\ Grows(k)
  <2>1. /\ LastIndexOf(logs'[n]) = LastIndexOf(logs[n]) + 1
        /\ TermAt(logs'[n], LastIndexOf(logs[n]) + 1) = currentTerm[n]
        /\ \A i \in 0 .. LastIndexOf(logs[n]) : logs'[n][i + 1] = logs[n][i + 1]
    BY <1>2, GrowsLog
  <2>2. logs'[n] # <<>>
    BY DEF UpTo
  <2>3. LastTermOf(logs'[n]) = currentTerm[n]
    BY <1>t, <2>1, <2>2, LastOf
  <2>4. currentTerm[n] >= x.entry.term
    BY <2>3, KnownNode, PointTypes DEF UpTo
  <2>5. Holds(logs[n], x)
    BY <1>2, <2>4 DEF LeadersHave, Grows
  <2>6. x.index \in 0 .. LastIndexOf(logs[n]) /\ logs[n][x.index + 1] = x.entry
    BY <1>t, <2>5, HoldsIndex
  <2>7. LastIndexOf(logs[n]) \in Int /\ x.index <= LastIndexOf(logs'[n])
    BY <1>t, <2>1, <2>6, LastOf
  <2>8. logs'[n][x.index + 1] = x.entry
    BY <2>1, <2>6
  <2> QED BY <2>7, <2>8 DEF Holds
<1>3. CASE n = k /\ \E l : Takes(k, l) \/ Cuts(k, l)
  <2>1. PICK l : Takes(k, l) \/ Cuts(k, l)
    BY <1>3
  <2>2. PICK o \in Node : Extends(logs[o], logs'[n])
    BY <1>3, <2>1 DEF Takes, Cuts, Follows
  <2>3. logs[o] \in Seq(Entries) /\ SortedLog(logs[o])
    BY KnownNode DEF Sorted
  <2>4. UpTo(logs[o], x) => Holds(logs[o], x)
    BY DEF LogsHave
  <2> QED BY <1>t, <2>2, <2>3, <2>4, PrefixHolds
<1> QED BY <1>1, <1>2, <1>3 DEF LogMove
-----------------------------------------------------------------------------
(* A node that has shut x's terms keeps them shut, unless it loses x.         *)
Loses(q, x, T) ==
  disk'[q].term <= T /\ Holds(logs[q], x) /\ ~Holds(logs'[q], x)

LEMMA ShutStays ==
  ASSUME Known, Known', Sorted, DiskGrows, CandidateMove, GrantMove,
         NEW k, LogMove(k), NEW x \in Points, LogsHave(x), LeadersHave(x),
         NEW q \in Node, NEW T \in Nat, Shut(q, x, T), ~Loses(q, x, T)
  PROVE  Shut(q, x, T)'
<1>1. ASSUME disk'[q].term <= T PROVE Holds(logs'[q], x)
  <2>1. disk[q].term <= T
    <3>1. disk[q].term \in Nat /\ disk'[q].term \in Nat /\ disk'[q].term >= disk[q].term
      BY KnownNode, BallotTypesNext DEF DiskGrows, Known
    <3> QED BY <1>1, <3>1
  <2>2. Holds(logs[q], x)
    BY <2>1 DEF Shut
  <2> QED BY <1>1, <2>2 DEF Loses
<1>2. ASSUME NEW g \in grants', g.voter = q, g.term = T, Runs(g.cand, T)'
      PROVE  Holds(logs'[g.cand], x)
  <2>1. g.cand \in Node /\ state'[g.cand] = "Candidate" /\ currentTerm'[g.cand] = T
    BY <1>2, HistoryTypes DEF Runs, Known, TypeOK, HistoryTypeOK
  <2>2. Runs(g.cand, T) /\ logs'[g.cand] = logs[g.cand]
    BY <1>2, <2>1 DEF CandidateMove, Runs
  <2>3. CASE g \in grants
    BY <1>2, <2>2, <2>3 DEF Shut
  <2>4. CASE g \notin grants
    <3>1. disk[q].term <= T /\ Recent(logs[g.cand], logs[q])
      BY <1>2, <2>2, <2>4 DEF GrantMove
    <3>2. Holds(logs[q], x)
      BY <3>1 DEF Shut
    <3>3. UpTo(logs[q], x)
      BY <3>2, KnownNode, HoldsUpTo DEF Sorted
    <3>4. UpTo(logs[g.cand], x)
      <4>1. PICK a \in Seq(Entries), b \in Seq(Entries) : a = logs[g.cand] /\ b = logs[q]
        BY <2>1, KnownNode
      <4>2. /\ LastTermOf(a) \in Nat /\ LastTermOf(b) \in Nat /\ x.entry.term \in Nat
            /\ LastIndexOf(a) \in Int /\ LastIndexOf(b) \in Int /\ x.index \in Nat
        BY LogType, LastOf, PointTypes
      <4>3. Recent(a, b) /\ UpTo(b, x)
        BY <3>1, <3>3, <4>1
      <4>4. a # <<>>
        <5>1. SUFFICES ASSUME a = <<>> PROVE FALSE
          OBVIOUS
        <5>2. LastTermOf(a) = 0 /\ ~(LastIndexOf(a) >= 0)
          <6>1. LastTermOf(a) = 0
            BY <5>1 DEF LastTermOf
          <6> QED BY <5>1, <6>1, LastOf
        <5>3. LastIndexOf(b) >= 0
          BY <4>3, LastOf DEF UpTo
        <5> QED BY <4>2, <4>3, <5>2, <5>3 DEF Recent
      <4>5. UpTo(a, x)
        <5>1. PICK ta \in Nat, tb \in Nat, t \in Nat :
                ta = LastTermOf(a) /\ tb = LastTermOf(b) /\ t = x.entry.term
          BY <4>2
        <5>2. PICK ia \in Int, ib \in Int, i \in Nat :
                ia = LastIndexOf(a) /\ ib = LastIndexOf(b) /\ i = x.index
          BY <4>2
        <5>3. ta > tb \/ (ta = tb /\ ia >= ib)
          BY <4>3, <5>1, <5>2 DEF Recent
        <5>4. tb > t \/ (tb = t /\ ib >= i)
          BY <4>3, <5>1, <5>2 DEF UpTo
        <5>5. ta > t \/ (ta = t /\ ia >= i)
          BY <5>3, <5>4
        <5> QED BY <4>4, <5>1, <5>2, <5>5 DEF UpTo
      <4> QED BY <4>1, <4>5
    <3> QED BY <2>1, <2>2, <3>4 DEF LogsHave
  <2> QED BY <2>3, <2>4
<1> QED BY <1>1, <1>2 DEF Shut

LEMMA FixedChosen ==
  ASSUME NEW x, Fixed(x), NEW T \in Nat, T > x.entry.term, Unwon(T)
  PROVE  Chosen(x, T)
<1>1. PICK A \in Majorities : Spread(x, A)
  BY DEF Fixed
<1>2. Chosen(x, T) \/ \A q \in A : Shut(q, x, T)
  BY <1>1 DEF Spread
<1> QED BY <1>1, <1>2 DEF Chosen

(* HoldersShare, for the state after a step.                                 *)
Share ==
  \A n, o \in Node, x, y \in Points :
    Holds(logs[n], x) /\ Holds(logs[o], x) /\ Holds(logs[n], y) /\ x.index >= y.index
    => Holds(logs[o], y)

LEMMA KnownShare == Known => Share
<1>1. ASSUME NEW a \in Nat, NEW b \in Nat PROVE a >= b => b <= a
  OBVIOUS
<1> QED BY <1>1, HoldersShare, PointTypes DEF Share

LEMMA ShareNext == (Known => Share)'
BY KnownShare, PTL

(* What is cut off lies below what the leader has committed, so those who      *)
(* keep the latter keep x.                                                  *)
LEMMA LostChosen ==
  ASSUME Known, Known', Sorted, CommitFixed, DiskGrows, elected \subseteq elected',
         CandidateMove, GrantMove, NEW k, LogMove(k), NEW x \in Points, LeadersHave(x),
         NEW T \in Nat, Unwon(T), Loses(k, x, T)
  PROVE  Chosen(x, T)'
<1>0. k \in Node
  BY DEF LogMove
<1>1. PICK l : Cuts(k, l) /\ Holds(logs[l], x)
  BY <1>0, HoldStays DEF Loses
<1>2. /\ l \in Node /\ l # k /\ state[l] = "Leader" /\ Won(l, currentTerm[l])
      /\ disk'[k].term = currentTerm[l] /\ currentTerm[l] \in Nat
  BY <1>0, <1>1, FollowsKnown DEF Cuts
<1>3. T > currentTerm[l]
  <2>1. T # currentTerm[l]
    BY <1>2 DEF Unwon, Won, WonIn
  <2>2. currentTerm[l] <= T
    BY <1>2 DEF Loses
  <2> QED BY <1>2, <2>1, <2>2
<1>4. PICK c \in Nat : /\ c <= commitIndex[l] /\ c <= LastIndexOf(logs[k]) /\ c <= LastIndexOf(logs[l])
                       /\ logs[k][c + 1] # logs[l][c + 1]
  BY <1>1 DEF Cuts
<1>5. PICK x2 : Fixed(x2) /\ x2.index >= commitIndex[l] /\ x2.entry.term <= currentTerm[l]
  BY <1>2, <1>4, KnownNode DEF CommitFixed
<1>6. x2 \in Points /\ LogsHave(x2) /\ LeadersHave(x2) /\ x2.index \in Nat /\ x2.entry.term \in Nat
      /\ x.index \in Nat
  BY <1>5, PointTypes DEF Fixed, Spread
<1>7. Holds(logs[l], x2)
  BY <1>2, <1>5, <1>6 DEF LeadersHave
<1>8. c <= x2.index /\ c \in 0 .. x2.index
  BY <1>2, <1>4, <1>5, <1>6, KnownNode
<1>9. ~Holds(logs[k], x2)
  BY <1>0, <1>2, <1>4, <1>6, <1>7, <1>8, HoldersAgree
<1>10. x.index < x2.index
  <2>1. ~(c \in 0 .. x.index)
    BY <1>0, <1>1, <1>2, <1>4, HoldersAgree DEF Loses
  <2> QED BY <1>6, <1>8, <2>1
<1>11. Chosen(x2, T)
  <2>1. T > x2.entry.term
    BY <1>2, <1>3, <1>5, <1>6
  <2> QED BY <1>5, <2>1, FixedChosen
<1>12. PICK Q \in Majorities : \A q \in Q : Shut(q, x2, T)
  BY <1>11 DEF Chosen
<1>13. logs'[l] = logs[l] /\ Holds(logs'[l], x) /\ Holds(logs'[l], x2)
  BY <1>1, <1>2, <1>7 DEF LogMove
<1>14. ASSUME NEW o \in Node, Holds(logs'[o], x2) PROVE Holds(logs'[o], x)
  <2>1. x2.index >= x.index
    BY <1>6, <1>10
  <2> QED BY <1>2, <1>6, <1>13, <1>14, <2>1, ShareNext DEF Share
<1>15. ASSUME NEW q \in Q PROVE Shut(q, x, T)'
  <2>1. q \in Node /\ Shut(q, x2, T)
    BY <1>12 DEF Majorities
  <2>2. ~Loses(q, x2, T)
    BY <1>9, <2>1 DEF Loses, LogMove
  <2>3. Shut(q, x2, T)'
    BY <1>6, <2>1, <2>2, ShutStays
  <2>4. \A g \in grants' : g.cand \in Node
    BY HistoryTypes DEF Known, TypeOK, HistoryTypeOK
  <2> QED BY <1>14, <2>1, <2>3, <2>4 DEF Shut
<1> QED BY <1>15 DEF Chosen
-----------------------------------------------------------------------------
(* WinnerVoters, for the state after a step.                                 *)
VotersPast ==
  \A e \in elected :
    /\ Voters(e) \in Majorities
    /\ \A q \in Voters(e) : /\ q \in Node /\ disk[q].term >= e.term
                            /\ q = e.node \/ Grant(q, e.term, e.node) \in grants

LEMMA KnownVoters == Known => VotersPast
BY WinnerVoters DEF VotersPast

LEMMA VotersNext == (Known => VotersPast)'
BY KnownVoters, PTL

(* Who wins a term is the first to win it, and a majority voted for it.       *)
LEMMA WinsKnown ==
  ASSUME Known, Known', elected \subseteq elected', NEW n \in Node, Wins(n)
  PROVE  /\ Runs(n, currentTerm[n]) /\ Unwon(currentTerm[n])
         /\ \E V \in Majorities : \A q \in V :
              /\ q \in Node /\ disk[q].term >= currentTerm[n]
              /\ q = n \/ Grant(q, currentTerm[n], n) \in grants
<1>1. PICK e \in elected' : e.node = n /\ e.term = currentTerm[n]
  BY DEF Wins
<1>2. state[n] = "Candidate" /\ grants' = grants /\ disk' = disk
  BY DEF Wins
<1>3. Unwon(currentTerm[n])
  <2>1. SUFFICES ASSUME NEW f \in elected, f.term = currentTerm[n] PROVE FALSE
    BY DEF Unwon
  <2>2. f.node = n
    BY <1>1, <2>1 DEF Known, ElectionSafety
  <2> QED BY <1>2, <2>1, <2>2 DEF Known, ElectionInv, WinnersFaithful
<1>4. /\ Voters(e) \in Majorities
      /\ \A q \in Voters(e) : /\ q \in Node /\ disk'[q].term >= e.term
                              /\ q = e.node \/ Grant(q, e.term, e.node) \in grants'
  BY <1>1, VotersNext DEF VotersPast
<1> QED BY <1>1, <1>2, <1>3, <1>4 DEF Runs

LEMMA LeadersHaveStays ==
  ASSUME Known, Known', elected \subseteq elected', LeaderMove,
         NEW x \in Points, Won(x.entry.owner, x.entry.term),
         NEW A, Spread(x, A), Alive(A, x.entry.term)
  PROVE  LeadersHave(x)'
<1> SUFFICES ASSUME NEW n \in Node, state'[n] = "Leader", currentTerm'[n] >= x.entry.term
             PROVE  Holds(logs'[n], x)
  BY DEF LeadersHave
<1>1. currentTerm'[n] = currentTerm[n] /\ (Leads(n) \/ Wins(n))
  BY DEF LeaderMove
<1>2. CASE Leads(n)
  <2>1. Holds(logs[n], x)
    BY <1>1, <1>2 DEF Leads, Spread, LeadersHave
  <2>2. CASE logs'[n] = logs[n]
    BY <2>1, <2>2
  <2>3. CASE Grows(n)
    <3>1. x.index \in 0 .. LastIndexOf(logs[n]) /\ logs[n][x.index + 1] = x.entry
          /\ LastIndexOf(logs[n]) \in Int
      BY <2>1, KnownNode, HoldsIndex
    <3> QED BY <2>3, <3>1, GrowsLog DEF Holds
  <2> QED BY <1>2, <2>2, <2>3 DEF Leads
<1>3. CASE Wins(n)
  <2> DEFINE T == currentTerm[n]
  <2>1. Runs(n, T) /\ Unwon(T) /\ logs' = logs /\ T \in Nat /\ disk[n].term = T
    BY <1>3, WinsKnown, KnownNode DEF Wins
  <2>2. PICK V \in Majorities : \A p \in V :
          /\ p \in Node /\ disk[p].term >= T
          /\ p = n \/ Grant(p, T, n) \in grants
    BY <1>3, WinsKnown
  <2>3. T > x.entry.term
    <3>1. T # x.entry.term
      BY <2>1 DEF Unwon, Won, WonIn
    <3> QED BY <1>1, <2>1, <3>1, PointTypes
  <2>4. PICK q \in V : Shut(q, x, T)
    <3>1. CASE Chosen(x, T)
      <4>1. PICK Q \in Majorities : \A p \in Q : Shut(p, x, T)
        BY <3>1 DEF Chosen
      <4> QED BY <4>1, MajoritiesMeet
    <3>2. CASE \A p \in A : Shut(p, x, T)
      <4>1. PICK p \in V : p \in A \/ disk[p].term <= x.entry.term
        BY DEF Alive
      <4>2. p \in Node /\ disk[p].term >= T
        BY <2>2, <4>1
      <4>3. disk[p].term \in Nat /\ x.entry.term \in Nat
        BY <4>2, KnownNode, PointTypes
      <4>4. p \in A
        BY <2>1, <2>3, <4>1, <4>2, <4>3
      <4> QED BY <3>2, <4>1, <4>4
    <3> QED BY <2>1, <2>3, <3>1, <3>2 DEF Spread
  <2>5. q \in Node /\ (q = n \/ Grant(q, T, n) \in grants)
    BY <2>2, <2>4, Zenon
  <2>6. CASE q = n
    BY <2>1, <2>4, <2>6 DEF Shut
  <2>7. CASE Grant(q, T, n) \in grants
    <3>1. /\ Grant(q, T, n).voter = q /\ Grant(q, T, n).term = T /\ Grant(q, T, n).cand = n
      BY DEF Grant
    <3> QED BY <2>1, <2>4, <2>7, <3>1 DEF Shut
  <2> QED BY <2>5, <2>6, <2>7
<1> QED BY <1>1, <1>2, <1>3

LEMMA SpreadStays ==
  ASSUME Known, Known', Sorted, CommitFixed, CommitStep,
         NEW x \in Points, Won(x.entry.owner, x.entry.term),
         NEW A \in SUBSET Node, Spread(x, A), Alive(A, x.entry.term)
  PROVE  Spread(x, A)'
<1>1. PICK k : LogMove(k)
  BY DEF CommitStep
<1>2. /\ DiskGrows /\ elected \subseteq elected' /\ CandidateMove /\ GrantMove /\ LeaderMove
      /\ LogsHave(x) /\ LeadersHave(x)
  BY DEF CommitStep, Spread
<1>3. LogsHave(x)'
  BY <1>1, <1>2, LogsHaveStays
<1>4. LeadersHave(x)'
  BY <1>2, LeadersHaveStays
<1>5. ASSUME NEW T \in Nat, T > x.entry.term, Unwon(T)'
      PROVE  Chosen(x, T)' \/ \A q \in A : Shut(q, x, T)'
  <2>1. Unwon(T)
    BY <1>2, <1>5 DEF Unwon
  <2>2. CASE Loses(k, x, T)
    BY <1>1, <1>2, <2>1, <2>2, LostChosen
  <2>3. CASE ~Loses(k, x, T)
    <3>1. ASSUME NEW q \in Node, Shut(q, x, T) PROVE Shut(q, x, T)'
      <4>1. ~Loses(q, x, T)
        BY <1>1, <2>3 DEF Loses, LogMove
      <4> QED BY <1>1, <1>2, <3>1, <4>1, ShutStays
    <3>2. CASE Chosen(x, T)
      BY <3>1, <3>2 DEF Chosen, Majorities
    <3>3. CASE \A q \in A : Shut(q, x, T)
      BY <3>1, <3>3
    <3> QED BY <1>5, <2>1, <3>2, <3>3 DEF Spread
  <2> QED BY <2>2, <2>3
<1> QED BY <1>3, <1>4, <1>5 DEF Spread

LEMMA MajorityAlive ==
  ASSUME NEW A \in Majorities, NEW t
  PROVE  Alive(A, t)
BY MajoritiesMeet DEF Alive

LEMMA FixedStays ==
  ASSUME Known, Known', Sorted, CommitFixed, CommitStep, NEW x, Fixed(x)
  PROVE  Fixed(x)'
<1>1. x \in Points /\ Won(x.entry.owner, x.entry.term)
  BY DEF Fixed
<1>2. PICK A \in Majorities : Spread(x, A)
  BY DEF Fixed
<1>3. Spread(x, A)'
  BY <1>1, <1>2, MajorityAlive, SpreadStays DEF Majorities
<1>4. Won(x.entry.owner, x.entry.term)'
  BY <1>1, WonStays DEF CommitStep, Won
<1> QED BY <1>1, <1>2, <1>3, <1>4 DEF Fixed

(* What a majority has acknowledged is safe.                                *)
LEMMA AckedFixed ==
  ASSUME Known, OpenSpread, NEW n \in Node, NEW j \in Nat, Open(n, j), Ackers(n, j) \in Majorities
  PROVE  /\ Fixed(PointAt(logs[n], j)) /\ PointAt(logs[n], j).index = j
         /\ PointAt(logs[n], j).entry.term = currentTerm[n]
<1> DEFINE x == PointAt(logs[n], j)
<1>1. /\ x \in Points /\ Holds(logs[n], x) /\ x.index = j /\ x.entry.term = currentTerm[n]
  BY KnownNode, PointAtType DEF Open
<1>2. Won(x.entry.owner, x.entry.term)
  BY <1>1, PointKnown
<1>3. Spread(x, Ackers(n, j))
  BY MajorityAlive DEF OpenSpread
<1> QED BY <1>1, <1>2, <1>3 DEF Fixed

LEMMA CommitFixedStays ==
  ASSUME Known, Known', Sorted, CommitFixed, OpenSpread, CommitStep
  PROVE  CommitFixed'
<1> SUFFICES ASSUME NEW n \in Node, commitIndex'[n] >= 0
             PROVE  \E x : /\ Fixed(x)' /\ x.index >= commitIndex'[n]
                           /\ x.entry.term <= currentTerm'[n]
  BY DEF CommitFixed
<1>t. commitIndex'[n] \in Int /\ currentTerm'[n] \in Nat
  BY DEF Known, TypeOK, LogTypeOK, CoreTypeOK, Index
<1>1. ASSUME NEW l \in Node, commitIndex'[n] <= commitIndex[l], currentTerm'[n] >= currentTerm[l]
      PROVE  \E x : /\ Fixed(x)' /\ x.index >= commitIndex'[n]
                    /\ x.entry.term <= currentTerm'[n]
  <2>0. commitIndex[l] \in Int /\ commitIndex[l] >= 0 /\ currentTerm[l] \in Nat
    BY <1>t, <1>1, KnownNode
  <2>1. PICK x : Fixed(x) /\ x.index >= commitIndex[l] /\ x.entry.term <= currentTerm[l]
    BY <2>0 DEF CommitFixed
  <2>2. x.index \in Nat /\ x.entry.term \in Nat
    BY <2>1, PointTypes DEF Fixed
  <2>3. Fixed(x)'
    BY <2>1, FixedStays
  <2> QED BY <1>t, <1>1, <2>0, <2>1, <2>2, <2>3
<1>2. ASSUME currentTerm'[n] = currentTerm[n], Commits(n, commitIndex'[n])
      PROVE  \E x : /\ Fixed(x)' /\ x.index >= commitIndex'[n]
                    /\ x.entry.term <= currentTerm'[n]
  <2>1. PICK j \in Nat : j = commitIndex'[n]
    BY <1>t
  <2>2. Open(n, j) /\ Ackers(n, j) \in Majorities
    BY <1>2, <2>1 DEF Commits
  <2>3. /\ Fixed(PointAt(logs[n], j)) /\ PointAt(logs[n], j).index = j
        /\ PointAt(logs[n], j).entry.term = currentTerm[n]
    BY <2>2, AckedFixed
  <2>4. PICK x : x = PointAt(logs[n], j)
    OBVIOUS
  <2>5. Fixed(x)'
    BY <2>3, <2>4, FixedStays
  <2> QED BY <1>t, <1>2, <2>1, <2>3, <2>4, <2>5
<1> QED BY <1>1, <1>2 DEF CommitStep, CommitMove

LEMMA AppliedFixedStays ==
  ASSUME Known, Known', Sorted, CommitFixed, CommitFixed', AppliedFixed, CommitStep
  PROVE  AppliedFixed'
<1> SUFFICES ASSUME NEW a \in applied'
             PROVE  \E x : /\ Fixed(x)' /\ a.index <= x.index
                           /\ \A n \in Node : Holds(logs'[n], x) => Holds(logs'[n], a)
  BY DEF AppliedFixed
<1>t. a \in Points /\ a.index \in Nat
  BY DEF Known, TypeOK, LogTypeOK, Points
<1>1. CASE a \in applied
  <2>1. PICK x : /\ Fixed(x) /\ a.index <= x.index
                 /\ \A n \in Node : Holds(logs[n], x) => Holds(logs[n], a)
    BY <1>1 DEF AppliedFixed
  <2>2. Fixed(x)' /\ x \in Points /\ x.index \in Nat /\ LeadersHave(x)
    BY <2>1, FixedStays, PointTypes DEF Fixed, Spread
  <2>3. PICK k : LogMove(k)
    BY DEF CommitStep
  <2>4. ASSUME NEW n \in Node, Holds(logs'[n], x) PROVE Holds(logs'[n], a)
    <3>1. /\ logs'[n] \in Seq(Entries) /\ x.index \in 0 .. LastIndexOf(logs'[n])
          /\ logs'[n][x.index + 1] = x.entry
      <4>1. logs'[n] \in Seq(Entries)
        BY DEF Known, TypeOK, LogTypeOK
      <4> QED BY <2>2, <2>4, <4>1, HoldsIndex
    <3>2. PICK o \in Node : Extends(logs[o], logs'[n]) \/ (o = n /\ Grows(n))
      <4>1. logs[n] \in Seq(Entries)
        BY KnownNode
      <4> QED BY <2>3, <4>1, SameExtends DEF LogMove, Takes, Cuts, Follows
    <3>3. CASE Extends(logs[o], logs'[n])
      <4>1. logs[o] \in Seq(Entries) /\ LastIndexOf(logs[o]) \in Int /\ LastIndexOf(logs'[n]) \in Int
        BY <3>1, KnownNode, LastOf
      <4>2. Holds(logs[o], x)
        BY <3>1, <3>3, <4>1 DEF Extends, Holds
      <4>3. Holds(logs[o], a)
        BY <2>1, <4>2
      <4>4. a.index \in 0 .. LastIndexOf(logs'[n]) /\ logs[o][a.index + 1] = a.entry
        BY <1>t, <2>1, <2>2, <3>1, <4>1, <4>3 DEF Holds
      <4> QED BY <3>3, <4>1, <4>4 DEF Extends, Holds
    <3>4. CASE o = n /\ Grows(n)
      <4>1. Holds(logs[n], x)
        <5>1. /\ LastIndexOf(logs'[n]) = LastIndexOf(logs[n]) + 1 /\ LastIndexOf(logs[n]) \in Int
              /\ \A i \in 0 .. LastIndexOf(logs[n]) : logs'[n][i + 1] = logs[n][i + 1]
              /\ logs'[n][LastIndexOf(logs[n]) + 2] = Entry(n)
          BY <3>4, GrowsLog, KnownNode
        <5>2. CASE x.index <= LastIndexOf(logs[n])
          BY <2>2, <3>1, <5>1, <5>2 DEF Holds
        <5>3. CASE x.index > LastIndexOf(logs[n])
          <6>1. x.index + 1 = LastIndexOf(logs[n]) + 2
            BY <2>2, <3>1, <5>1, <5>3
          <6>2. x.entry.term = currentTerm[n]
            BY <3>1, <5>1, <6>1 DEF Entry
          <6> QED BY <2>2, <3>4, <6>2, KnownNode DEF LeadersHave, Grows
        <5> QED BY <2>2, <5>1, <5>2, <5>3
      <4>2. Holds(logs[n], a)
        BY <2>1, <4>1
      <4>3. a.index \in 0 .. LastIndexOf(logs[n]) /\ logs[n][a.index + 1] = a.entry
        BY <1>t, <4>2, KnownNode, HoldsIndex
      <4> QED BY <3>4, <4>3, GrowsLog, KnownNode DEF Holds
    <3> QED BY <3>2, <3>3, <3>4
  <2> QED BY <2>1, <2>2, <2>4
<1>2. CASE \E l \in Node : state'[l] = "Leader" /\ Holds(logs'[l], a) /\ a.index <= commitIndex'[l]
  <2>1. PICK l \in Node : state'[l] = "Leader" /\ Holds(logs'[l], a) /\ a.index <= commitIndex'[l]
    BY <1>2
  <2>2. commitIndex'[l] \in Int /\ commitIndex'[l] >= 0 /\ currentTerm'[l] \in Nat
    BY <1>t, <2>1 DEF Known, TypeOK, LogTypeOK, CoreTypeOK, Index
  <2>3. PICK x : Fixed(x)' /\ x.index >= commitIndex'[l] /\ x.entry.term <= currentTerm'[l]
    BY <2>2 DEF CommitFixed
  <2>4. x \in Points /\ x.index \in Nat /\ x.entry.term \in Nat /\ LeadersHave(x)'
    BY <2>3, PointTypes DEF Fixed, Spread
  <2>5. x.index >= a.index
    BY <1>t, <2>1, <2>2, <2>3, <2>4
  <2>6. Holds(logs'[l], x)
    BY <2>1, <2>2, <2>3, <2>4 DEF LeadersHave
  <2> QED BY <1>t, <2>1, <2>3, <2>4, <2>5, <2>6, ShareNext DEF Share
<1> QED BY <1>1, <1>2 DEF CommitStep, ApplyMove
-----------------------------------------------------------------------------
(* KnownNode, KnownEntry and KnownGrant, for the state after a step.          *)
Facts ==
  /\ \A n \in Node :
       /\ logs[n] \in Seq(Entries) /\ LastIndexOf(logs[n]) \in Int /\ LastIndexOf(logs[n]) >= -1
       /\ currentTerm[n] \in Nat /\ disk[n].term \in Nat /\ disk[n].term <= currentTerm[n]
       /\ state[n] = "Leader" => disk[n].term = currentTerm[n] /\ Won(n, currentTerm[n])
       /\ commitIndex[n] \in Int /\ commitIndex[n] >= -1
  /\ \A n \in Node : \A i \in 0 .. LastIndexOf(logs[n]) :
       /\ TermAt(logs[n], i) \in Nat /\ Won(logs[n][i + 1].owner, TermAt(logs[n], i))
       /\ \A l \in Node : state[l] = "Leader" /\ TermAt(logs[n], i) = currentTerm[l] =>
            i <= LastIndexOf(logs[l]) /\ logs[l][i + 1] = logs[n][i + 1]
  /\ \A g \in grants : /\ g.voter \in Node /\ g.cand \in Node /\ g.term \in Nat
                       /\ g.term <= disk[g.voter].term
  /\ \A n, o \in Node : state[n] = "Leader" /\ Won(o, currentTerm[n]) => o = n

LEMMA KnownFacts == Known => Facts
<1> SUFFICES ASSUME Known PROVE Facts
  OBVIOUS
<1>1. ASSUME NEW n \in Node, NEW o \in Node, state[n] = "Leader", Won(o, currentTerm[n])
      PROVE  o = n
  <2>1. Won(n, currentTerm[n])
    BY <1>1, KnownNode
  <2> QED BY <1>1, <2>1 DEF Won, WonIn, Known, ElectionSafety
<1>2. ASSUME NEW n \in Node, NEW i \in 0 .. LastIndexOf(logs[n]) PROVE TermAt(logs[n], i) \in Nat
  BY KnownNode, LastOf
<1> QED BY <1>1, <1>2, KnownNode, KnownEntry, KnownGrant DEF Facts

LEMMA FactsNext == (Known => Facts)'
BY KnownFacts, PTL

LEMMA LeadsExtends ==
  ASSUME Known, NEW n \in Node, Leads(n)
  PROVE  Extends(logs'[n], logs[n])
BY KnownNode, GrowsLog, SameExtends DEF Leads

LEMMA KnowsStays ==
  ASSUME Known, Known', DiskGrows, NEW k, LogMove(k), NEW n \in Node, Leads(n),
         currentTerm'[n] = currentTerm[n], NEW p \in Peers(n), NEW i \in Index,
         i > commitIndex[n], Knows(p, n, i)
  PROVE  Knows(p, n, i)'
<1>1. /\ p \in Node /\ p # n /\ n \in Node /\ state[n] = "Leader" /\ i \in Int
      /\ currentTerm[n] \in Nat /\ disk[p].term \in Nat /\ disk'[p].term \in Nat
      /\ disk'[p].term >= disk[p].term /\ disk[p].term >= currentTerm[n]
      /\ commitIndex[n] \in Int
  <2>1. p \in Node /\ p # n /\ state[n] = "Leader"
    BY DEF Peers, Leads
  <2>2. disk'[p].term \in Nat
    BY <2>1, FactsNext DEF Facts
  <2> QED BY <2>1, <2>2, KnownNode DEF DiskGrows, Knows, Index
<1>2. disk'[p].term >= currentTerm'[n]
  BY <1>1
<1>3. ASSUME disk'[p].term = currentTerm'[n]
      PROVE  SameUpTo(logs'[p], logs'[n], i)
  <2>1. disk[p].term = currentTerm[n] /\ disk'[p].term = currentTerm[n]
    BY <1>1, <1>3
  <2>2. /\ i <= LastIndexOf(logs[p]) /\ i <= LastIndexOf(logs[n])
        /\ \A h \in 0 .. i : logs[p][h + 1] = logs[n][h + 1]
    BY <2>1 DEF Knows, SameUpTo
  <2>3. Extends(logs'[n], logs[n]) /\ LastIndexOf(logs[n]) \in Int /\ LastIndexOf(logs'[n]) \in Int
        /\ LastIndexOf(logs[p]) \in Int /\ LastIndexOf(logs'[p]) \in Int
    BY <1>1, LeadsExtends, KnownNode, FactsNext DEF Facts
  <2>4. i <= LastIndexOf(logs'[n]) /\ \A h \in 0 .. i : logs'[n][h + 1] = logs[n][h + 1]
    BY <1>1, <2>2, <2>3 DEF Extends
  <2>5. \A l : Follows(p, l) => l = n
    BY <1>1, <2>1, KnownNode, KnownFacts DEF Follows, Facts
  <2>6. CASE logs'[p] = logs[p]
    BY <2>2, <2>4, <2>6 DEF SameUpTo
  <2>7. CASE Grows(p)
    BY <1>1, <2>1, <2>7, KnownNode, KnownFacts DEF Grows, Facts
  <2>8. CASE Takes(p, n)
    <3>1. \A h \in 0 .. i : h \in 0 .. LastIndexOf(logs[p]) /\ h <= LastIndexOf(logs[n])
      BY <1>1, <2>2, <2>3
    <3>2. \A h \in 0 .. i : h <= LastIndexOf(logs'[p]) /\ logs'[p][h + 1] = logs[p][h + 1]
      BY <2>2, <2>8, <3>1 DEF Takes, Keeps
    <3>3. i <= LastIndexOf(logs'[p])
      <4>1. CASE i \in 0 .. i
        BY <3>2, <4>1
      <4>2. CASE i \notin 0 .. i
        <5>1. i = -1
          BY <4>2 DEF Index
        <5> QED BY <1>1, <5>1, FactsNext DEF Facts
      <4> QED BY <4>1, <4>2
    <3> QED BY <2>2, <2>4, <3>2, <3>3 DEF SameUpTo
  <2>9. CASE Cuts(p, n)
    <3>1. PICK c \in Nat : c <= commitIndex[n] /\ logs[p][c + 1] # logs[n][c + 1]
      BY <2>9 DEF Cuts
    <3>2. c \in 0 .. i
      BY <1>1, <3>1
    <3> QED BY <2>2, <3>1, <3>2
  <2>10. p # k => logs'[p] = logs[p]
    BY <1>1 DEF LogMove
  <2> QED BY <2>5, <2>6, <2>7, <2>8, <2>9, <2>10 DEF LogMove, Takes, Cuts
<1> QED BY <1>2, <1>3 DEF Knows

LEMMA ClaimsTrueStays ==
  ASSUME Known, Known', Sorted, CommitFixed, ClaimsTrue, CommitStep
  PROVE  ClaimsTrue'
<1> SUFFICES ASSUME NEW n \in Node, state'[n] = "Leader", NEW p \in Peers(n),
                    NEW i \in Index, Claimed(n, p, i)'
             PROVE  ClaimTrue(n, p, i)'
  BY DEF ClaimsTrue
<1>1. PICK k : LogMove(k)
  BY DEF CommitStep
<1>2. DiskGrows /\ currentTerm'[n] = currentTerm[n] /\ (Leads(n) \/ Wins(n))
  BY DEF CommitStep, LeaderMove
<1>3. /\ p \in Node /\ i \in Int /\ i >= -1
      /\ LastIndexOf(logs[n]) \in Int /\ LastIndexOf(logs'[n]) \in Int
      /\ LastIndexOf(logs'[n]) >= -1
      /\ commitIndex[n] \in Int /\ commitIndex'[n] \in Int /\ commitIndex'[n] >= -1
  BY KnownNode, FactsNext DEF Facts, Peers, Index
<1>4. CASE Wins(n)
  <2>1. commitIndex'[n] = commitIndex[n] /\ (i = -1 \/ i = commitIndex[n])
    BY <1>4 DEF Wins
  <2>2. ~(i > commitIndex'[n])
    BY <1>3, <2>1
  <2>3. i <= LastIndexOf(logs'[n])
    <3>1. CASE i = -1
      BY <1>3, <3>1
    <3>2. CASE i # -1
      <4>1. commitIndex[n] >= 0 /\ i = commitIndex[n]
        BY <1>3, <2>1, <3>2
      <4>2. PICK x : Fixed(x) /\ x.index >= commitIndex[n] /\ x.entry.term <= currentTerm[n]
        BY <4>1 DEF CommitFixed
      <4>3. Fixed(x)'
        BY <4>2, FixedStays
      <4>4. Holds(logs'[n], x)
        BY <1>2, <4>2, <4>3, KnownNode, PointTypes DEF Fixed, Spread, LeadersHave
      <4>5. x.index \in Nat
        BY <4>2, PointTypes DEF Fixed
      <4> QED BY <1>3, <4>1, <4>2, <4>4, <4>5 DEF Holds
    <3> QED BY <3>1, <3>2
  <2> QED BY <2>2, <2>3 DEF ClaimTrue
<1>5. CASE Leads(n)
  <2>1. commitIndex'[n] >= commitIndex[n] /\ state[n] = "Leader" /\ Extends(logs'[n], logs[n])
    BY <1>5, LeadsExtends DEF Leads
  <2>2. \/ \E i0 \in Index : Claimed(n, p, i0) /\ i <= i0
        \/ Takes(p, n) /\ i <= LastIndexOf(logs'[p])
    BY <2>1 DEF CommitStep, ClaimMove
  <2>3. ASSUME NEW i0 \in Index, Claimed(n, p, i0), i <= i0
        PROVE  ClaimTrue(n, p, i)'
    <3>1. i0 \in Int /\ i0 <= LastIndexOf(logs[n]) /\ (i0 > commitIndex[n] => Knows(p, n, i0))
      BY <2>1, <2>3 DEF ClaimsTrue, ClaimTrue, Index
    <3>2. i <= LastIndexOf(logs'[n])
      BY <1>3, <2>1, <2>3, <3>1 DEF Extends
    <3>3. ASSUME i > commitIndex'[n] PROVE Knows(p, n, i)'
      <4>1. i0 > commitIndex[n]
        BY <1>3, <2>1, <2>3, <3>1, <3>3
      <4>2. Knows(p, n, i0)'
        BY <1>1, <1>2, <1>5, <2>3, <3>1, <4>1, KnowsStays
      <4>3. LastIndexOf(logs'[p]) \in Int /\ \A h \in 0 .. i : h \in 0 .. i0
        BY <1>3, <2>3, <3>1, FactsNext DEF Facts
      <4>4. SameUpTo(logs'[p], logs'[n], i0) => SameUpTo(logs'[p], logs'[n], i)
        BY <1>3, <2>3, <3>1, <4>3 DEF SameUpTo
      <4> QED BY <4>2, <4>4 DEF Knows
    <3> QED BY <3>2, <3>3 DEF ClaimTrue
  <2>4. ASSUME Takes(p, n), i <= LastIndexOf(logs'[p])
        PROVE  ClaimTrue(n, p, i)'
    <3>1. Extends(logs[n], logs'[p]) /\ disk'[p].term = currentTerm'[n]
      BY <1>2, <2>4 DEF Takes, Follows
    <3>2. LastIndexOf(logs'[p]) \in Int /\ currentTerm'[n] \in Nat
      BY <1>3, FactsNext DEF Facts
    <3>3. i <= LastIndexOf(logs[n]) /\ i <= LastIndexOf(logs'[n])
      BY <1>3, <2>1, <2>4, <3>1, <3>2 DEF Extends
    <3>4. \A h \in 0 .. i : h \in 0 .. LastIndexOf(logs'[p]) /\ h \in 0 .. LastIndexOf(logs[n])
      BY <1>3, <2>4, <3>2, <3>3
    <3>5. SameUpTo(logs'[p], logs'[n], i)
      BY <2>1, <2>4, <3>1, <3>3, <3>4 DEF Extends, SameUpTo
    <3> QED BY <3>1, <3>2, <3>3, <3>5 DEF ClaimTrue, Knows
  <2> QED BY <2>2, <2>3, <2>4
<1> QED BY <1>2, <1>4, <1>5
-----------------------------------------------------------------------------
(* An entry that may still be committed stays safe, whoever else has          *)
(* acknowledged it since.                                                   *)
LEMMA OldOpenStays ==
  ASSUME Known, Known', Sorted, CommitFixed, OpenSpread, CommitStep,
         NEW n \in Node, Leads(n), state'[n] = "Leader", currentTerm'[n] = currentTerm[n],
         NEW j \in Nat, j <= LastIndexOf(logs[n]), Open(n, j)',
         Alive(Ackers(n, j), currentTerm[n])'
  PROVE  Spread(PointAt(logs[n], j), Ackers(n, j))'
<1>1. /\ LastIndexOf(logs[n]) \in Int /\ j \in 0 .. LastIndexOf(logs[n])
      /\ currentTerm[n] \in Nat /\ commitIndex[n] \in Int /\ commitIndex'[n] \in Int
      /\ logs[n] \in Seq(Entries) /\ Extends(logs'[n], logs[n]) /\ state[n] = "Leader"
      /\ commitIndex'[n] >= commitIndex[n] /\ DiskGrows
  BY KnownNode, FactsNext, LeadsExtends DEF Facts, Leads, CommitStep
<1>2. logs'[n][j + 1] = logs[n][j + 1]
  BY <1>1 DEF Extends
<1>3. PICK x : x = PointAt(logs[n], j)
  OBVIOUS
<1>4. PointAt(logs'[n], j) = x
  BY <1>2, <1>3 DEF PointAt
<1>5. Open(n, j)
  BY <1>1, <1>2 DEF Open, TermAt
<1>6. /\ x \in Points /\ Holds(logs[n], x) /\ x.index = j /\ x.entry.term = currentTerm[n]
  BY <1>1, <1>3, <1>5, PointAtType DEF Open
<1>7. Won(x.entry.owner, x.entry.term)
  BY <1>6, PointKnown
<1>8. PICK A \in SUBSET Node : A = Ackers(n, j)
  BY DEF Ackers, Peers
<1>9. ASSUME NEW p \in Ackers(n, j)'
      PROVE  p \in Node /\ (p \in A \/ (Takes(p, n) /\ Holds(logs'[p], x)))
  <2>1. CASE p = n
    BY <1>8, <2>1 DEF Ackers
  <2>2. CASE p # n
    <3>1. p \in Peers(n) /\ \E i \in Index : Claimed(n, p, i)' /\ i >= j
      BY <2>2 DEF Ackers
    <3>2. PICK i \in Index : Claimed(n, p, i)' /\ i >= j
      BY <3>1
    <3>3. \/ \E i0 \in Index : Claimed(n, p, i0) /\ i <= i0
          \/ Takes(p, n) /\ i <= LastIndexOf(logs'[p])
      BY <1>1, <3>1, <3>2 DEF CommitStep, ClaimMove
    <3>4. CASE \E i0 \in Index : Claimed(n, p, i0) /\ i <= i0
      <4>1. PICK i0 \in Index : Claimed(n, p, i0) /\ i <= i0
        BY <3>4
      <4>2. i0 >= j
        BY <3>2, <4>1 DEF Index
      <4> QED BY <1>8, <3>1, <4>1, <4>2 DEF Ackers, Peers
    <3>5. CASE Takes(p, n) /\ i <= LastIndexOf(logs'[p])
      <4>1. p \in Node /\ LastIndexOf(logs'[p]) \in Int
        BY <3>1, FactsNext DEF Facts, Peers
      <4>2. j \in 0 .. LastIndexOf(logs'[p])
        BY <3>2, <3>5, <4>1 DEF Index
      <4>3. logs'[p][j + 1] = logs[n][j + 1]
        BY <3>5, <4>2 DEF Takes, Extends
      <4>4. x.entry = logs[n][j + 1]
        BY <1>3 DEF PointAt
      <4>5. j <= LastIndexOf(logs'[p])
        BY <3>2, <3>5, <4>1 DEF Index
      <4> QED BY <1>6, <3>5, <4>1, <4>3, <4>4, <4>5 DEF Holds
    <3> QED BY <3>3, <3>4, <3>5
  <2> QED BY <2>1, <2>2
<1>10. Alive(A, x.entry.term)
  <2>1. SUFFICES ASSUME NEW M \in Majorities
                 PROVE  \E p \in M : p \in A \/ disk[p].term <= x.entry.term
    BY DEF Alive
  <2>2. PICK p \in M : p \in Ackers(n, j)' \/ disk'[p].term <= currentTerm'[n]
    BY DEF Alive
  <2>3. /\ p \in Node /\ disk[p].term \in Nat /\ disk'[p].term \in Nat
        /\ disk'[p].term >= disk[p].term
    <3>1. p \in Node
      BY <2>2 DEF Majorities
    <3> QED BY <1>1, <3>1, KnownNode, FactsNext DEF DiskGrows, Facts
  <2>4. CASE disk'[p].term <= currentTerm'[n]
    BY <1>1, <1>6, <2>2, <2>3, <2>4
  <2>5. CASE p \in Ackers(n, j)'
    <3>1. Takes(p, n) => disk'[p].term = currentTerm[n]
      BY DEF Takes, Follows
    <3> QED BY <1>1, <1>6, <1>9, <2>2, <2>3, <2>5, <3>1
  <2> QED BY <2>2, <2>4, <2>5
<1>11. Spread(x, A)
  BY <1>3, <1>5, <1>6, <1>8, <1>10 DEF OpenSpread
<1>12. Spread(x, A)'
  BY <1>6, <1>7, <1>10, <1>11, SpreadStays
<1>13. ASSUME NEW T \in Nat, T > x.entry.term, Unwon(T)'
       PROVE  Chosen(x, T)' \/ \A q \in Ackers(n, j)' : Shut(q, x, T)'
  <2>1. CASE Chosen(x, T)'
    BY <2>1
  <2>2. CASE \A q \in A : Shut(q, x, T)'
    <3>1. ASSUME NEW q \in Ackers(n, j)' PROVE Shut(q, x, T)'
      <4>1. CASE q \in A
        BY <2>2, <4>1
      <4>2. CASE Takes(q, n) /\ Holds(logs'[q], x)
        <5>1. disk'[q].term = currentTerm[n]
          BY <4>2 DEF Takes, Follows
        <5>2. ASSUME NEW g \in grants', g.voter = q PROVE g.term # T
          <6>1. g.term \in Nat /\ g.term <= disk'[q].term
            BY <5>2, FactsNext DEF Facts
          <6> QED BY <1>1, <1>6, <1>13, <5>1, <6>1
        <5> QED BY <4>2, <5>2 DEF Shut
      <4> QED BY <1>9, <4>1, <4>2
    <3> QED BY <3>1
  <2> QED BY <1>12, <1>13, <2>1, <2>2 DEF Spread
<1> QED BY <1>4, <1>12, <1>13 DEF Spread

(* So is one that a leader has just logged: if it may be committed at all,     *)
(* nobody is past the leader's term.                                        *)
LEMMA NewOpenSpread ==
  ASSUME Known, Known', ClaimsTrue, CommitStep,
         NEW n \in Node, Leads(n), state'[n] = "Leader", currentTerm'[n] = currentTerm[n],
         NEW j \in Nat, j > LastIndexOf(logs[n]), Open(n, j)',
         Alive(Ackers(n, j), currentTerm[n])'
  PROVE  Spread(PointAt(logs[n], j), Ackers(n, j))'
<1>1. /\ LastIndexOf(logs[n]) \in Int /\ j \in 0 .. LastIndexOf(logs'[n])
      /\ LastIndexOf(logs'[n]) \in Int /\ logs'[n] \in Seq(Entries)
      /\ currentTerm'[n] \in Nat /\ state[n] = "Leader" /\ disk'[n].term = currentTerm'[n]
      /\ TermAt(logs'[n], j) = currentTerm'[n]
  BY KnownNode, FactsNext DEF Facts, Open, Leads
<1>2. LastIndexOf(logs'[n]) = LastIndexOf(logs[n]) + 1 /\ j = LastIndexOf(logs'[n])
  <2>1. Grows(n)
    BY <1>1 DEF Leads
  <2>2. LastIndexOf(logs'[n]) = LastIndexOf(logs[n]) + 1
    BY <2>1, GrowsLog
  <2> QED BY <1>1, <2>2
<1>3. PICK x : x = PointAt(logs'[n], j)
  OBVIOUS
<1>4. /\ x \in Points /\ Holds(logs'[n], x) /\ x.index = j /\ x.entry = logs'[n][j + 1]
      /\ x.entry.term = currentTerm'[n]
  BY <1>1, <1>3, PointAtType
<1>5. \A p \in Ackers(n, j)' : p = n
  <2>1. SUFFICES ASSUME NEW p \in Peers(n), NEW i \in Index, Claimed(n, p, i)', i >= j
                 PROVE  FALSE
    BY DEF Ackers
  <2>2. \/ \E i0 \in Index : Claimed(n, p, i0) /\ i <= i0
        \/ Takes(p, n) /\ i <= LastIndexOf(logs'[p])
    BY <1>1, <2>1 DEF CommitStep, ClaimMove
  <2>3. CASE \E i0 \in Index : Claimed(n, p, i0) /\ i <= i0
    <3>1. PICK i0 \in Index : Claimed(n, p, i0) /\ i <= i0
      BY <2>3
    <3>2. i0 <= LastIndexOf(logs[n])
      BY <1>1, <3>1 DEF ClaimsTrue, ClaimTrue
    <3> QED BY <1>1, <2>1, <3>1, <3>2 DEF Index
  <2>4. CASE Takes(p, n) /\ i <= LastIndexOf(logs'[p])
    <3>1. LastIndexOf(logs'[p]) <= LastIndexOf(logs[n]) /\ LastIndexOf(logs'[p]) \in Int
      BY <2>4, FactsNext DEF Takes, Extends, Facts, Peers
    <3> QED BY <1>1, <2>1, <2>4, <3>1 DEF Index
  <2> QED BY <2>2, <2>3, <2>4
<1>6. ASSUME NEW o, NEW T, Won(o, T)' PROVE ~(T > currentTerm'[n])
  <2>1. PICK e \in elected' : e.term = T
    BY <1>6 DEF Won, WonIn
  <2>2. Voters(e) \in Majorities /\ \A q \in Voters(e) : q \in Node /\ disk'[q].term >= T
    BY <2>1, VotersNext DEF VotersPast
  <2>3. PICK p \in Voters(e) : p \in Ackers(n, j)' \/ disk'[p].term <= currentTerm'[n]
    BY <2>2 DEF Alive
  <2>4. p \in Node /\ disk'[p].term >= T /\ disk'[p].term <= currentTerm'[n]
    BY <1>1, <1>5, <2>2, <2>3
  <2>5. T \in Nat /\ disk'[p].term \in Nat
    BY <2>1, <2>4, FactsNext DEF Facts, Known, TypeOK, HistoryTypeOK
  <2> QED BY <1>1, <2>4, <2>5
<1>7. LogsHave(x)'
  <2>1. SUFFICES ASSUME NEW o \in Node, UpTo(logs'[o], x) PROVE Holds(logs'[o], x)
    BY DEF LogsHave
  <2>0. PICK la : la = LastIndexOf(logs'[o])
    OBVIOUS
  <2>2. /\ la \in Int /\ la \in 0 .. la /\ LastTermOf(logs'[o]) = TermAt(logs'[o], la)
        /\ TermAt(logs'[o], la) \in Nat
    <3>1. logs'[o] \in Seq(Entries) /\ logs'[o] # <<>> /\ la \in Int
      BY <2>0, <2>1, FactsNext DEF Facts, UpTo
    <3>2. la >= 0 /\ LastTermOf(logs'[o]) = TermAt(logs'[o], la)
      BY <2>0, <3>1, LastOf
    <3>3. la \in 0 .. la
      BY <3>1, <3>2
    <3> QED BY <2>0, <3>1, <3>2, <3>3, LastOf
  <2>3. /\ Won(logs[o][la + 1].owner, TermAt(logs[o], la))'
        /\ TermAt(logs'[o], la) = currentTerm'[n] =>
             la <= LastIndexOf(logs'[n]) /\ logs'[n][la + 1] = logs'[o][la + 1]
    BY <1>1, <2>0, <2>2, FactsNext DEF Facts
  <2>4. TermAt(logs'[o], la) = currentTerm'[n] /\ la >= j
    BY <2>0, <1>1, <1>4, <1>6, <2>1, <2>2, <2>3 DEF UpTo
  <2>5. la = j /\ logs'[o][la + 1] = x.entry
    BY <1>1, <1>2, <1>4, <2>2, <2>3, <2>4
  <2>6. x.index <= LastIndexOf(logs'[o])
    BY <1>4, <2>0, <2>2, <2>5
  <2> QED BY <1>4, <2>5, <2>6 DEF Holds
<1>8. LeadersHave(x)'
  <2>1. SUFFICES ASSUME NEW o \in Node, state'[o] = "Leader", currentTerm'[o] >= x.entry.term
                 PROVE  Holds(logs'[o], x)
    BY DEF LeadersHave
  <2>2. Won(o, currentTerm[o])' /\ currentTerm'[o] \in Nat /\ Won(n, currentTerm[n])'
    BY <2>1, FactsNext DEF Facts
  <2>3. currentTerm'[o] = currentTerm'[n]
    BY <1>1, <1>4, <1>6, <2>1, <2>2
  <2>4. o = n
    BY <2>1, <2>2, <2>3, FactsNext DEF Facts
  <2> QED BY <1>4, <2>4
<1>9. ASSUME NEW T \in Nat, T > x.entry.term, NEW q \in Ackers(n, j)' PROVE Shut(q, x, T)'
  <2>1. q = n
    BY <1>5
  <2>2. ASSUME NEW g \in grants', g.voter = q PROVE g.term # T
    <3>1. g.term \in Nat /\ g.term <= disk'[q].term
      BY <2>2, FactsNext DEF Facts
    <3> QED BY <1>1, <1>4, <1>9, <2>1, <3>1
  <2> QED BY <1>4, <2>1, <2>2 DEF Shut
<1> QED BY <1>3, <1>7, <1>8, <1>9 DEF Spread

LEMMA OpenSpreadStays ==
  ASSUME Known, Known', Sorted, CommitFixed, ClaimsTrue, OpenSpread, CommitStep
  PROVE  OpenSpread'
<1> SUFFICES ASSUME NEW n \in Node, NEW j \in Nat, Open(n, j)',
                    Alive(Ackers(n, j), currentTerm[n])'
             PROVE  Spread(PointAt(logs[n], j), Ackers(n, j))'
  BY DEF OpenSpread
<1>1. state'[n] = "Leader" /\ currentTerm'[n] = currentTerm[n] /\ (Leads(n) \/ Wins(n))
  BY DEF CommitStep, LeaderMove, Open
<1>2. CASE Leads(n)
  <2>1. LastIndexOf(logs[n]) \in Int
    BY KnownNode
  <2>2. CASE j <= LastIndexOf(logs[n])
    BY <1>1, <1>2, <2>2, OldOpenStays
  <2>3. CASE j > LastIndexOf(logs[n])
    BY <1>1, <1>2, <2>3, NewOpenSpread
  <2> QED BY <2>1, <2>2, <2>3
<1>3. CASE Wins(n)
  <2>1. logs' = logs /\ Unwon(currentTerm[n])
    BY <1>3, WinsKnown DEF Wins, CommitStep
  <2>2. j \in 0 .. LastIndexOf(logs[n]) /\ TermAt(logs[n], j) = currentTerm[n]
    BY <1>1, <2>1 DEF Open
  <2> QED BY <2>1, <2>2, KnownEntry DEF Unwon, Won, WonIn
<1> QED BY <1>1, <1>2, <1>3
-----------------------------------------------------------------------------
(* The actions.  First what each of them does to terms, votes and candidates. *)
Voting ==
  /\ DiskGrows /\ elected \subseteq elected' /\ CandidateMove /\ GrantMove
  /\ GrantsAsked' /\ VotesAsked' /\ TermsCounted'

VoteRequests(M) == {m \in M : m.type = "VoteRequest" /\ m.live}

LEMMA MessageCounted ==
  ASSUME Known, TermsCounted, NEW m \in msgs
  PROVE  /\ m.from \in Node /\ m.to \in Node /\ m.from # m.to /\ m.term \in Nat
         /\ m.term <= disk[m.from].term /\ m.term <= currentTerm[m.from]
         /\ m.term <= faults.election /\ faults.election \in Nat
<1>1. /\ m.from \in Node /\ m.to \in Node /\ m.from # m.to /\ m.term \in Nat
      /\ m.term <= disk[m.from].term /\ faults.election \in Nat
  BY HistoryTypes DEF Known, ElectionInv, PersistBeforeSend, PeersOnly, TypeOK, HistoryTypeOK
<1>2. /\ disk[m.from].term <= currentTerm[m.from] /\ disk[m.from].term \in Nat
      /\ currentTerm[m.from] \in Nat /\ currentTerm[m.from] <= faults.election
  BY <1>1, KnownNode DEF TermsCounted
<1> QED BY <1>1, <1>2

(* A handler of n that gives no vote and calls for none.                     *)
LEMMA CalmVoting ==
  ASSUME Known, Known', GrantsAsked, VotesAsked, TermsCounted, NEW n \in Node, BallotStep(n),
         grants' = grants, \A k \in Node \ {n} : logs'[k] = logs[k],
         state'[n] = "Candidate" => logs'[n] = logs[n],
         VoteRequests(msgs') \subseteq msgs,
         faults'.election = faults.election, currentTerm'[n] <= faults.election
  PROVE  Voting
<1>1. DiskGrows /\ elected \subseteq elected'
  BY BallotGrows DEF Known, BallotStep
<1>2. \A c \in Node : state'[c] = "Candidate" =>
        state[c] = "Candidate" /\ currentTerm'[c] = currentTerm[c] /\ logs'[c] = logs[c]
  BY DEF BallotStep
<1>3. CandidateMove /\ GrantMove
  BY <1>2 DEF CandidateMove, GrantMove
<1>4. GrantsAsked'
  <2> SUFFICES ASSUME NEW g \in grants PROVE g.term <= disk'[g.cand].term
    BY DEF GrantsAsked
  <2>1. g.cand \in Node /\ g.term \in Nat /\ disk[g.cand].term \in Nat /\ disk'[g.cand].term \in Nat
    BY KnownGrant, KnownNode, FactsNext DEF Facts
  <2> QED BY <1>1, <2>1 DEF GrantsAsked, DiskGrows
<1>5. VotesAsked'
  <2> SUFFICES ASSUME NEW m \in msgs', m.type = "VoteRequest", m.live,
                      m.term = currentTerm'[m.from], state'[m.from] = "Candidate"
               PROVE  /\ m.lastIndex = LastIndexOf(logs'[m.from])
                      /\ m.lastTerm = LastTermOf(logs'[m.from])
    BY DEF VotesAsked
  <2>1. m \in msgs /\ m.from \in Node
    BY MessageCounted DEF VoteRequests
  <2> QED BY <1>2, <2>1 DEF VotesAsked
<1>6. TermsCounted'
  BY DEF TermsCounted, BallotStep
<1> QED BY <1>1, <1>3, <1>4, <1>5, <1>6 DEF Voting

LEMMA ElectionVoting ==
  ASSUME Known, Known', GrantsAsked, VotesAsked, TermsCounted, NEW n \in Node, OnTimerElection(n)
  PROVE  Voting
<1>1. /\ state' = [state EXCEPT ![n] = "Candidate"]
      /\ currentTerm' = [currentTerm EXCEPT ![n] = @ + 1]
      /\ logs' = logs /\ Dump(n) /\ UNCHANGED <<grants, elected>>
      /\ msgs' = msgs \union {VoteRequest(n, p) : p \in sendEnabled[n]}
      /\ faults' = [faults EXCEPT !.election = @ + 1]
  BY DEF OnTimerElection, logVars
<1>2. /\ \A k \in Node \ {n} : /\ state'[k] = state[k] /\ currentTerm'[k] = currentTerm[k]
                               /\ disk'[k] = disk[k]
      /\ currentTerm'[n] = currentTerm[n] + 1 /\ currentTerm[n] \in Nat
  BY <1>1, DumpSaves, NameTypes, BallotTypes DEF Known
<1>3. disk[n].term <= currentTerm[n] /\ disk[n].term \in Nat /\ disk'[n].term \in Nat
  BY KnownNode, FactsNext DEF Facts
<1>4. disk'[n].term >= disk[n].term
  BY <1>1, <1>2, <1>3, DumpSaves DEF Known, SavedAs
<1>5. DiskGrows
  BY <1>2, <1>4, KnownNode DEF DiskGrows
<1>6. ASSUME NEW g \in grants, g.cand = n PROVE g.term < currentTerm'[n]
  <2>1. g.term \in Nat /\ g.term <= disk[n].term
    BY <1>6, KnownGrant DEF GrantsAsked
  <2> QED BY <1>2, <1>3, <2>1
<1>7. CandidateMove
  BY <1>1, <1>2, <1>6 DEF CandidateMove
<1>8. GrantMove
  BY <1>1 DEF GrantMove
<1>9. GrantsAsked'
  <2> SUFFICES ASSUME NEW g \in grants PROVE g.term <= disk'[g.cand].term
    BY <1>1 DEF GrantsAsked
  <2>1. g.cand \in Node /\ g.term \in Nat /\ disk[g.cand].term \in Nat /\ disk'[g.cand].term \in Nat
    BY KnownGrant, KnownNode, FactsNext DEF Facts
  <2> QED BY <1>5, <2>1 DEF GrantsAsked, DiskGrows
<1>10. VotesAsked'
  <2> SUFFICES ASSUME NEW m \in msgs', m.type = "VoteRequest", m.live,
                      m.term = currentTerm'[m.from], state'[m.from] = "Candidate"
               PROVE  /\ m.lastIndex = LastIndexOf(logs[m.from])
                      /\ m.lastTerm = LastTermOf(logs[m.from])
    BY <1>1 DEF VotesAsked
  <2>1. CASE m \in msgs
    <3>1. m.from \in Node /\ m.term \in Nat /\ m.term <= currentTerm[m.from]
      BY <2>1, MessageCounted
    <3>2. m.from # n
      BY <1>2, <3>1
    <3> QED BY <1>2, <2>1, <3>1, <3>2 DEF VotesAsked
  <2>2. CASE m \in {VoteRequest(n, p) : p \in sendEnabled[n]}
    BY <2>2 DEF VoteRequest
  <2> QED BY <1>1, <2>1, <2>2
<1>11. TermsCounted'
  <2>1. faults'.election = faults.election + 1 /\ faults.election \in Nat
    BY <1>1 DEF Known, TypeOK, HistoryTypeOK
  <2> SUFFICES ASSUME NEW k \in Node PROVE currentTerm'[k] <= faults'.election
    BY DEF TermsCounted
  <2>2. currentTerm[k] <= faults.election /\ currentTerm[k] \in Nat
    BY KnownNode DEF TermsCounted
  <2> QED BY <1>2, <2>1, <2>2
<1> QED BY <1>1, <1>5, <1>7, <1>8, <1>9, <1>10, <1>11 DEF Voting

LEMMA WinVoting ==
  ASSUME Known, Known', GrantsAsked, VotesAsked, TermsCounted, NEW n \in Node,
         UNCHANGED <<currentTerm, logs, disk, grants, faults>>, msgs' \subseteq msgs,
         BecomeLeader(n) \/ UNCHANGED <<state, elected>>
  PROVE  Voting
<1>1. DiskGrows /\ elected \subseteq elected'
  BY KnownNode DEF DiskGrows, BecomeLeader
<1>2. \A c \in Node : state'[c] = "Candidate" => state[c] = "Candidate"
  BY DEF BecomeLeader, Known, TypeOK, CoreTypeOK
<1>3. CandidateMove /\ GrantMove
  BY <1>2 DEF CandidateMove, GrantMove
<1>4. VotesAsked'
  BY <1>2, MessageCounted DEF VotesAsked
<1> QED BY <1>1, <1>3, <1>4 DEF Voting, GrantsAsked, TermsCounted

(* on_vote_request gives the vote for a log that is recent enough.           *)
LEMMA VoteRequestGrants ==
  ASSUME Known, Timely, GrantsAsked, VotesAsked, TermsCounted, NEW m \in msgs, OnVoteRequest(m),
         NEW g \in grants', g \notin grants
  PROVE  /\ g.voter = m.to /\ g.term = m.term /\ g.cand = m.from /\ logs' = logs
         /\ disk[g.voter].term <= g.term
         /\ Runs(g.cand, g.term) => Recent(logs[g.cand], logs[g.voter])
<1> DEFINE n == m.to
           newer == m.term > currentTerm[n]
           vote  == VoteBefore(m)
           last  == IF newer THEN 0 ELSE lastSeq[n]
           ask   == /\ m.term >= currentTerm[n]
                    /\ vote \in {None, m.from}
                    /\ UpToDate(m, logs[n])
           valid == ValidSeq(m, last)
           grant == ask /\ valid
<1>1. /\ grants' = grants \union
           (IF grant THEN {[voter |-> n, term |-> m.term, cand |-> m.from]} ELSE {})
      /\ logs' = logs /\ m.type = "VoteRequest" /\ Deliverable(m)
  BY Zenon DEF OnVoteRequest, logVars
<1>2. grant /\ g = [voter |-> n, term |-> m.term, cand |-> m.from]
  <2>1. g \in IF grant THEN {[voter |-> n, term |-> m.term, cand |-> m.from]} ELSE {}
    BY <1>1
  <2> HIDE DEF grant
  <2> QED BY <2>1
<1>3. m.term >= currentTerm[n] /\ UpToDate(m, logs[n])
  BY <1>2
<1> HIDE DEF grant
<1>4. g.voter = n /\ g.term = m.term /\ g.cand = m.from
  BY <1>2
<1>5. disk[n].term <= m.term
  <2>1. /\ n \in Node /\ m.term \in Nat /\ disk[n].term \in Nat /\ currentTerm[n] \in Nat
        /\ disk[n].term <= currentTerm[n]
    BY MessageCounted, KnownNode
  <2> QED BY <1>3, <2>1
<1>6. m.live
  BY <1>1 DEF Deliverable, IsRequest
<1>7. ASSUME Runs(m.from, m.term) PROVE Recent(logs[m.from], logs[n])
  <2>1. m.lastIndex = LastIndexOf(logs[m.from]) /\ m.lastTerm = LastTermOf(logs[m.from])
    BY <1>1, <1>6, <1>7 DEF VotesAsked, Runs
  <2> QED BY <1>3, <2>1 DEF UpToDate, Recent
<1> QED BY <1>1, <1>4, <1>5, <1>7

LEMMA VoteRequestVoting ==
  ASSUME Known, Known', Timely, GrantsAsked, VotesAsked, TermsCounted, NEW m \in msgs,
         OnVoteRequest(m)
  PROVE  Voting
<1> DEFINE n == m.to
<1>1. /\ n \in Node /\ m.term \in Nat /\ currentTerm[n] \in Nat /\ BallotStep(n)
      /\ m.term <= disk[m.from].term /\ m.term <= faults.election /\ m.from \in Node
  BY MessageCounted, KnownNode, VoteRequestBallot DEF Known
<1>2. /\ logs' = logs /\ faults' = faults
      /\ currentTerm' = [currentTerm EXCEPT ![n] = GreaterOf(m.term, currentTerm[n])]
  BY Zenon DEF OnVoteRequest, logVars
<1>3. VoteRequests(msgs') \subseteq msgs
  <2>1. Receive(m) \/ \E term, granted : Reply(m, VoteResponse(m, term, granted))
    BY Zenon DEF OnVoteRequest
  <2> QED BY <2>1 DEF VoteRequests, Receive, Reply, VoteResponse
<1>4. DiskGrows /\ elected \subseteq elected'
  BY <1>1, BallotGrows DEF Known, BallotStep
<1>5. \A c \in Node : state'[c] = "Candidate" =>
        state[c] = "Candidate" /\ currentTerm'[c] = currentTerm[c]
  BY <1>1 DEF BallotStep
<1>6. CandidateMove
  BY <1>2, <1>5 DEF CandidateMove
<1>7. GrantMove
  BY VoteRequestGrants DEF GrantMove
<1>8. GrantsAsked'
  <2> SUFFICES ASSUME NEW g \in grants' PROVE g.term <= disk'[g.cand].term
    BY DEF GrantsAsked
  <2>1. g.term <= disk[g.cand].term /\ g.cand \in Node /\ g.term \in Nat
    <3>1. CASE g \in grants
      BY <3>1, KnownGrant DEF GrantsAsked
    <3>2. CASE g \notin grants
      BY <1>1, <3>2, VoteRequestGrants
    <3> QED BY <3>1, <3>2
  <2>2. disk[g.cand].term \in Nat /\ disk'[g.cand].term \in Nat
    BY <2>1, KnownNode, FactsNext DEF Facts
  <2> QED BY <1>4, <2>1, <2>2 DEF DiskGrows
<1>9. VotesAsked'
  <2> SUFFICES ASSUME NEW a \in msgs', a.type = "VoteRequest", a.live,
                      a.term = currentTerm'[a.from], state'[a.from] = "Candidate"
               PROVE  /\ a.lastIndex = LastIndexOf(logs[a.from])
                      /\ a.lastTerm = LastTermOf(logs[a.from])
    BY <1>2 DEF VotesAsked
  <2>1. a \in msgs /\ a.from \in Node
    BY <1>3, MessageCounted DEF VoteRequests
  <2> QED BY <1>5, <2>1 DEF VotesAsked
<1>10. TermsCounted'
  <2> SUFFICES ASSUME NEW k \in Node PROVE currentTerm'[k] <= faults.election
    BY <1>2 DEF TermsCounted
  <2>1. currentTerm[k] <= faults.election
    BY DEF TermsCounted
  <2> QED BY <1>1, <1>2, <2>1, NameTypes DEF Known, GreaterOf
<1> QED BY <1>4, <1>6, <1>7, <1>8, <1>9, <1>10 DEF Voting

LEMMA CrashVoting ==
  ASSUME Known, Known', GrantsAsked, VotesAsked, TermsCounted, NEW n \in Node, Crash(n)
  PROVE  Voting
<1>1. /\ state' = [state EXCEPT ![n] = "NotRunning"]
      /\ currentTerm' = [currentTerm EXCEPT ![n] = disk[n].term]
      /\ logs' = [logs EXCEPT ![n] = disk[n].logs]
      /\ UNCHANGED <<disk, grants, elected>> /\ faults' = [faults EXCEPT !.crash = @ + 1]
  BY DEF Crash
<1>2. /\ \A k \in Node : state'[k] = "Candidate" => state[k] = "Candidate" /\ k # n
      /\ \A k \in Node \ {n} : currentTerm'[k] = currentTerm[k] /\ logs'[k] = logs[k]
      /\ currentTerm'[n] = disk[n].term
  BY <1>1 DEF Known, TypeOK, CoreTypeOK, LogTypeOK
<1>3. DiskGrows /\ elected \subseteq elected'
  BY <1>1, KnownNode DEF DiskGrows
<1>4. CandidateMove /\ GrantMove /\ GrantsAsked'
  BY <1>1, <1>2 DEF CandidateMove, GrantMove, GrantsAsked
<1>5. ASSUME NEW m \in msgs', m.type = "VoteRequest", m.live
      PROVE  m \in msgs
  <2>1. \/ m \in msgs
        \/ \E r \in msgs : IsRequest(r) /\ m = [r EXCEPT !.live = FALSE]
    BY DEF Crash
  <2>2. ASSUME NEW r \in msgs, IsRequest(r), m = [r EXCEPT !.live = FALSE] PROVE FALSE
    <3>1. r \in Messages
      BY DEF Known, TypeOK
    <3>2. [r EXCEPT !.live = FALSE].live = FALSE
      BY <2>2, <3>1 DEF Messages, IsRequest
    <3> QED BY <1>5, <2>2, <3>2
  <2> QED BY <2>1, <2>2
<1>6. VotesAsked'
  <2> SUFFICES ASSUME NEW m \in msgs', m.type = "VoteRequest", m.live,
                      m.term = currentTerm'[m.from], state'[m.from] = "Candidate"
               PROVE  /\ m.lastIndex = LastIndexOf(logs'[m.from])
                      /\ m.lastTerm = LastTermOf(logs'[m.from])
    BY DEF VotesAsked
  <2>1. m \in msgs /\ m.from \in Node
    BY <1>5, MessageCounted
  <2>2. m.from # n /\ state[m.from] = "Candidate"
    BY <1>2, <2>1
  <2> QED BY <1>2, <2>1, <2>2 DEF VotesAsked
<1>7. TermsCounted'
  <2> SUFFICES ASSUME NEW k \in Node PROVE currentTerm'[k] <= faults'.election
    BY DEF TermsCounted
  <2>1. /\ disk[k].term <= currentTerm[k] /\ currentTerm[k] <= faults.election
        /\ disk[k].term \in Nat /\ currentTerm[k] \in Nat
    BY KnownNode DEF TermsCounted
  <2>2. faults'.election = faults.election /\ faults.election \in Nat
    BY <1>1 DEF Known, TypeOK, HistoryTypeOK
  <2> QED BY <1>2, <2>1, <2>2
<1> QED BY <1>3, <1>4, <1>6, <1>7 DEF Voting

LEMMA FaultVoting ==
  ASSUME Known, Known', GrantsAsked, VotesAsked, TermsCounted, NEW n \in Node, Fault(n)
  PROVE  Voting
<1>1. CASE Crash(n)
  BY <1>1, CrashVoting
<1>2. CASE ~Crash(n)
  <2>1. UNCHANGED <<currentTerm, logs, disk, grants, elected, msgs>>
    BY <1>2 DEF Fault, Restart, Pause, Resume, DisableSend, EnableSend, coreVars, histVars, logVars
  <2>2. state' = state \/ state' = [state EXCEPT ![n] = "Follower"]
    BY <1>2 DEF Fault, Restart, Pause, Resume, DisableSend, EnableSend, coreVars
  <2>3. faults'.election = faults.election
    BY <1>2 DEF Fault, Restart, Pause, Resume, DisableSend, EnableSend, histVars, Known, TypeOK,
       HistoryTypeOK
  <2>4. \A c \in Node : state'[c] = "Candidate" => state[c] = "Candidate"
    BY <2>2 DEF Known, TypeOK, CoreTypeOK
  <2>5. DiskGrows
    BY <2>1, KnownNode DEF DiskGrows
  <2>6. CandidateMove /\ GrantMove /\ GrantsAsked' /\ VotesAsked'
    BY <2>1, <2>4, MessageCounted DEF CandidateMove, GrantMove, GrantsAsked, VotesAsked
  <2> QED BY <2>1, <2>3, <2>5, <2>6 DEF Voting, TermsCounted
<1> QED BY <1>1, <1>2

LEMMA SendVoting ==
  ASSUME Known, Known', GrantsAsked, VotesAsked, TermsCounted, NEW n \in Node,
         OnTimerHeartbeat(n) \/ DoLog(n)
  PROVE  Voting
<1>1. BallotStep(n)
  BY HeartbeatBallot, DoLogBallot DEF Known
<1>2. PICK log : /\ SendStep(n, log) /\ DoAppendEntries(n, log) /\ grants' = grants
  <2>1. CASE OnTimerHeartbeat(n)
    <3>1. /\ state[n] = "Leader" /\ DoAppendEntries(n, logs[n]) /\ grants' = grants
          /\ UNCHANGED <<state, currentTerm, logs, disk>>
      BY <2>1 DEF OnTimerHeartbeat, coreVars, logVars
    <3>2. SendStep(n, logs[n])
      BY <3>1, LogTypes DEF SendStep, Known
    <3> QED BY <3>1, <3>2
  <2>2. CASE DoLog(n)
    <3>1. SendStep(n, Append(logs[n], Entry(n))) /\ grants' = grants
      BY <2>2, DoLogSends DEF Known, DoLog
    <3> QED BY <3>1 DEF SendStep
  <2> QED BY <2>1, <2>2
<1>3. /\ state' = state /\ currentTerm' = currentTerm /\ state[n] = "Leader"
      /\ \A k \in Node \ {n} : logs'[k] = logs[k]
  BY <1>2 DEF SendStep
<1>4. VoteRequests(msgs') \subseteq msgs
  <2> SUFFICES ASSUME NEW m \in msgs', m.type = "VoteRequest", m \notin msgs PROVE FALSE
    BY DEF VoteRequests
  <2>1. Sent(n, log, m)
    BY <1>2, SentRequest DEF SendStep, Known
  <2> QED BY <2>1 DEF Sent
<1>5. faults'.election = faults.election
  <2>1. faults' = [faults EXCEPT !.send = @ + 1]
    BY <1>2, Zenon DEF DoAppendEntries
  <2> QED BY <2>1 DEF Known, TypeOK, HistoryTypeOK
<1>6. currentTerm'[n] <= faults.election
  BY <1>3 DEF TermsCounted
<1> QED BY <1>1, <1>2, <1>3, <1>4, <1>5, <1>6, CalmVoting

LEMMA ResponseVoting ==
  ASSUME Known, Known', GrantsAsked, VotesAsked, TermsCounted, NEW m \in msgs,
         \/ OnVoteResponseNewer(m) \/ OnAppendEntriesResponseNewer(m)
         \/ OnAppendEntriesResponseFailed(m) \/ OnAppendEntriesResponseSuccess(m)
  PROVE  Voting
<1> DEFINE n == m.to
<1>1. n \in Node /\ BallotStep(n) /\ m.term <= faults.election /\ currentTerm[n] <= faults.election
  BY ResponseBallot, MessageCounted DEF Known, TermsCounted
<1>2. logs' = logs /\ grants' = grants /\ faults' = faults /\ msgs' \subseteq msgs
  BY DEF OnVoteResponseNewer, OnAppendEntriesResponseNewer, OnAppendEntriesResponseFailed,
     OnAppendEntriesResponseSuccess, logVars, histVars, Receive
<1>3. currentTerm' = currentTerm \/ currentTerm' = [currentTerm EXCEPT ![n] = m.term]
  BY DEF OnVoteResponseNewer, OnAppendEntriesResponseNewer, OnAppendEntriesResponseFailed,
     OnAppendEntriesResponseSuccess, coreVars, BecomeFollower
<1>4. currentTerm'[n] <= faults.election
  BY <1>1, <1>3, NameTypes DEF Known
<1>5. VoteRequests(msgs') \subseteq msgs
  BY <1>2 DEF VoteRequests
<1> QED BY <1>1, <1>2, <1>4, <1>5, CalmVoting

(* What on_append_entries_request does to its node's term and log.           *)
LEMMA AppendsTo ==
  ASSUME Known, Known', NEW m \in msgs, OnAppendEntriesRequest(m)
  PROVE  /\ m.to \in Node /\ m.from \in Node /\ m.from # m.to /\ m \in AppendRequests
         /\ BallotStep(m.to) /\ currentTerm'[m.to] \in {currentTerm[m.to], m.term}
         /\ \A k \in Node \ {m.to} : logs'[k] = logs[k] /\ commitIndex'[k] = commitIndex[k]
         /\ logs'[m.to] = logs[m.to] \/ state'[m.to] \notin {"Candidate", "Leader"}
         /\ UNCHANGED <<nextIndex, matchIndex, grants, elected, faults>>
<1> DEFINE n == m.to
<1>1. /\ n \in Node /\ m.from \in Node /\ m.from # n /\ m \in AppendRequests /\ BallotStep(n)
      /\ UNCHANGED <<nextIndex, matchIndex, grants, elected, faults>>
  <2>1. BallotStep(n)
    BY AppendRequestBallot DEF Known
  <2>2. n \in Node /\ m.from \in Node /\ m.from # n
    BY HistoryTypes DEF Known, ElectionInv, PeersOnly
  <2> QED BY <2>1, <2>2 DEF OnAppendEntriesRequest, AppendRequests, peerVars, histVars
<1>2. CASE AppendOldTerm(m)
  BY <1>1, <1>2 DEF AppendOldTerm, coreVars, logVars
<1>3. CASE HandleRequestRoutine(m) /\ ~AppendOldTerm(m)
  <2>1. /\ currentTerm' = [currentTerm EXCEPT ![n] = m.term]
        /\ state' = IF StepsDown(m) THEN [state EXCEPT ![n] = "Follower"] ELSE state
    BY <1>3 DEF HandleRequestRoutine
  <2>2. currentTerm'[n] = m.term /\ state'[n] # "Candidate"
    BY <1>1, <2>1, NameTypes DEF Known, StepsDown
  <2>3. state'[n] # "Leader"
    BY <1>3, TakerFollows DEF Known, OnAppendEntriesRequest
  <2>4. \A k \in Node \ {n} : logs'[k] = logs[k] /\ commitIndex'[k] = commitIndex[k]
    <3>1. CASE AppendOutOfOrder(m) \/ AppendMissing(m)
      BY <3>1 DEF AppendOutOfOrder, AppendMissing, logVars
    <3>2. CASE AppendConflict(m)
      BY <3>2 DEF AppendConflict, Known, TypeOK, LogTypeOK
    <3>3. CASE AppendAccept(m)
      BY <3>3 DEF AppendAccept, FollowCommit, Known, TypeOK, LogTypeOK
    <3> QED BY <1>3, <3>1, <3>2, <3>3 DEF OnAppendEntriesRequest
  <2> QED BY <1>1, <2>2, <2>3, <2>4
<1> QED BY <1>2, <1>3 DEF OnAppendEntriesRequest, AppendOutOfOrder, AppendMissing, AppendConflict,
        AppendAccept

LEMMA AppendVoting ==
  ASSUME Known, Known', GrantsAsked, VotesAsked, TermsCounted, NEW m \in msgs,
         OnAppendEntriesRequest(m)
  PROVE  Voting
<1>1. /\ m.to \in Node /\ BallotStep(m.to) /\ currentTerm'[m.to] \in {currentTerm[m.to], m.term}
      /\ \A k \in Node \ {m.to} : logs'[k] = logs[k]
      /\ state'[m.to] = "Candidate" => logs'[m.to] = logs[m.to]
      /\ grants' = grants /\ faults' = faults
  BY AppendsTo
<1>2. currentTerm'[m.to] <= faults.election
  BY <1>1, MessageCounted DEF TermsCounted
<1>3. VoteRequests(msgs') \subseteq msgs
  <2>1. Receive(m) \/ \E term, success, last : Reply(m, AppendResponse(m, term, success, last))
    BY Zenon DEF OnAppendEntriesRequest, AppendOldTerm, AppendOutOfOrder, AppendMissing,
       AppendConflict, AppendAccept
  <2> QED BY <2>1 DEF VoteRequests, Receive, Reply, AppendResponse
<1> QED BY <1>1, <1>2, <1>3, CalmVoting

LEMMA VotingNext ==
  ASSUME Known, Known', Timely, GrantsAsked, VotesAsked, TermsCounted, Next
  PROVE  Voting
<1>1. ASSUME NEW n \in Node, Timer(n) \/ DoLog(n) \/ Fault(n) PROVE Voting
  <2>1. CASE OnTimerElectionFail(n)
    <3>1. /\ UNCHANGED <<currentTerm, logs, disk, grants, faults, msgs>>
          /\ BecomeLeader(n) \/ UNCHANGED <<state, elected>>
      BY <2>1, Zenon DEF OnTimerElectionFail, logVars
    <3> QED BY <3>1, WinVoting
  <2> QED BY <1>1, <2>1, ElectionVoting, SendVoting, FaultVoting DEF Timer
<1>2. ASSUME NEW m \in msgs, Handle(m) PROVE Voting
  <2>1. CASE OnVoteResponseCounted(m)
    <3>1. /\ UNCHANGED <<currentTerm, logs, disk, grants, faults>> /\ Receive(m)
          /\ BecomeLeader(m.to) \/ UNCHANGED <<state, elected>>
      BY <2>1, Zenon DEF OnVoteResponseCounted, logVars
    <3>2. m.to \in Node /\ msgs' \subseteq msgs
      BY <3>1, MessageCounted DEF Receive
    <3> QED BY <3>1, <3>2, WinVoting
  <2> QED BY <1>2, <2>1, VoteRequestVoting, ResponseVoting, AppendVoting DEF Handle
<1> QED BY <1>1, <1>2 DEF Next
-----------------------------------------------------------------------------
(* Next, what each does to the logs, to what is committed and to what leaders  *)
(* claim.  Most change nothing of that; an answer they may give is of a term   *)
(* that its receiver has left, or is going to leave.                        *)
Moves ==
  /\ \E k : LogMove(k)
  /\ LeaderMove /\ ClaimMove /\ CommitMove /\ ApplyMove
  /\ Exact' /\ AnswersWon'

Quiet ==
  /\ logs' = logs /\ applied' = applied /\ elected \subseteq elected'
  /\ \A n \in Node : state'[n] = "Leader" =>
       /\ state[n] = "Leader" /\ currentTerm'[n] = currentTerm[n]
       /\ commitIndex'[n] = commitIndex[n]
       /\ nextIndex'[n] = nextIndex[n] /\ matchIndex'[n] = matchIndex[n]
  /\ \A n \in Node : commitIndex'[n] >= 0 =>
       commitIndex'[n] = commitIndex[n] /\ currentTerm'[n] >= currentTerm[n]
  /\ \A m \in CurrentRequests' : m \in CurrentRequests
  /\ \A r \in msgs' : r.type = "AppendResponse" =>
       r \in msgs \/ (r.asked # r.term /\ Won(r.to, r.asked))

LEMMA WonRemains ==
  ASSUME elected \subseteq elected', NEW n, NEW t, Won(n, t)
  PROVE  Won(n, t)'
BY DEF Won, WonIn

(* A live request under way was sent before the step, and of the same term.   *)
LEMMA StillCurrent ==
  ASSUME Known, NEW m \in CurrentRequests', m \in msgs, currentTerm'[m.from] >= currentTerm[m.from],
         currentTerm'[m.from] \in Nat
  PROVE  m \in CurrentRequests
<1>1. /\ m.type = "AppendRequest" /\ m.live /\ m.term = currentTerm'[m.from]
  BY DEF CurrentRequests, AppendRequests
<1>2. /\ m.from \in Node /\ m.term \in Nat /\ m.term <= disk[m.from].term
  BY HistoryTypes DEF Known, ElectionInv, PersistBeforeSend
<1>3. /\ disk[m.from].term <= currentTerm[m.from] /\ disk[m.from].term \in Nat
      /\ currentTerm[m.from] \in Nat
  BY <1>2, KnownNode
<1>4. m.term = currentTerm[m.from]
  BY <1>1, <1>2, <1>3
<1> QED BY <1>1, <1>4 DEF CurrentRequests, AppendRequests

(* The senders of the requests under way lead, before a step and after it.    *)
SendersKnown ==
  \A m \in CurrentRequests :
    /\ m.from \in Node /\ m.to \in Node /\ state[m.from] = "Leader" /\ m.term = currentTerm[m.from]

LEMMA KnownSenders == Known => SendersKnown
BY OrderTypes DEF Known, OrderInv, SendersLead, SendersKnown

LEMMA SendersNext == (Known => SendersKnown)'
BY KnownSenders, PTL

LEMMA QuietMoves ==
  ASSUME Known, Known', Exact, AnswersWon, Quiet, NEW k \in Node
  PROVE  Moves
<1>1. LogMove(k)
  BY DEF Quiet, LogMove
<1>2. LeaderMove
  <2> SUFFICES ASSUME NEW n \in Node, state'[n] = "Leader"
               PROVE  currentTerm'[n] = currentTerm[n] /\ Leads(n)
    BY DEF LeaderMove
  <2>1. commitIndex[n] \in Int
    BY KnownNode
  <2> QED BY <2>1 DEF Quiet, Leads
<1>3. ClaimMove
  <2> SUFFICES ASSUME NEW n \in Node, state[n] = "Leader", state'[n] = "Leader",
                      NEW p \in Peers(n), NEW i \in Index, Claimed(n, p, i)'
               PROVE  Claimed(n, p, i)
    BY DEF ClaimMove, Index
  <2>1. /\ nextIndex'[n] = nextIndex[n] /\ matchIndex'[n] = matchIndex[n]
        /\ currentTerm'[n] = currentTerm[n]
    BY DEF Quiet
  <2>2. Asked(n, p)' \subseteq Asked(n, p)
    BY DEF Quiet, Asked
  <2>3. Answers(n, p)' \subseteq Answers(n, p)
    <3> SUFFICES ASSUME NEW r \in msgs', r.type = "AppendResponse", r.to = n, r.from = p,
                        r.asked = currentTerm[n], r.term = currentTerm[n]
                 PROVE  r \in msgs
      BY <2>1 DEF Answers
    <3> QED BY DEF Quiet
  <2> QED BY <2>1, <2>2, <2>3 DEF Claimed
<1>4. CommitMove
  <2> SUFFICES ASSUME NEW n \in Node, commitIndex'[n] >= 0
               PROVE  commitIndex'[n] <= commitIndex[n] /\ currentTerm'[n] >= currentTerm[n]
    BY DEF CommitMove
  <2>1. commitIndex[n] \in Int
    BY KnownNode
  <2> QED BY <2>1 DEF Quiet
<1>5. ApplyMove
  BY DEF ApplyMove, Quiet
<1>6. Exact'
  <2> SUFFICES ASSUME NEW m \in CurrentRequests'
               PROVE  /\ m \in CurrentRequests /\ logs' = logs
                      /\ commitIndex'[m.from] = commitIndex[m.from]
    BY DEF Exact, Shows
  <2>1. m.from \in Node /\ state'[m.from] = "Leader"
    BY SendersNext DEF SendersKnown
  <2> QED BY <2>1 DEF Quiet
<1>7. AnswersWon'
  <2> SUFFICES ASSUME NEW r \in msgs', r.type = "AppendResponse" PROVE Won(r.to, r.asked)'
    BY DEF AnswersWon
  <2>1. Won(r.to, r.asked)
    BY DEF Quiet, AnswersWon
  <2> QED BY <2>1, WonRemains DEF Quiet
<1> QED BY <1>1, <1>2, <1>3, <1>4, <1>5, <1>6, <1>7 DEF Moves

(* A handler of n that sends no AppendEntries and changes neither log nor what *)
(* a leader has of its peers.                                               *)
LEMMA BallotQuiet ==
  ASSUME Known, Known', NEW n \in Node, BallotStep(n),
         logs' = logs, applied' = applied, commitIndex' = commitIndex,
         \A k \in Node : state'[k] = "Leader" =>
           nextIndex'[k] = nextIndex[k] /\ matchIndex'[k] = matchIndex[k],
         \A m \in msgs' : m.type = "AppendRequest" => m \in msgs,
         \A r \in msgs' : r.type = "AppendResponse" =>
           r \in msgs \/ (r.asked # r.term /\ Won(r.to, r.asked))
  PROVE  Quiet
<1>1. \A k \in Node : currentTerm'[k] >= currentTerm[k] /\ currentTerm'[k] \in Nat
  BY BallotGrows, FactsNext DEF Known, Facts
<1>2. \A k \in Node : state'[k] = "Leader" =>
        state[k] = "Leader" /\ currentTerm'[k] = currentTerm[k]
  BY DEF BallotStep
<1>3. ASSUME NEW m \in CurrentRequests' PROVE m \in CurrentRequests
  <2>1. m.from \in Node
    BY SendersNext DEF SendersKnown
  <2>2. m \in msgs
    BY DEF CurrentRequests, AppendRequests
  <2> QED BY <1>1, <2>1, <2>2, StillCurrent
<1> QED BY <1>1, <1>2, <1>3 DEF Quiet, BallotStep

LEMMA ElectionQuiet ==
  ASSUME Known, Known', NEW n \in Node, OnTimerElection(n)
  PROVE  Quiet
<1>1. /\ state' = [state EXCEPT ![n] = "Candidate"]
      /\ currentTerm' = [currentTerm EXCEPT ![n] = @ + 1]
      /\ UNCHANGED <<logs, applied, commitIndex, nextIndex, matchIndex, elected>>
      /\ msgs' = msgs \union {VoteRequest(n, p) : p \in sendEnabled[n]}
  BY DEF OnTimerElection, logVars, peerVars
<1>2. \A k \in Node : currentTerm'[k] >= currentTerm[k] /\ currentTerm'[k] \in Nat
  <2>1. \A k \in Node : currentTerm[k] \in Nat
    BY KnownNode
  <2> QED BY <1>1, <2>1, NameTypes DEF Known
<1>3. \A k \in Node : state'[k] = "Leader" =>
        state[k] = "Leader" /\ currentTerm'[k] = currentTerm[k]
  BY <1>1, NameTypes DEF Known
<1>4. \A m \in msgs' : m.type # "VoteRequest" => m \in msgs
  BY <1>1 DEF VoteRequest
<1>5. ASSUME NEW m \in CurrentRequests' PROVE m \in CurrentRequests
  <2>1. m.from \in Node
    BY SendersNext DEF SendersKnown
  <2>2. m \in msgs
    BY <1>4 DEF CurrentRequests, AppendRequests
  <2> QED BY <1>2, <2>1, <2>2, StillCurrent
<1> QED BY <1>1, <1>2, <1>3, <1>4, <1>5 DEF Quiet

LEMMA VoteRequestQuiet ==
  ASSUME Known, Known', NEW m \in msgs, OnVoteRequest(m)
  PROVE  Quiet
<1>1. m.to \in Node /\ BallotStep(m.to)
  BY HistoryTypes, VoteRequestBallot DEF Known
<1>2. UNCHANGED <<logs, applied, commitIndex, nextIndex, matchIndex>>
  BY Zenon DEF OnVoteRequest, logVars, peerVars
<1>3. \A a \in msgs' : a.type # "VoteResponse" => a \in msgs
  <2>1. Receive(m) \/ \E term, granted : Reply(m, VoteResponse(m, term, granted))
    BY Zenon DEF OnVoteRequest
  <2> QED BY <2>1 DEF Receive, Reply, VoteResponse
<1> QED BY <1>1, <1>2, <1>3, BallotQuiet

LEMMA NewerQuiet ==
  ASSUME Known, Known', NEW m \in msgs, OnVoteResponseNewer(m) \/ OnAppendEntriesResponseNewer(m)
  PROVE  Quiet
<1>1. m.to \in Node /\ m.from \in Node /\ BallotStep(m.to)
  BY HistoryTypes, ResponseBallot DEF Known
<1>2. UNCHANGED <<logs, applied, commitIndex>> /\ msgs' \subseteq msgs
      /\ state' = [state EXCEPT ![m.to] = "Follower"]
  BY DEF OnVoteResponseNewer, OnAppendEntriesResponseNewer, logVars, Receive, BecomeFollower
<1>3. UNCHANGED <<nextIndex, matchIndex>> \/ SetPeerIndex(m, m.last)
  BY DEF OnVoteResponseNewer, OnAppendEntriesResponseNewer, peerVars
<1>4. ASSUME NEW k \in Node, state'[k] = "Leader"
      PROVE  nextIndex'[k] = nextIndex[k] /\ matchIndex'[k] = matchIndex[k]
  <2>1. k # m.to
    BY <1>1, <1>2, <1>4, NameTypes DEF Known
  <2> QED BY <1>3, <2>1 DEF SetPeerIndex, Known, TypeOK, PeerTypeOK
<1> QED BY <1>1, <1>2, <1>4, BallotQuiet

LEMMA CrashQuiet ==
  ASSUME Known, Known', NEW n \in Node, Crash(n)
  PROVE  Quiet
<1>1. /\ state' = [state EXCEPT ![n] = "NotRunning"]
      /\ currentTerm' = [currentTerm EXCEPT ![n] = disk[n].term]
      /\ logs' = [logs EXCEPT ![n] = disk[n].logs]
      /\ commitIndex' = [commitIndex EXCEPT ![n] = -1]
      /\ nextIndex' = [nextIndex EXCEPT ![n] = [p \in Node |-> 0]]
      /\ matchIndex' = [matchIndex EXCEPT ![n] = [p \in Node |-> -1]]
      /\ UNCHANGED <<applied, elected>>
  BY DEF Crash
<1>2. logs' = logs
  BY <1>1 DEF Known, LogInv, DiskLogs, TypeOK, LogTypeOK
<1>3. \A k \in Node \ {n} :
        /\ state'[k] = state[k] /\ currentTerm'[k] = currentTerm[k] /\ currentTerm[k] \in Nat
        /\ commitIndex'[k] = commitIndex[k]
        /\ nextIndex'[k] = nextIndex[k] /\ matchIndex'[k] = matchIndex[k]
  BY <1>1, KnownNode DEF Known, TypeOK, CoreTypeOK, LogTypeOK, PeerTypeOK
<1>4. state'[n] = "NotRunning" /\ commitIndex'[n] = -1
  BY <1>1 DEF Known, TypeOK, CoreTypeOK, LogTypeOK
<1>5. ASSUME NEW m \in msgs', m \notin msgs
      PROVE  m.live = FALSE /\ m.type # "AppendResponse"
  <2>1. PICK r \in msgs : IsRequest(r) /\ m = [r EXCEPT !.live = FALSE]
    BY <1>5 DEF Crash
  <2>2. r \in Messages
    BY DEF Known, TypeOK
  <2>3. [r EXCEPT !.live = FALSE].live = FALSE /\ [r EXCEPT !.live = FALSE].type = r.type
    BY <2>1, <2>2 DEF Messages, IsRequest
  <2> QED BY <2>1, <2>3 DEF IsRequest
<1>6. ASSUME NEW m \in CurrentRequests' PROVE m \in CurrentRequests
  <2>1. m.from \in Node /\ state'[m.from] = "Leader"
    BY SendersNext DEF SendersKnown
  <2>2. m \in msgs
    BY <1>5 DEF CurrentRequests, AppendRequests
  <2>3. currentTerm'[m.from] = currentTerm[m.from] /\ currentTerm[m.from] \in Nat
    BY <1>3, <1>4, <2>1
  <2> QED BY <2>2, <2>3, StillCurrent
<1>7. \A k \in Node : state'[k] = "Leader" =>
        /\ state[k] = "Leader" /\ currentTerm'[k] = currentTerm[k]
        /\ commitIndex'[k] = commitIndex[k]
        /\ nextIndex'[k] = nextIndex[k] /\ matchIndex'[k] = matchIndex[k]
  BY <1>3, <1>4
<1>8. ASSUME NEW k \in Node, commitIndex'[k] >= 0
      PROVE  commitIndex'[k] = commitIndex[k] /\ currentTerm'[k] >= currentTerm[k]
  <2>1. k # n
    BY <1>4, <1>8
  <2> QED BY <1>3, <2>1
<1>9. \A r \in msgs' : r.type = "AppendResponse" => r \in msgs
  BY <1>5
<1> QED BY <1>1, <1>2, <1>6, <1>7, <1>8, <1>9 DEF Quiet

LEMMA FaultQuiet ==
  ASSUME Known, Known', NEW n \in Node, Fault(n)
  PROVE  Quiet
<1>1. CASE Crash(n)
  BY <1>1, CrashQuiet
<1>2. CASE ~Crash(n)
  <2>1. UNCHANGED <<currentTerm, logs, elected, msgs, commitIndex, applied, nextIndex, matchIndex>>
    BY <1>2 DEF Fault, Restart, Pause, Resume, DisableSend, EnableSend, coreVars, histVars, logVars,
       peerVars
  <2>2. state' = state \/ state' = [state EXCEPT ![n] = "Follower"]
    BY <1>2 DEF Fault, Restart, Pause, Resume, DisableSend, EnableSend, coreVars
  <2>3. \A c \in Node : state'[c] = "Leader" => state[c] = "Leader"
    BY <2>2, NameTypes DEF Known
  <2>4. \A k \in Node : currentTerm[k] \in Nat
    BY KnownNode
  <2> QED BY <2>1, <2>3, <2>4 DEF Quiet, CurrentRequests, AppendRequests
<1> QED BY <1>1, <1>2

(* Answers to requests of an older term, and requests that are ignored.       *)
LEMMA RefusedQuiet ==
  ASSUME Known, Known', NEW m \in msgs, OnAppendEntriesRequest(m),
         AppendOldTerm(m) \/ AppendOutOfOrder(m)
  PROVE  Quiet
<1> DEFINE n == m.to
<1>1. /\ n \in Node /\ BallotStep(n) /\ UNCHANGED <<nextIndex, matchIndex>> /\ m.type = "AppendRequest"
  BY AppendsTo DEF AppendRequests
<1>2. UNCHANGED <<logs, commitIndex, applied>>
  BY DEF AppendOldTerm, AppendOutOfOrder, logVars
<1>3. \/ Receive(m)
      \/ /\ m.term < currentTerm[n]
         /\ Reply(m, AppendResponse(m, currentTerm[n], FALSE, LastIndexOf(logs[n])))
  BY DEF AppendOldTerm, AppendOutOfOrder
<1>4. CASE Receive(m)
  <2>1. msgs' \subseteq msgs
    BY <1>4 DEF Receive
  <2> QED BY <1>1, <1>2, <2>1, BallotQuiet
<1>5. CASE /\ m.term < currentTerm[n]
           /\ Reply(m, AppendResponse(m, currentTerm[n], FALSE, LastIndexOf(logs[n])))
  <2>1. PICK r : r = AppendResponse(m, currentTerm[n], FALSE, LastIndexOf(logs[n]))
    OBVIOUS
  <2>2. r.type = "AppendResponse" /\ r.asked = m.term /\ r.term = currentTerm[n] /\ r.to = m.from
    BY <2>1 DEF AppendResponse
  <2>3. \A a \in msgs' : a \in msgs \/ a = r
    BY <1>5, <2>1 DEF Reply
  <2>4. Won(m.from, m.term) /\ m.term \in Nat /\ currentTerm[n] \in Nat
    BY <1>1, MessageType, KnownNode DEF Known, RequestsByWinners, TypeOK
  <2>5. r.asked # r.term /\ Won(r.to, r.asked)
    BY <1>5, <2>2, <2>4
  <2> QED BY <1>1, <1>2, <2>2, <2>3, <2>5, BallotQuiet
<1> QED BY <1>3, <1>4, <1>5

(* Who is elected claims that its peers share what it has committed: nothing   *)
(* that it has asked of them as a leader, or they have answered, is under way. *)
LEMMA BecomesLeader ==
  ASSUME Known, Known', AnswersWon, NEW n \in Node, state[n] = "Candidate",
         UNCHANGED <<currentTerm, logs, commitIndex, disk, grants>>, msgs' \subseteq msgs,
         BecomeLeader(n)
  PROVE  /\ Wins(n)
         /\ \A k \in Node \ {n} : /\ state'[k] = state[k] /\ nextIndex'[k] = nextIndex[k]
                                  /\ matchIndex'[k] = matchIndex[k]
         /\ elected \subseteq elected'
<1>1. /\ state' = [state EXCEPT ![n] = "Leader"]
      /\ nextIndex' = [nextIndex EXCEPT ![n] = [p \in Node |-> commitIndex[n] + 1]]
      /\ matchIndex' = [matchIndex EXCEPT ![n] = [p \in Node |-> -1]]
      /\ elected' = elected \union {[term |-> currentTerm[n], node |-> n, votes |-> votes'[n]]}
  BY DEF BecomeLeader
<1>2. /\ \A k \in Node \ {n} : /\ state'[k] = state[k] /\ nextIndex'[k] = nextIndex[k]
                               /\ matchIndex'[k] = matchIndex[k]
      /\ \A p \in Node : nextIndex'[n][p] = commitIndex[n] + 1 /\ matchIndex'[n][p] = -1
      /\ elected \subseteq elected'
  BY <1>1, NameTypes DEF Known, TypeOK, PeerTypeOK
<1>3. \E e \in elected' : e.node = n /\ e.term = currentTerm[n]
  <2> DEFINE won == [term |-> currentTerm[n], node |-> n, votes |-> votes'[n]]
  <2>1. won \in elected' /\ won.node = n /\ won.term = currentTerm[n]
    BY <1>1
  <2> HIDE DEF won
  <2> QED BY <2>1
<1>4. ~Won(n, currentTerm[n])
  BY DEF Won, WonIn, Known, ElectionInv, WinnersFaithful
<1>5. ASSUME NEW p \in Peers(n), NEW i \in Index, Claimed(n, p, i)'
      PROVE  i = -1 \/ i = commitIndex[n]
  <2>1. CASE i = nextIndex'[n][p] - 1 \/ i = matchIndex'[n][p]
    <3>1. p \in Node /\ commitIndex[n] \in Int
      BY KnownNode DEF Peers
    <3> QED BY <1>2, <2>1, <3>1
  <2>2. CASE \E m \in Asked(n, p)' : i = m.prev
    <3>1. PICK m \in Asked(n, p)' : i = m.prev
      BY <2>2
    <3>2. m \in CurrentRequests' /\ m \in msgs /\ m.from = n
      BY <3>1 DEF Asked, CurrentRequests, AppendRequests
    <3>3. m \in CurrentRequests
      BY <3>2 DEF CurrentRequests, AppendRequests
    <3> QED BY <3>2, <3>3, KnownSenders DEF SendersKnown
  <2>3. CASE \E r \in Answers(n, p)' : i = r.last
    <3>1. PICK r \in msgs : r.type = "AppendResponse" /\ r.to = n /\ r.asked = currentTerm[n]
      BY <2>3 DEF Answers
    <3> QED BY <1>4, <3>1 DEF AnswersWon
  <2> QED BY <1>5, <2>1, <2>2, <2>3 DEF Claimed
<1>6. Wins(n)
  BY <1>3, <1>5 DEF Wins
<1> QED BY <1>2, <1>6

LEMMA WinMoves ==
  ASSUME Known, Known', Exact, AnswersWon, NEW n \in Node, state[n] = "Candidate",
         UNCHANGED <<currentTerm, logs, commitIndex, applied, disk, grants>>, msgs' \subseteq msgs,
         BecomeLeader(n) \/ UNCHANGED <<state, elected, nextIndex, matchIndex>>
  PROVE  Moves
<1>1. \A m \in CurrentRequests' : m \in CurrentRequests
  BY DEF CurrentRequests, AppendRequests
<1>2. CASE BecomeLeader(n)
  <2>1. /\ Wins(n) /\ elected \subseteq elected'
        /\ \A k \in Node \ {n} : /\ state'[k] = state[k] /\ nextIndex'[k] = nextIndex[k]
                                 /\ matchIndex'[k] = matchIndex[k]
    BY <1>2, BecomesLeader
  <2>2. LogMove(n) /\ ApplyMove
    BY DEF LogMove, ApplyMove
  <2>3. LeaderMove
    <3> SUFFICES ASSUME NEW k \in Node, state'[k] = "Leader"
                 PROVE  Leads(k) \/ Wins(k)
      BY DEF LeaderMove
    <3>1. commitIndex[k] \in Int
      BY KnownNode
    <3> QED BY <2>1, <3>1 DEF Leads
  <2>4. ClaimMove
    <3> SUFFICES ASSUME NEW k \in Node, state[k] = "Leader",
                        NEW p \in Peers(k), NEW i \in Index, Claimed(k, p, i)'
                 PROVE  Claimed(k, p, i)
      BY DEF ClaimMove, Index
    <3>1. nextIndex'[k] = nextIndex[k] /\ matchIndex'[k] = matchIndex[k]
      BY <2>1
    <3>2. Asked(k, p)' \subseteq Asked(k, p) /\ Answers(k, p)' \subseteq Answers(k, p)
      BY <1>1 DEF Asked, Answers
    <3> QED BY <3>1, <3>2 DEF Claimed
  <2>5. CommitMove
    <3> SUFFICES ASSUME NEW k \in Node
                 PROVE  commitIndex[k] <= commitIndex[k] /\ currentTerm[k] >= currentTerm[k]
      BY DEF CommitMove
    <3> QED BY KnownNode
  <2>6. Exact'
    BY <1>1 DEF Exact, Shows
  <2>7. AnswersWon'
    BY <2>1, WonRemains DEF AnswersWon
  <2> QED BY <2>2, <2>3, <2>4, <2>5, <2>6, <2>7 DEF Moves
<1>3. CASE UNCHANGED <<state, elected, nextIndex, matchIndex>>
  <2>1. \A k \in Node : currentTerm[k] \in Nat
    BY KnownNode
  <2>2. Quiet
    BY <1>1, <1>3, <2>1 DEF Quiet
  <2> QED BY <2>2, QuietMoves
<1> QED BY <1>2, <1>3

(* do_append_entries claims nothing new: prev is the index before next_index.  *)
LEMMA SentClaim ==
  ASSUME Known, ClaimsTrue, NEW n \in Node, NEW log, SendStep(n, log), NEW m \in msgs', m \notin msgs
  PROVE  /\ Sent(n, log, m) /\ m.to \in Peers(n) /\ m.commit = commitIndex[n]
         /\ m.prev \in Index /\ Claimed(n, m.to, m.prev)
         /\ m.prev <= LastIndexOf(log) /\ LastIndexOf(log) = End(Part(m)) /\ Shows(m, log)
<1>1. Sent(n, log, m) /\ state[n] = "Leader" /\ log \in Seq(Entries)
  BY SentRequest DEF SendStep, Known
<1>2. m.to \in Peers(n) /\ m.prev = nextIndex[n][m.to] - 1 /\ m.prev \in Index
  BY <1>1 DEF Sent, Known, ElectionInv, PeersOnly, Peers
<1>3. m.commit = commitIndex[n]
  <2>1. DoAppendEntries(n, log)
    BY DEF SendStep
  <2>2. PICK g : msgs' = msgs \union {AppendRequest(n, p, log, g) : p \in sendEnabled[n]}
    BY Zenon, <2>1 DEF DoAppendEntries
  <2> QED BY <2>2 DEF AppendRequest
<1>4. Claimed(n, m.to, m.prev)
  BY <1>2 DEF Claimed
<1>5. m.prev <= LastIndexOf(logs[n])
  BY <1>1, <1>2, <1>4 DEF ClaimsTrue, ClaimTrue
<1>6. m.prev <= LastIndexOf(log)
  <2>1. LastIndexOf(log) >= LastIndexOf(logs[n]) /\ LastIndexOf(log) \in Int
    BY SendGrows DEF Extends, Known
  <2> QED BY <1>2, <1>5, <2>1, KnownNode DEF Index
<1>7. LastIndexOf(log) = End(Part(m)) /\ Shows(m, log)
  <2>1. LastIndexOf(log) \in Int
    BY SendGrows DEF Known
  <2> QED BY <1>1, <1>2, <1>6, <2>1, SentShows DEF Index, Known
<1> QED BY <1>1, <1>2, <1>3, <1>4, <1>6, <1>7

(* A leader has what it has committed.                                      *)
LEMMA LeaderReaches ==
  ASSUME Known, CommitFixed, NEW n \in Node, state[n] = "Leader"
  PROVE  commitIndex[n] <= LastIndexOf(logs[n])
<1>1. /\ commitIndex[n] \in Int /\ LastIndexOf(logs[n]) \in Int /\ LastIndexOf(logs[n]) >= -1
  BY KnownNode
<1>2. CASE commitIndex[n] >= 0
  <2>1. PICK x : Fixed(x) /\ x.index >= commitIndex[n] /\ x.entry.term <= currentTerm[n]
    BY <1>2 DEF CommitFixed
  <2>2. x \in Points /\ LeadersHave(x)
    BY <2>1 DEF Fixed, Spread
  <2>3. x.entry.term \in Nat /\ x.index \in Nat /\ currentTerm[n] \in Nat
    BY <2>2, PointTypes, KnownNode
  <2>4. Holds(logs[n], x)
    BY <2>1, <2>2, <2>3 DEF LeadersHave
  <2> QED BY <1>1, <2>1, <2>3, <2>4 DEF Holds
<1> QED BY <1>1, <1>2

LEMMA SendExact ==
  ASSUME Known, Known', Exact, ClaimsTrue, CommitFixed,
         NEW n \in Node, NEW log, SendStep(n, log), UNCHANGED commitIndex
  PROVE  Exact'
<1>1. /\ log \in Seq(Entries) /\ logs[n] \in Seq(Entries) /\ LastIndexOf(log) \in Int
      /\ LastIndexOf(logs[n]) \in Int /\ LastIndexOf(log) >= LastIndexOf(logs[n])
      /\ Extends(log, logs[n]) /\ logs'[n] = log /\ currentTerm' = currentTerm
      /\ \A k \in Node \ {n} : logs'[k] = logs[k]
  BY SendGrows, KnownNode DEF SendStep, Known, Extends
<1>2. ASSUME NEW m \in CurrentRequests, m.from = n
      PROVE  /\ m.prev <= LastIndexOf(log) /\ End(Part(m)) <= LastIndexOf(log)
             /\ Shows(m, log) /\ m.commit <= commitIndex[n] /\ m.commit <= End(Part(m))
             /\ \A i \in 0 .. LastIndexOf(log) : TermAt(log, i) # m.term => i <= End(Part(m))
  <2>1. /\ m.prev <= LastIndexOf(logs[n]) /\ End(Part(m)) <= LastIndexOf(logs[n])
        /\ Shows(m, logs[n]) /\ m.commit <= commitIndex[n] /\ m.commit <= End(Part(m))
        /\ \A i \in 0 .. LastIndexOf(logs[n]) : TermAt(logs[n], i) # m.term => i <= End(Part(m))
    BY <1>2 DEF Exact
  <2>2. m.prev \in Int /\ End(Part(m)) \in Int /\ m.term = currentTerm[n]
    BY <1>2, OrderTypes, SliceType DEF Known, Index
  <2>3. Shows(m, log)
    BY <1>1, <2>1, ShowsStays DEF Known
  <2>4. ASSUME NEW i \in 0 .. LastIndexOf(log), TermAt(log, i) # m.term
        PROVE  i <= End(Part(m))
    <3>1. \/ i \in 0 .. LastIndexOf(logs[n]) /\ log[i + 1] = logs[n][i + 1]
          \/ log[i + 1] = Entry(n)
      BY SendGrows DEF Known
    <3>2. log[i + 1] # Entry(n)
      BY <2>2, <2>4 DEF TermAt, Entry
    <3> QED BY <2>1, <2>4, <3>1, <3>2 DEF TermAt
  <2> QED BY <1>1, <2>1, <2>2, <2>3, <2>4
<1>3. ASSUME NEW m \in msgs', m \notin msgs
      PROVE  /\ m.from = n /\ m.prev <= LastIndexOf(log) /\ End(Part(m)) <= LastIndexOf(log)
             /\ Shows(m, log) /\ m.commit <= commitIndex[n] /\ m.commit <= End(Part(m))
             /\ \A i \in 0 .. LastIndexOf(log) : TermAt(log, i) # m.term => i <= End(Part(m))
  <2>1. /\ Sent(n, log, m) /\ m.commit = commitIndex[n] /\ m.prev <= LastIndexOf(log)
        /\ LastIndexOf(log) = End(Part(m)) /\ Shows(m, log)
    BY <1>3, SentClaim
  <2>2. commitIndex[n] \in Int /\ commitIndex[n] <= LastIndexOf(logs[n])
    BY KnownNode, LeaderReaches DEF SendStep
  <2> QED BY <1>1, <2>1, <2>2 DEF Sent
<1>4. SUFFICES ASSUME NEW m \in CurrentRequests'
               PROVE  /\ m.prev <= LastIndexOf(logs'[m.from])
                      /\ End(Part(m)) <= LastIndexOf(logs'[m.from])
                      /\ Shows(m, logs'[m.from])
                      /\ m.commit <= commitIndex[m.from] /\ m.commit <= End(Part(m))
                      /\ \A i \in 0 .. LastIndexOf(logs'[m.from]) :
                           TermAt(logs'[m.from], i) # m.term => i <= End(Part(m))
  BY DEF Exact, Shows
<1>5. m \in msgs' /\ (m \in msgs => m \in CurrentRequests)
  BY <1>1 DEF CurrentRequests, AppendRequests
<1>6. CASE m \in msgs /\ m.from # n
  <2>1. m \in CurrentRequests /\ m.from \in Node
    BY <1>5, <1>6, KnownSenders DEF SendersKnown
  <2>2. logs'[m.from] = logs[m.from]
    BY <1>1, <1>6, <2>1
  <2> QED BY <2>1, <2>2 DEF Exact
<1> QED BY <1>1, <1>2, <1>3, <1>5, <1>6

LEMMA SendMoves ==
  ASSUME Known, Known', Exact, AnswersWon, ClaimsTrue, CommitFixed,
         NEW n \in Node, NEW log, SendStep(n, log),
         UNCHANGED <<commitIndex, applied, nextIndex, matchIndex, elected>>
  PROVE  Moves
<1>1. /\ log \in {logs[n], Append(logs[n], Entry(n))} /\ state[n] = "Leader"
      /\ logs'[n] = log /\ \A k \in Node \ {n} : logs'[k] = logs[k]
      /\ UNCHANGED <<state, currentTerm>> /\ \A k \in Node : disk'[k].term = disk[k].term
  BY DEF SendStep
<1>2. logs'[n] = logs[n] \/ Grows(n)
  BY <1>1 DEF Grows
<1>3. LogMove(n)
  BY <1>1, <1>2 DEF LogMove
<1>4. LeaderMove
  <2> SUFFICES ASSUME NEW k \in Node, state[k] = "Leader" PROVE Leads(k)
    BY <1>1 DEF LeaderMove
  <2>1. commitIndex[k] \in Int
    BY KnownNode
  <2> QED BY <1>1, <1>2, <2>1 DEF Leads
<1>5. ASSUME NEW m \in msgs', m \notin msgs
      PROVE  m.type = "AppendRequest" /\ m.from = n /\ Claimed(n, m.to, m.prev)
  BY <1>5, SentClaim DEF Sent
<1>6. ClaimMove
  <2> SUFFICES ASSUME NEW k \in Node, NEW p \in Peers(k), NEW i \in Index, Claimed(k, p, i)'
               PROVE  Claimed(k, p, i)
    BY DEF ClaimMove, Index
  <2>1. CASE i = nextIndex[k][p] - 1 \/ i = matchIndex[k][p]
    BY <2>1 DEF Claimed
  <2>2. CASE \E m \in Asked(k, p)' : i = m.prev
    <3>1. PICK m \in Asked(k, p)' : i = m.prev
      BY <2>2
    <3>2. m \in CurrentRequests' /\ m \in msgs' /\ m.from = k /\ m.to = p
      BY <3>1 DEF Asked, CurrentRequests, AppendRequests
    <3>3. CASE m \in msgs
      <4>1. m \in Asked(k, p)
        BY <1>1, <3>2, <3>3 DEF Asked, CurrentRequests, AppendRequests
      <4> QED BY <3>1, <4>1 DEF Claimed
    <3>4. CASE m \notin msgs
      BY <1>5, <3>1, <3>2, <3>4
    <3> QED BY <3>3, <3>4
  <2>3. CASE \E r \in Answers(k, p)' : i = r.last
    <3>1. PICK r \in Answers(k, p)' : i = r.last
      BY <2>3
    <3>2. r \in Answers(k, p)
      BY <1>1, <1>5, <3>1 DEF Answers
    <3> QED BY <3>1, <3>2 DEF Claimed
  <2> QED BY <2>1, <2>2, <2>3 DEF Claimed
<1>7. CommitMove
  <2> SUFFICES ASSUME NEW k \in Node
               PROVE  commitIndex[k] <= commitIndex[k] /\ currentTerm[k] >= currentTerm[k]
    BY <1>1 DEF CommitMove
  <2> QED BY KnownNode
<1>8. ApplyMove
  BY DEF ApplyMove
<1>9. Exact'
  BY SendExact
<1>10. AnswersWon'
  <2> SUFFICES ASSUME NEW r \in msgs', r.type = "AppendResponse" PROVE Won(r.to, r.asked)
    BY DEF AnswersWon, Won
  <2> QED BY <1>5 DEF AnswersWon
<1> QED BY <1>3, <1>4, <1>6, <1>7, <1>8, <1>9, <1>10 DEF Moves
-----------------------------------------------------------------------------
(* on_append_entries_request, the ways that take the request.  Its sender      *)
(* leads the term, and its answer claims what is there afterwards.           *)
Taking(m) ==
  /\ m \in CurrentRequests /\ m.to \in Node /\ m.from \in Node \ {m.to}
  /\ state[m.from] = "Leader" /\ m.term = currentTerm[m.from]
  /\ m.term >= currentTerm[m.to]
  /\ state'[m.to] # "Leader" /\ currentTerm'[m.to] = m.term /\ disk'[m.to].term = m.term
  /\ \A k \in Node \ {m.to} : /\ state'[k] = state[k] /\ currentTerm'[k] = currentTerm[k]
                              /\ logs'[k] = logs[k] /\ commitIndex'[k] = commitIndex[k]
  /\ UNCHANGED <<nextIndex, matchIndex, elected>>

LEMMA TakeStepTaking ==
  ASSUME Known, Known', NEW m \in msgs, OnAppendEntriesRequest(m), NEW log, TakeStep(m, log)
  PROVE  Taking(m)
<1>1. /\ m.to \in Node /\ m.from \in Node /\ m.from # m.to /\ BallotStep(m.to)
      /\ \A k \in Node \ {m.to} : logs'[k] = logs[k] /\ commitIndex'[k] = commitIndex[k]
      /\ UNCHANGED <<nextIndex, matchIndex, elected>>
  BY AppendsTo
<1>2. /\ m \in CurrentRequests /\ m.term >= currentTerm[m.to]
      /\ currentTerm'[m.to] = m.term /\ disk'[m.to].term = m.term /\ state'[m.to] # "Leader"
  BY DEF TakeStep
<1>3. state[m.from] = "Leader" /\ m.term = currentTerm[m.from]
  BY <1>2, KnownSenders DEF SendersKnown
<1>4. \A k \in Node \ {m.to} : state'[k] = state[k] /\ currentTerm'[k] = currentTerm[k]
  BY <1>1 DEF BallotStep
<1> QED BY <1>1, <1>2, <1>3, <1>4 DEF Taking

LEMMA TakingMoves ==
  ASSUME Known, Known', Exact, AnswersWon, NEW m \in msgs, Taking(m),
         NEW success, NEW last, Reply(m, AppendResponse(m, m.term, success, last)),
         logs'[m.to] = logs[m.to] \/ Takes(m.to, m.from) \/ Cuts(m.to, m.from),
         \/ \E i0 \in Index : Claimed(m.from, m.to, i0) /\ last <= i0
         \/ Takes(m.to, m.from) /\ last <= LastIndexOf(logs'[m.to]),
         \/ commitIndex'[m.to] <= commitIndex[m.to]
         \/ commitIndex'[m.to] <= commitIndex[m.from],
         ApplyMove
  PROVE  Moves
<1> DEFINE n == m.to
           l == m.from
<1>1. /\ m \in CurrentRequests /\ n \in Node /\ l \in Node \ {n}
      /\ state[l] = "Leader" /\ m.term = currentTerm[l] /\ m.term >= currentTerm[n]
      /\ state'[n] # "Leader" /\ currentTerm'[n] = m.term
      /\ \A k \in Node \ {n} : /\ state'[k] = state[k] /\ currentTerm'[k] = currentTerm[k]
                               /\ logs'[k] = logs[k] /\ commitIndex'[k] = commitIndex[k]
      /\ UNCHANGED <<nextIndex, matchIndex, elected>>
  BY DEF Taking
<1>2. LogMove(n)
  BY <1>1 DEF LogMove
<1>t. \A k \in Node : commitIndex[k] \in Int /\ currentTerm[k] \in Nat
  BY KnownNode
<1>3. LeaderMove
  <2> SUFFICES ASSUME NEW k \in Node, state'[k] = "Leader"
               PROVE  currentTerm'[k] = currentTerm[k] /\ Leads(k)
    BY DEF LeaderMove
  <2>1. k \in Node \ {n}
    BY <1>1
  <2> QED BY <1>1, <1>t, <2>1 DEF Leads
<1>r. PICK r : r = AppendResponse(m, m.term, success, last)
  OBVIOUS
<1>4. /\ r.type = "AppendResponse" /\ r.from = n /\ r.to = l /\ r.asked = m.term /\ r.last = last
      /\ \A a \in msgs' : a \in msgs \/ a = r
  <2>1. r.type = "AppendResponse" /\ r.from = n /\ r.to = l /\ r.asked = m.term /\ r.last = last
    BY <1>r DEF AppendResponse
  <2> QED BY <1>r, <2>1 DEF Reply
<1>5. ASSUME NEW a \in CurrentRequests'
      PROVE  a \in CurrentRequests /\ a.from \in Node \ {n}
  <2>1. a.from \in Node /\ state'[a.from] = "Leader"
    BY SendersNext DEF SendersKnown
  <2>2. a.from \in Node \ {n}
    BY <1>1, <2>1
  <2>3. a \in msgs
    BY <1>4 DEF CurrentRequests, AppendRequests
  <2>4. currentTerm'[a.from] = currentTerm[a.from] /\ currentTerm[a.from] \in Nat
    BY <1>1, <1>t, <2>2
  <2> QED BY <2>2, <2>3, <2>4, StillCurrent
<1>6. ClaimMove
  <2> SUFFICES ASSUME NEW k \in Node, state'[k] = "Leader", NEW p \in Peers(k),
                      NEW i \in Index, Claimed(k, p, i)'
               PROVE  \/ \E i0 \in Index : Claimed(k, p, i0) /\ i <= i0
                      \/ Takes(p, k) /\ i <= LastIndexOf(logs'[p])
    BY DEF ClaimMove
  <2>k. k \in Node \ {n} /\ currentTerm'[k] = currentTerm[k]
    BY <1>1
  <2>i. i <= i
    BY DEF Index
  <2>1. CASE i = nextIndex[k][p] - 1 \/ i = matchIndex[k][p]
    BY <2>1, <2>i DEF Claimed
  <2>2. CASE \E a \in Asked(k, p)' : i = a.prev
    <3>1. PICK a \in Asked(k, p)' : i = a.prev
      BY <2>2
    <3>2. a \in Asked(k, p)
      BY <1>5, <3>1 DEF Asked
    <3> QED BY <2>i, <3>1, <3>2 DEF Claimed
  <2>3. CASE \E a \in Answers(k, p)' : i = a.last
    <3>1. PICK a \in Answers(k, p)' : i = a.last
      BY <2>3
    <3>2. CASE a \in msgs
      <4>1. a \in Answers(k, p)
        BY <2>k, <3>1, <3>2 DEF Answers
      <4> QED BY <2>i, <3>1, <4>1 DEF Claimed
    <3>3. CASE a = r
      BY <1>4, <3>1, <3>3 DEF Answers
    <3> QED BY <1>4, <3>1, <3>2, <3>3 DEF Answers
  <2> QED BY <1>1, <2>1, <2>2, <2>3 DEF Claimed
<1>7. CommitMove
  <2> SUFFICES ASSUME NEW k \in Node
               PROVE  \/ commitIndex'[k] <= commitIndex[k] /\ currentTerm'[k] >= currentTerm[k]
                      \/ \E o \in Node : /\ state[o] = "Leader" /\ commitIndex'[k] <= commitIndex[o]
                                         /\ currentTerm'[k] >= currentTerm[o]
    BY DEF CommitMove
  <2>1. CASE k # n
    BY <1>1, <1>t, <2>1
  <2>2. CASE k = n
    BY <1>1, <1>t, <2>2
  <2> QED BY <2>1, <2>2
<1>8. Exact'
  <2> SUFFICES ASSUME NEW a \in CurrentRequests'
               PROVE  /\ a \in CurrentRequests /\ logs'[a.from] = logs[a.from]
                      /\ commitIndex'[a.from] = commitIndex[a.from]
    BY DEF Exact, Shows
  <2> QED BY <1>1, <1>5
<1>9. AnswersWon'
  <2> SUFFICES ASSUME NEW a \in msgs', a.type = "AppendResponse" PROVE Won(a.to, a.asked)
    BY <1>1 DEF AnswersWon, Won
  <2>1. Won(l, m.term)
    BY <1>1, KnownNode
  <2> QED BY <1>4, <2>1 DEF AnswersWon
<1> QED BY <1>2, <1>3, <1>6, <1>7, <1>8, <1>9 DEF Moves

(* What a request that is taken asks for is claimed, and its sender has it.   *)
LEMMA TakingKnown ==
  ASSUME Known, Exact, ClaimsTrue, NEW m, Taking(m)
  PROVE  /\ m.prev \in Index /\ Claimed(m.from, m.to, m.prev)
         /\ ClaimTrue(m.from, m.to, m.prev)
         /\ m.prev <= LastIndexOf(logs[m.from]) /\ End(Part(m)) <= LastIndexOf(logs[m.from])
         /\ Shows(m, logs[m.from])
         /\ m.commit <= commitIndex[m.from] /\ m.commit <= End(Part(m))
         /\ \A i \in 0 .. LastIndexOf(logs[m.from]) :
              TermAt(logs[m.from], i) # m.term => i <= End(Part(m))
<1>1. m \in CurrentRequests /\ m.from \in Node /\ m.to \in Peers(m.from) /\ state[m.from] = "Leader"
  BY DEF Taking, Peers
<1>2. m.prev \in Index
  BY <1>1, OrderTypes DEF Known
<1>3. Claimed(m.from, m.to, m.prev)
  BY <1>1 DEF Claimed, Asked
<1>4. ClaimTrue(m.from, m.to, m.prev)
  BY <1>1, <1>2, <1>3 DEF ClaimsTrue
<1> QED BY <1>1, <1>2, <1>3, <1>4 DEF Exact

LEMMA MissingMoves ==
  ASSUME Known, Known', Timely, Exact, AnswersWon, ClaimsTrue,
         NEW m \in msgs, OnAppendEntriesRequest(m), AppendMissing(m)
  PROVE  Moves
<1> DEFINE n == m.to
<1>1. /\ HandleRequestRoutine(m) /\ Dump(n) /\ m.prev > LastIndexOf(logs[n])
      /\ Reply(m, AppendResponse(m, m.term, FALSE, LastIndexOf(logs[n])))
      /\ UNCHANGED <<logs, commitIndex, applied>>
  BY DEF AppendMissing, logVars
<1>2. n \in Node /\ logs[n] \in Seq(Entries) /\ logs' = [logs EXCEPT ![n] = logs[n]]
  BY <1>1, AppendsTo, KnownNode DEF Known, TypeOK, LogTypeOK
<1>3. TakenFrom(m, logs[n])
  BY DEF TakenFrom
<1>4. TakeStep(m, logs[n])
  BY <1>1, <1>2, <1>3, TakenStep DEF Known
<1>5. Taking(m)
  BY <1>4, TakeStepTaking
<1>6. m.prev \in Index /\ Claimed(m.from, n, m.prev)
  BY <1>5, TakingKnown
<1>7. LastIndexOf(logs[n]) <= m.prev
  BY <1>1, <1>2, <1>6, KnownNode DEF Index
<1>8. commitIndex'[n] <= commitIndex[n]
  BY <1>1, <1>2, KnownNode
<1> QED BY <1>1, <1>5, <1>6, <1>7, <1>8, TakingMoves DEF ApplyMove

(* What a follower cuts off begins below what the leader has committed: above  *)
(* that the leader claims only what is so.                                  *)
LEMMA ConflictMoves ==
  ASSUME Known, Known', Timely, Exact, AnswersWon, ClaimsTrue,
         NEW m \in msgs, OnAppendEntriesRequest(m), AppendConflict(m)
  PROVE  Moves
<1> DEFINE n == m.to
           l == m.from
<1>1. /\ HandleRequestRoutine(m) /\ m.prev <= LastIndexOf(logs[n]) /\ Conflicts(m, logs[n])
      /\ UNCHANGED <<commitIndex, applied>>
  BY DEF AppendConflict
<1>2. /\ n \in Node /\ m \in AppendRequests /\ logs[n] \in Seq(Entries)
      /\ logs \in [Node -> Seq(Entries)]
  BY AppendsTo, KnownNode DEF Known, TypeOK, LogTypeOK
<1>3. PICK kept \in -1 .. m.prev - 1 :
        /\ logs' = [logs EXCEPT ![n] = SubSeq(logs[n], 1, kept + 1)] /\ Dump(n)
        /\ Reply(m, AppendResponse(m, m.term, FALSE, kept))
  BY <1>2 DEF AppendConflict
<1>4. PICK log : log = SubSeq(logs[n], 1, kept + 1)
  OBVIOUS
<1>5. log \in Seq(Entries) /\ logs'[n] = log
  BY <1>1, <1>2, <1>3, <1>4, ConflictLog DEF Known
<1>6. /\ TakenFrom(m, log) /\ LastIndexOf(log) = kept
      /\ \A i \in 0 .. kept : log[i + 1] = logs[n][i + 1]
  BY <1>1, <1>2, <1>4, ConflictSource DEF Known
<1>7. TakeStep(m, log)
  BY <1>1, <1>3, <1>4, <1>5, <1>6, TakenStep DEF Known
<1>8. Taking(m)
  BY <1>7, TakeStepTaking
<1>9. /\ m.prev \in Int /\ m.prev \in Index /\ Claimed(l, n, m.prev) /\ ClaimTrue(l, n, m.prev)
      /\ m.prev <= LastIndexOf(logs[l]) /\ Shows(m, logs[l])
  BY <1>8, TakingKnown DEF Index
<1>10. /\ l \in Node \ {n} /\ state[l] = "Leader" /\ m.term = currentTerm[l]
       /\ m.term >= currentTerm[n] /\ state'[n] # "Leader" /\ disk'[n].term = m.term
  BY <1>8 DEF Taking
<1>11. m.prev > BaseIndexOf(logs[n]) /\ TermAt(logs[n], m.prev) # m.prevTerm
  BY <1>1 DEF Conflicts
<1>12. m.prev \in Nat
  BY <1>9, <1>11 DEF BaseIndexOf
<1>13. logs[n][m.prev + 1] # logs[l][m.prev + 1]
  BY <1>9, <1>11, <1>12 DEF Shows, TermAt
<1>14. m.prev <= commitIndex[l]
  <2>1. SUFFICES ASSUME m.prev > commitIndex[l] PROVE FALSE
    BY <1>9, <1>10, KnownNode
  <2>2. Knows(n, l, m.prev)
    BY <1>9, <2>1 DEF ClaimTrue
  <2>3. disk[n].term = currentTerm[l]
    <3>1. /\ disk[n].term \in Nat /\ currentTerm[n] \in Nat /\ currentTerm[l] \in Nat
          /\ disk[n].term <= currentTerm[n] /\ disk[n].term >= currentTerm[l]
      BY <1>2, <1>10, <2>2, KnownNode DEF Knows
    <3> QED BY <1>10, <3>1
  <2>4. \A k \in 0 .. m.prev : logs[n][k + 1] = logs[l][k + 1]
    BY <2>2, <2>3 DEF Knows, SameUpTo
  <2> QED BY <1>12, <1>13, <2>4
<1>15. Extends(logs[n], logs'[n])
  <2>1. LastIndexOf(logs[n]) >= kept
    BY <1>1, <1>2, <1>9, KnownNode
  <2> QED BY <1>5, <1>6, <2>1 DEF Extends
<1>16. Cuts(n, l)
  BY <1>1, <1>9, <1>10, <1>12, <1>13, <1>14, <1>15 DEF Cuts, Follows
<1>17. kept <= m.prev
  BY <1>9
<1>18. commitIndex'[n] <= commitIndex[n]
  BY <1>1, <1>2, KnownNode
<1> QED BY <1>1, <1>3, <1>8, <1>9, <1>16, <1>17, <1>18, TakingMoves DEF ApplyMove

(* A log that has taken the entries of a request is the beginning of the       *)
(* leader's, and what was in it of the leader's log is still.                *)
LEMMA AcceptExtends ==
  ASSUME Known, Exact, ClaimsTrue, StartsCompared, NEW m, Taking(m),
         m.prev <= LastIndexOf(logs[m.to]), ~Conflicts(m, logs[m.to])
  PROVE  Extends(logs[m.from], AfterAppend(m, logs[m.to]))
<1>1. /\ m \in CurrentRequests /\ m.to \in Node /\ m.from \in Node
      /\ m.term >= currentTerm[m.to]
  BY DEF Taking
<1>2. /\ logs[m.to] \in Seq(Entries) /\ logs[m.from] \in Seq(Entries)
      /\ LastIndexOf(logs[m.to]) \in Int /\ LastIndexOf(logs[m.from]) \in Int
  BY <1>1, KnownNode
<1>3. /\ m.prev \in Index /\ m.entries \in Seq(Entries) /\ Part(m) \in Slices
      /\ Part(m).prev = m.prev /\ Part(m).entries = m.entries
  BY <1>1, OrderTypes, PartType DEF Known
<1>4. /\ m.prev <= LastIndexOf(logs[m.from]) /\ End(Part(m)) <= LastIndexOf(logs[m.from])
      /\ Shows(m, logs[m.from])
  BY TakingKnown
<1>p. PICK p \in Index : p = m.prev
  BY <1>3
<1>e. PICK e \in Seq(Entries) : e = m.entries
  BY <1>3
<1>5. p \in Int /\ p >= -1 /\ Len(e) \in Nat
  BY <1>p, LenProperties DEF Index
<1>6. End(Part(m)) = p + Len(e)
  BY <1>3, <1>p, <1>e DEF End
<1>7. \A i \in p + 1 .. p + Len(e) : e[i - p] = logs[m.from][i + 1]
  BY <1>3, <1>4, <1>6, <1>p, <1>e DEF Shows, Covered, EntryIn
<1>8. CASE p < BaseIndexOf(logs[m.to])
  <2>1. p = -1 /\ logs[m.to] # <<>>
    BY <1>5, <1>8 DEF BaseIndexOf
  <2>2. AfterAppend(m, logs[m.to]) = logs[m.to]
    BY <1>5, <1>8, <1>p DEF AfterAppend, BaseIndexOf
  <2>3. Extends(e, logs[m.to])
    BY <1>1, <1>p, <1>e, <2>1 DEF StartsCompared
  <2>4. LastIndexOf(e) = p + Len(e)
    BY <1>5, <2>1 DEF LastIndexOf
  <2>5. LastIndexOf(logs[m.from]) >= LastIndexOf(logs[m.to])
    BY <1>2, <1>4, <1>5, <1>6, <2>3, <2>4 DEF Extends
  <2>6. ASSUME NEW i \in 0 .. LastIndexOf(logs[m.to])
        PROVE  logs[m.from][i + 1] = logs[m.to][i + 1]
    <3>1. e[i + 1] = logs[m.to][i + 1]
      BY <2>3 DEF Extends
    <3>2. i \in p + 1 .. p + Len(e) /\ i - p = i + 1
      BY <1>2, <1>5, <2>1, <2>3, <2>4 DEF Extends
    <3> QED BY <1>7, <3>1, <3>2
  <2> QED BY <2>2, <2>5, <2>6 DEF Extends
<1>9. CASE p >= BaseIndexOf(logs[m.to])
  <2>l. PICK log : log = AfterAppend(m, logs[m.to])
    OBVIOUS
  <2>1. log = Spliced(logs[m.to], p, e)
    BY <1>9, <2>l, <1>p, <1>e DEF AfterAppend, Spliced
  <2>2. /\ LastIndexOf(log) = p + Len(e)
        /\ \A i \in 0 .. p : log[i + 1] = logs[m.to][i + 1]
        /\ \A i \in p + 1 .. p + Len(e) : log[i + 1] = e[i - p]
    BY <1>2, <1>p, <2>1, SplicedType, SMTT(30)
  <2>3. ASSUME NEW i \in 0 .. p PROVE logs[m.from][i + 1] = logs[m.to][i + 1]
    <3>1. p >= 0 /\ p \in 0 .. LastIndexOf(logs[m.to]) /\ p <= LastIndexOf(logs[m.from])
      BY <1>2, <1>4, <1>5, <1>p, <2>3
    <3>2. logs[m.to] # <<>>
      BY <1>2, <3>1, LastOf
    <3>3. TermAt(logs[m.to], p) = m.prevTerm
      BY <1>1, <1>5, <1>p, <3>1, <3>2 DEF Conflicts, BaseIndexOf, StartsCompared
    <3>4. TermAt(logs[m.from], p) = m.prevTerm
      BY <1>4, <1>5, <1>p, <3>1 DEF Shows
    <3> QED BY <1>1, <3>1, <3>3, <3>4, SameBefore
  <2>4. ASSUME NEW i \in 0 .. LastIndexOf(log) PROVE logs[m.from][i + 1] = log[i + 1]
    <3>1. i \in 0 .. p \/ i \in p + 1 .. p + Len(e)
      BY <1>5, <2>2
    <3> QED BY <1>7, <2>2, <2>3, <3>1
  <2>5. LastIndexOf(logs[m.from]) >= LastIndexOf(log)
    BY <1>2, <1>4, <1>5, <1>6, <2>2
  <2> QED BY <2>4, <2>5, <2>l DEF Extends
<1> QED BY <1>5, <1>8, <1>9 DEF BaseIndexOf

LEMMA AcceptTakes ==
  ASSUME Known, Exact, ClaimsTrue, StartsCompared, NEW m, Taking(m),
         m.prev <= LastIndexOf(logs[m.to]), ~Conflicts(m, logs[m.to]),
         logs'[m.to] = AfterAppend(m, logs[m.to]), logs'[m.to] \in Seq(Entries)
  PROVE  Takes(m.to, m.from)
<1> DEFINE n == m.to
           l == m.from
<1>1. /\ m \in CurrentRequests /\ n \in Node /\ l \in Node \ {n} /\ m.term >= currentTerm[n]
      /\ state[l] = "Leader" /\ m.term = currentTerm[l]
      /\ state'[n] # "Leader" /\ disk'[n].term = m.term
  BY DEF Taking
<1>2. Extends(logs[l], logs'[n])
  BY AcceptExtends
<1>3. Kept(logs'[n], logs[n], m.term)
  BY <1>1, AcceptKeeps DEF Known
<1>4. ASSUME NEW i \in 0 .. LastIndexOf(logs[n]),
             i <= LastIndexOf(logs[l]), logs[n][i + 1] = logs[l][i + 1]
      PROVE  i <= LastIndexOf(logs'[n]) /\ logs'[n][i + 1] = logs[n][i + 1]
  <2>1. CASE TermAt(logs[n], i) = m.term
    BY <1>3, <2>1 DEF Kept
  <2>2. CASE TermAt(logs[n], i) # m.term
    <3>1. i \in 0 .. LastIndexOf(logs[l])
      BY <1>1, <1>4, KnownNode
    <3>2. i <= End(Part(m))
      BY <1>4, <2>2, <3>1, TakingKnown DEF TermAt
    <3>3. \/ logs'[n] = logs[n]
          \/ LastIndexOf(logs'[n]) = End(Part(m))
      <4>1. CASE m.prev >= BaseIndexOf(logs[n])
        <5>1. m.prev \in Index /\ m.entries \in Seq(Entries) /\ logs[n] \in Seq(Entries)
          BY <1>1, OrderTypes, KnownNode DEF Known
        <5>2. logs'[n] = Spliced(logs[n], m.prev, m.entries)
          BY <4>1 DEF AfterAppend, Spliced
        <5>3. LastIndexOf(logs'[n]) = m.prev + Len(m.entries)
          BY <5>1, <5>2, SplicedType
        <5> QED BY <1>1, <5>1, <5>3, OrderTypes, PartType DEF End, Known
      <4> QED BY <4>1 DEF AfterAppend
    <3>4. CASE logs'[n] = logs[n]
      BY <1>1, <3>4, KnownNode
    <3>5. CASE LastIndexOf(logs'[n]) = End(Part(m))
      <4>1. i \in 0 .. LastIndexOf(logs'[n])
        BY <1>1, <3>2, <3>5, LastOf
      <4> QED BY <1>2, <1>4, <3>2, <3>5, <4>1 DEF Extends
    <3> QED BY <3>3, <3>4, <3>5
  <2> QED BY <2>1, <2>2
<1> QED BY <1>1, <1>2, <1>4 DEF Takes, Follows, Keeps

(* do_apply gives entries of the log, up to the new commit_index.             *)
LEMMA AppliesOf ==
  ASSUME Known, NEW n \in Node, NEW log \in Seq(Entries), NEW commit \in Int,
         commit <= LastIndexOf(log), DoApply(n, log, commit), NEW a \in applied', a \notin applied
  PROVE  Holds(log, a) /\ a.index <= commit /\ a.index \in 0 .. LastIndexOf(log)
<1>1. lastApplied[n] \in Int /\ lastApplied[n] >= -1 /\ LastIndexOf(log) \in Int
  BY LogType DEF Known, TypeOK, LogTypeOK, Index
<1>2. PICK i \in lastApplied[n] + 1 .. commit : a = [index |-> i, entry |-> log[i + 1]]
  BY DEF DoApply
<1>3. i \in Int /\ i >= 0 /\ i <= commit
  BY <1>1, <1>2
<1>4. a.index = i /\ a.entry = log[i + 1]
  BY <1>2
<1> QED BY <1>1, <1>3, <1>4 DEF Holds

LEMMA AcceptMoves ==
  ASSUME Known, Known', Timely, Exact, AnswersWon, ClaimsTrue, StartsCompared,
         NEW m \in msgs, OnAppendEntriesRequest(m), AppendAccept(m)
  PROVE  Moves
<1> DEFINE n == m.to
           l == m.from
<1>1. PICK log : log = AfterAppend(m, logs[n])
  OBVIOUS
<1>2. /\ HandleRequestRoutine(m) /\ m.prev <= LastIndexOf(logs[n]) /\ ~Conflicts(m, logs[n])
      /\ logs' = [logs EXCEPT ![n] = log] /\ Dump(n) /\ FollowCommit(m, log)
      /\ Reply(m, AppendResponse(m, m.term, TRUE, LastIndexOf(log)))
  BY <1>1 DEF AppendAccept
<1>3. /\ n \in Node /\ l \in Node /\ m \in AppendRequests
      /\ logs \in [Node -> Seq(Entries)] /\ logs' \in [Node -> Seq(Entries)]
  BY AppendsTo DEF Known, TypeOK, LogTypeOK
<1>4. logs'[n] = log /\ log \in Seq(Entries) /\ LastIndexOf(log) \in Int
  BY <1>2, <1>3, LastOf
<1>5. TakenFrom(m, log)
  BY <1>1, <1>2, <1>3, AcceptSource DEF Known
<1>6. TakeStep(m, log)
  BY <1>2, <1>4, <1>5, TakenStep DEF Known
<1>7. Taking(m)
  BY <1>6, TakeStepTaking
<1>8. Takes(n, l)
  BY <1>1, <1>2, <1>4, <1>7, AcceptTakes
<1>9. m.commit <= commitIndex[l] /\ commitIndex[l] \in Int /\ commitIndex[n] \in Int
  BY <1>3, <1>7, TakingKnown, KnownNode
<1>10. m.commit \in Int
  BY <1>3, MessageType DEF Known, TypeOK, AppendRequests, Index
<1>c. PICK commit : commit = LesserOf(m.commit, LastIndexOf(log))
  OBVIOUS
<1>11. /\ commit \in Int /\ commit <= m.commit /\ commit <= LastIndexOf(log)
  BY <1>4, <1>10, <1>c DEF LesserOf
<1>12. \/ commitIndex' = commitIndex /\ applied' = applied
       \/ commitIndex' = [commitIndex EXCEPT ![n] = commit] /\ DoApply(n, log, commit)
  BY <1>2, <1>c DEF FollowCommit
<1>13. commitIndex'[n] <= commitIndex[n] \/ commitIndex'[n] <= commitIndex[l]
  <2>1. CASE commitIndex' = commitIndex
    BY <1>9, <2>1
  <2>2. CASE commitIndex' = [commitIndex EXCEPT ![n] = commit]
    <3>1. commitIndex'[n] = commit
      BY <1>3, <2>2 DEF Known, TypeOK, LogTypeOK
    <3> QED BY <1>9, <1>10, <1>11, <3>1
  <2> QED BY <1>12, <2>1, <2>2
<1>14. ApplyMove
  <2> SUFFICES ASSUME NEW a \in applied', a \notin applied
               PROVE  state'[l] = "Leader" /\ Holds(logs'[l], a) /\ a.index <= commitIndex'[l]
    BY <1>3 DEF ApplyMove
  <2>1. DoApply(n, log, commit)
    BY <1>12
  <2>2. Holds(log, a) /\ a.index <= commit /\ a.index \in 0 .. LastIndexOf(log)
    BY <1>3, <1>4, <1>11, <2>1, AppliesOf
  <2>3. state'[l] = "Leader" /\ logs'[l] = logs[l] /\ commitIndex'[l] = commitIndex[l]
    BY <1>7 DEF Taking
  <2>4. Extends(logs[l], log) /\ LastIndexOf(logs[l]) \in Int
    BY <1>3, <1>4, <1>8, KnownNode DEF Takes
  <2>5. Holds(logs[l], a)
    BY <1>4, <2>2, <2>4 DEF Holds, Extends
  <2>6. a.index <= commitIndex[l]
    BY <1>4, <1>9, <1>10, <1>11, <2>2
  <2> QED BY <2>3, <2>5, <2>6
<1>15. LastIndexOf(log) <= LastIndexOf(logs'[n])
  BY <1>4
<1> QED BY <1>2, <1>7, <1>8, <1>13, <1>14, <1>15, TakingMoves
-----------------------------------------------------------------------------
(* on_append_entries_response, when the answer is of the leader's term.  It    *)
(* claims no more than the answer did, and commits what a majority claims.    *)
AnswerTaken(m) ==
  /\ m \in Answers(m.to, m.from) /\ m.to \in Node /\ m.from \in Peers(m.to)
  /\ state[m.to] = "Leader" /\ m.last \in Index
  /\ \E i \in Index : i <= m.last /\ SetPeerIndex(m, i)
  /\ msgs' = msgs \ Consumed(m)
  /\ UNCHANGED <<state, currentTerm, logs, disk, elected>>

LEMMA AnswerTakes ==
  ASSUME Known, Timely, NEW m \in msgs,
         OnAppendEntriesResponseFailed(m) \/ OnAppendEntriesResponseSuccess(m)
  PROVE  AnswerTaken(m)
<1>1. /\ m.type = "AppendResponse" /\ Deliverable(m) /\ state[m.to] = "Leader"
      /\ m.term = currentTerm[m.to] /\ Receive(m)
      /\ UNCHANGED <<state, currentTerm, logs, disk, elected>>
  BY DEF OnAppendEntriesResponseFailed, OnAppendEntriesResponseSuccess, coreVars, histVars, logVars
<1>2. m.to \in Node /\ m.from \in Peers(m.to)
  BY HistoryTypes DEF Known, ElectionInv, PeersOnly, Peers
<1>3. m.last \in Index
  BY <1>1, MessageType DEF Known, TypeOK
<1>4. m \in Answers(m.to, m.from)
  BY <1>1 DEF Answers, Deliverable, IsRequest
<1>5. \E i \in Index : i <= m.last /\ SetPeerIndex(m, i)
  <2>1. PICK last : last = LastIndexOf(logs[m.to])
    OBVIOUS
  <2>2. last \in Index /\ m.last \in Int /\ last \in Int
    BY <1>2, <1>3, <2>1, KnownNode DEF Index
  <2>3. LesserOf(m.last, last) \in Index /\ LesserOf(m.last, last) <= m.last /\ m.last <= m.last
    BY <1>3, <2>2 DEF LesserOf
  <2>4. SetPeerIndex(m, m.last) \/ SetPeerIndex(m, LesserOf(m.last, last))
    BY <2>1 DEF OnAppendEntriesResponseFailed, OnAppendEntriesResponseSuccess
  <2> QED BY <1>3, <2>3, <2>4
<1> QED BY <1>1, <1>2, <1>3, <1>4, <1>5 DEF AnswerTaken, Receive

(* A leader counts those who claim an index, itself among them.              *)
LEMMA ReplicatedAcked ==
  ASSUME Known, NEW m \in msgs, AnswerTaken(m), Replicated(m.to, m.last)
  PROVE  Ackers(m.to, m.last) \in Majorities
<1> DEFINE n == m.to
           S == {p \in Peers(n) : matchIndex'[n][p] >= m.last}
<1>1. /\ m \in Answers(n, m.from) /\ n \in Node /\ m.from \in Node /\ m.last \in Index
  BY DEF AnswerTaken, Peers
<1>2. PICK i \in Index : SetPeerIndex(m, i)
  BY DEF AnswerTaken
<1>3. \A p \in Node : p # m.from => matchIndex'[n][p] = matchIndex[n][p]
  BY <1>1, <1>2 DEF SetPeerIndex, Known, TypeOK, PeerTypeOK
<1>4. ASSUME NEW p \in S PROVE p \in Ackers(n, m.last)
  <2>1. CASE p = m.from
    <3>1. Claimed(n, p, m.last)
      BY <1>1, <2>1 DEF Claimed
    <3>2. m.last >= m.last
      BY <1>1 DEF Index
    <3> QED BY <1>1, <1>4, <3>1, <3>2 DEF Ackers
  <2>2. CASE p # m.from
    <3>1. p \in Node /\ matchIndex[n][p] >= m.last
      BY <1>3, <1>4, <2>2 DEF Peers
    <3>2. matchIndex[n][p] \in Index
      BY <1>1, <3>1 DEF Known, TypeOK, PeerTypeOK
    <3> QED BY <1>4, <3>1, <3>2 DEF Ackers, Claimed
  <2> QED BY <2>1, <2>2
<1>5. S \subseteq Node /\ n \notin S /\ IsFiniteSet(S)
  BY NodeAssumption, FS_Subset DEF Peers
<1>6. Cardinality(S \union {n}) = Cardinality(S) + 1 /\ Cardinality(S) \in Nat
  BY <1>5, FS_AddElement, FS_CardinalityType
<1>7. EnoughVotes(1 + Cardinality(S))
  BY DEF Replicated
<1>8. 1 + Cardinality(S) = Cardinality(S \union {n})
  BY <1>6
<1>9. S \union {n} \in Majorities
  BY <1>1, <1>5, <1>7, <1>8 DEF Majorities
<1>10. Ackers(n, m.last) \subseteq Node /\ n \in Ackers(n, m.last)
  BY <1>1 DEF Ackers, Peers
<1> HIDE DEF S
<1> QED BY <1>4, <1>9, <1>10, LargerMajority

LEMMA AnswerMoves ==
  ASSUME Known, Known', Exact, AnswersWon, NEW m \in msgs, AnswerTaken(m),
         \/ UNCHANGED <<commitIndex, applied>>
         \/ /\ m.last <= LastIndexOf(logs[m.to]) /\ m.last > commitIndex[m.to]
            /\ TermAt(logs[m.to], m.last) = currentTerm[m.to] /\ Replicated(m.to, m.last)
            /\ commitIndex' = [commitIndex EXCEPT ![m.to] = m.last]
            /\ DoApply(m.to, logs[m.to], m.last)
  PROVE  Moves
<1> DEFINE n == m.to
<1>1. /\ n \in Node /\ m.from \in Peers(n) /\ m \in Answers(n, m.from) /\ m.last \in Index
      /\ state[n] = "Leader" /\ UNCHANGED <<state, currentTerm, logs, disk, elected>>
      /\ msgs' \subseteq msgs
  BY DEF AnswerTaken
<1>2. PICK j \in Index : j <= m.last /\ SetPeerIndex(m, j)
  BY DEF AnswerTaken
<1>t. /\ m.last \in Int /\ m.last >= -1 /\ j \in Int
      /\ \A k \in Node : commitIndex[k] \in Int /\ commitIndex[k] >= -1 /\ currentTerm[k] \in Nat
  BY <1>1, KnownNode DEF Index
<1>3. \A k \in Node : commitIndex'[k] = commitIndex[k] \/ (k = n /\ commitIndex'[k] = m.last)
  BY DEF Known, TypeOK, LogTypeOK
<1>4. \A k \in Node : commitIndex'[k] >= commitIndex[k] /\ commitIndex'[k] \in Int
  <2>1. UNCHANGED commitIndex \/ m.last > commitIndex[n]
    OBVIOUS
  <2> QED BY <1>t, <1>3, <2>1
<1>5. LogMove(n)
  BY <1>1 DEF LogMove
<1>6. LeaderMove
  BY <1>1, <1>4 DEF LeaderMove, Leads
<1>7. CurrentRequests' \subseteq CurrentRequests
  BY <1>1 DEF CurrentRequests, AppendRequests
<1>8. ClaimMove
  <2> SUFFICES ASSUME NEW k \in Node, NEW p \in Peers(k), NEW i \in Index, Claimed(k, p, i)'
               PROVE  \E i0 \in Index : Claimed(k, p, i0) /\ i <= i0
    BY DEF ClaimMove
  <2>i. i <= i
    BY DEF Index
  <2>1. CASE i = nextIndex'[k][p] - 1 \/ i = matchIndex'[k][p]
    <3>1. CASE k = n /\ p = m.from
      <4>1. nextIndex'[n][m.from] = j + 1 /\ matchIndex'[n][m.from] = j
        BY <1>1, <1>2 DEF SetPeerIndex, Known, TypeOK, PeerTypeOK, Peers
      <4>2. i = j
        BY <1>t, <2>1, <3>1, <4>1
      <4>3. Claimed(n, m.from, m.last)
        BY <1>1 DEF Claimed
      <4> QED BY <1>1, <1>2, <3>1, <4>2, <4>3
    <3>2. CASE ~(k = n /\ p = m.from)
      <4>1. nextIndex'[k][p] = nextIndex[k][p] /\ matchIndex'[k][p] = matchIndex[k][p]
        BY <1>1, <1>2, <3>2 DEF SetPeerIndex, Known, TypeOK, PeerTypeOK, Peers
      <4> QED BY <2>i, <2>1, <4>1 DEF Claimed
    <3> QED BY <3>1, <3>2
  <2>2. Asked(k, p)' \subseteq Asked(k, p) /\ Answers(k, p)' \subseteq Answers(k, p)
    BY <1>1, <1>7 DEF Asked, Answers
  <2> QED BY <2>i, <2>1, <2>2 DEF Claimed
<1>9. CommitMove /\ ApplyMove
  <2>1. CASE UNCHANGED <<commitIndex, applied>>
    <3>1. \A k \in Node : commitIndex'[k] <= commitIndex[k] /\ currentTerm'[k] >= currentTerm[k]
      BY <1>1, <1>t, <2>1
    <3> QED BY <2>1, <3>1 DEF CommitMove, ApplyMove
  <2>2. CASE /\ m.last <= LastIndexOf(logs[n]) /\ m.last > commitIndex[n]
             /\ TermAt(logs[n], m.last) = currentTerm[n] /\ Replicated(n, m.last)
             /\ commitIndex' = [commitIndex EXCEPT ![n] = m.last]
             /\ DoApply(n, logs[n], m.last)
    <3>1. commitIndex'[n] = m.last
      BY <1>1, <2>2 DEF Known, TypeOK, LogTypeOK
    <3>2. m.last \in 0 .. LastIndexOf(logs[n]) /\ logs[n] \in Seq(Entries)
      BY <1>1, <1>t, <2>2, KnownNode
    <3>3. Open(n, m.last)
      BY <1>1, <2>2, <3>2 DEF Open
    <3>4. Ackers(n, m.last) \in Majorities
      BY <2>2, ReplicatedAcked
    <3>5. Commits(n, m.last)
      BY <1>1, <3>3, <3>4 DEF Commits
    <3>6. CommitMove
      <4> SUFFICES ASSUME NEW k \in Node
                   PROVE  \/ /\ commitIndex'[k] <= commitIndex[k]
                             /\ currentTerm'[k] >= currentTerm[k]
                          \/ currentTerm'[k] = currentTerm[k] /\ Commits(k, commitIndex'[k])
        BY DEF CommitMove
      <4>1. CASE k = n
        BY <1>1, <3>1, <3>5, <4>1
      <4>2. CASE k # n
        BY <1>1, <1>3, <1>t, <4>2
      <4> QED BY <4>1, <4>2
    <3>7. ApplyMove
      <4> SUFFICES ASSUME NEW a \in applied', a \notin applied
                   PROVE  state'[n] = "Leader" /\ Holds(logs'[n], a) /\ a.index <= commitIndex'[n]
        BY <1>1 DEF ApplyMove
      <4>1. Holds(logs[n], a) /\ a.index <= m.last
        BY <1>1, <1>t, <2>2, <3>2, AppliesOf
      <4> QED BY <1>1, <3>1, <4>1
    <3> QED BY <3>6, <3>7
  <2> QED BY <2>1, <2>2
<1>10. Exact'
  <2> SUFFICES ASSUME NEW a \in CurrentRequests'
               PROVE  /\ a \in CurrentRequests /\ logs' = logs
                      /\ a.commit <= commitIndex'[a.from]
    BY DEF Exact, Shows
  <2>1. a \in CurrentRequests /\ a.from \in Node
    BY <1>7, KnownSenders DEF SendersKnown
  <2>2. a.commit <= commitIndex[a.from]
    BY <2>1 DEF Exact
  <2>3. a.commit \in Int
    BY <2>1, MessageType DEF CurrentRequests, AppendRequests, Known, TypeOK, Index
  <2> QED BY <1>1, <1>4, <1>t, <2>1, <2>2, <2>3
<1>11. AnswersWon'
  BY <1>1 DEF AnswersWon, Won
<1> QED BY <1>5, <1>6, <1>8, <1>9, <1>10, <1>11 DEF Moves

LEMMA ResponseMoves ==
  ASSUME Known, Known', Timely, Exact, AnswersWon, NEW m \in msgs,
         OnAppendEntriesResponseFailed(m) \/ OnAppendEntriesResponseSuccess(m)
  PROVE  Moves
<1>1. AnswerTaken(m)
  BY AnswerTakes
<1>2. \/ UNCHANGED <<commitIndex, applied>>
      \/ /\ m.last <= LastIndexOf(logs[m.to]) /\ m.last > commitIndex[m.to]
         /\ TermAt(logs[m.to], m.last) = currentTerm[m.to] /\ Replicated(m.to, m.last)
         /\ commitIndex' = [commitIndex EXCEPT ![m.to] = m.last]
         /\ DoApply(m.to, logs[m.to], m.last)
  BY DEF OnAppendEntriesResponseFailed, OnAppendEntriesResponseSuccess, logVars
<1> QED BY <1>1, <1>2, AnswerMoves
-----------------------------------------------------------------------------
LEMMA SenderMoves ==
  ASSUME Known, Known', Exact, AnswersWon, ClaimsTrue, CommitFixed, NEW n \in Node,
         OnTimerHeartbeat(n) \/ DoLog(n)
  PROVE  Moves
<1>1. UNCHANGED <<commitIndex, applied, nextIndex, matchIndex, elected>>
  BY DEF OnTimerHeartbeat, DoLog, logVars, peerVars
<1>2. CASE OnTimerHeartbeat(n)
  <2>1. /\ state[n] = "Leader" /\ DoAppendEntries(n, logs[n])
        /\ UNCHANGED <<state, currentTerm, logs, disk>>
    BY <1>2 DEF OnTimerHeartbeat, coreVars, logVars
  <2>2. SendStep(n, logs[n])
    BY <2>1, LogTypes DEF SendStep, Known
  <2> QED BY <1>1, <2>2, SendMoves
<1>3. CASE DoLog(n)
  <2>1. SendStep(n, Append(logs[n], Entry(n)))
    BY <1>3, DoLogSends DEF Known
  <2> QED BY <1>1, <2>1, SendMoves
<1> QED BY <1>2, <1>3

LEMMA MovesNext ==
  ASSUME Known, Known', Timely, Exact, AnswersWon, ClaimsTrue, CommitFixed, StartsCompared, Next
  PROVE  Moves
<1>1. ASSUME NEW n \in Node, Timer(n) \/ DoLog(n) \/ Fault(n) PROVE Moves
  <2>1. CASE OnTimerElectionFail(n)
    <3>1. /\ UNCHANGED <<currentTerm, logs, commitIndex, applied, disk, grants, msgs>>
          /\ state[n] = "Candidate"
          /\ BecomeLeader(n) \/ UNCHANGED <<state, elected, nextIndex, matchIndex>>
      BY <2>1, Zenon DEF OnTimerElectionFail, logVars, peerVars
    <3> QED BY <3>1, WinMoves
  <2>2. CASE OnTimerElection(n)
    BY <2>2, ElectionQuiet, QuietMoves
  <2>3. CASE OnTimerHeartbeat(n) \/ DoLog(n)
    BY <2>3, SenderMoves
  <2>4. CASE Fault(n)
    BY <2>4, FaultQuiet, QuietMoves
  <2> QED BY <1>1, <2>1, <2>2, <2>3, <2>4 DEF Timer
<1>2. ASSUME NEW m \in msgs, Handle(m) PROVE Moves
  <2>n. m.to \in Node
    BY HistoryTypes DEF Known
  <2>1. CASE OnVoteResponseCounted(m)
    <3>1. /\ UNCHANGED <<currentTerm, logs, commitIndex, applied, disk, grants>> /\ Receive(m)
          /\ state[m.to] = "Candidate"
          /\ BecomeLeader(m.to) \/ UNCHANGED <<state, elected, nextIndex, matchIndex>>
      BY <2>1, Zenon DEF OnVoteResponseCounted, logVars, peerVars
    <3>2. msgs' \subseteq msgs
      BY <3>1 DEF Receive
    <3> QED BY <2>n, <3>1, <3>2, WinMoves
  <2>2. CASE OnVoteRequest(m)
    BY <2>n, <2>2, VoteRequestQuiet, QuietMoves
  <2>3. CASE OnVoteResponseNewer(m) \/ OnAppendEntriesResponseNewer(m)
    BY <2>n, <2>3, NewerQuiet, QuietMoves
  <2>4. CASE OnAppendEntriesResponseFailed(m) \/ OnAppendEntriesResponseSuccess(m)
    BY <2>4, ResponseMoves
  <2>5. CASE OnAppendEntriesRequest(m)
    <3>1. CASE AppendOldTerm(m) \/ AppendOutOfOrder(m)
      BY <2>n, <2>5, <3>1, RefusedQuiet, QuietMoves
    <3>2. CASE AppendMissing(m)
      BY <2>5, <3>2, MissingMoves
    <3>3. CASE AppendConflict(m)
      BY <2>5, <3>3, ConflictMoves
    <3>4. CASE AppendAccept(m)
      BY <2>5, <3>4, AcceptMoves
    <3> QED BY <2>5, <3>1, <3>2, <3>3, <3>4 DEF OnAppendEntriesRequest
  <2> QED BY <1>2, <2>1, <2>2, <2>3, <2>4, <2>5 DEF Handle
<1> QED BY <1>1, <1>2 DEF Next
-----------------------------------------------------------------------------
LEMMA CommitInit == Init => CommitInv
<1> SUFFICES ASSUME Init PROVE CommitInv
  OBVIOUS
<1>1. /\ \A n \in Node : /\ logs[n] = <<>> /\ state[n] = "Follower" /\ commitIndex[n] = -1
                         /\ currentTerm[n] = 0
      /\ msgs = {} /\ grants = {} /\ applied = {} /\ faults.election = 0
  BY DEF Init, Start
<1>2. LastIndexOf(<<>>) = -1
  BY DEF LastIndexOf
<1>3. Sorted
  BY <1>1, <1>2 DEF Sorted, SortedLog
<1>4. GrantsAsked /\ VotesAsked /\ Exact /\ AnswersWon /\ TermsCounted
  BY <1>1 DEF GrantsAsked, VotesAsked, Exact, AnswersWon, TermsCounted, CurrentRequests,
     AppendRequests
<1>5. ClaimsTrue /\ OpenSpread /\ CommitFixed /\ AppliedFixed
  BY <1>1 DEF ClaimsTrue, OpenSpread, Open, CommitFixed, AppliedFixed
<1> QED BY <1>3, <1>4, <1>5 DEF CommitInv

LEMMA CommitStutter ==
  ASSUME CommitInv, UNCHANGED vars
  PROVE  CommitInv'
<1>1. /\ logs' = logs /\ state' = state /\ commitIndex' = commitIndex /\ currentTerm' = currentTerm
      /\ msgs' = msgs /\ grants' = grants /\ applied' = applied /\ faults' = faults
      /\ disk' = disk /\ nextIndex' = nextIndex /\ matchIndex' = matchIndex /\ elected' = elected
  BY DEF vars
<1>2. CurrentRequests' = CurrentRequests
  BY <1>1 DEF CurrentRequests, AppendRequests
<1>3. Sorted' /\ GrantsAsked' /\ VotesAsked' /\ AnswersWon' /\ TermsCounted'
  BY <1>1 DEF CommitInv, Sorted, GrantsAsked, VotesAsked, AnswersWon, TermsCounted, Won, WonIn
<1>4. Exact'
  BY <1>1, <1>2 DEF CommitInv, Exact, Shows
<1>5. \A n, p, i : Claimed(n, p, i)' = Claimed(n, p, i)
  BY <1>1, <1>2 DEF Claimed, Asked, Answers
<1>6. ClaimsTrue'
  BY <1>1, <1>5 DEF CommitInv, ClaimsTrue, ClaimTrue, Knows
<1>7. \A x, A : Spread(x, A)' = Spread(x, A)
  BY <1>1 DEF Spread, LogsHave, LeadersHave, Unwon, Chosen, Shut, Runs
<1>8. \A x : Fixed(x)' = Fixed(x)
  BY <1>1, <1>7 DEF Fixed, Won, WonIn
<1>9. OpenSpread'
  <2>1. \A n, j : Ackers(n, j)' = Ackers(n, j) /\ Open(n, j)' = Open(n, j)
    BY <1>1, <1>5 DEF Ackers, Open
  <2>2. \A A, t : Alive(A, t)' = Alive(A, t)
    BY <1>1 DEF Alive
  <2> QED BY <1>1, <1>7, <2>1, <2>2 DEF CommitInv, OpenSpread
<1>10. CommitFixed' /\ AppliedFixed'
  BY <1>1, <1>8 DEF CommitInv, CommitFixed, AppliedFixed
<1> QED BY <1>3, <1>4, <1>6, <1>9, <1>10 DEF CommitInv

LEMMA CommitNext ==
  ASSUME Known, Known', Timely, StartsCompared, CommitInv, [Next]_vars
  PROVE  CommitInv'
<1>1. CASE UNCHANGED vars
  BY <1>1, CommitStutter
<1>2. CASE Next
  <2>1. /\ Sorted /\ GrantsAsked /\ VotesAsked /\ Exact /\ AnswersWon /\ TermsCounted
        /\ ClaimsTrue /\ OpenSpread /\ CommitFixed /\ AppliedFixed
    BY DEF CommitInv
  <2>2. Voting
    BY <1>2, <2>1, VotingNext
  <2>3. Moves
    BY <1>2, <2>1, MovesNext
  <2>4. CommitStep
    BY <2>2, <2>3 DEF CommitStep, Voting, Moves
  <2>5. GrantsAsked' /\ VotesAsked' /\ TermsCounted' /\ Exact' /\ AnswersWon'
    BY <2>2, <2>3 DEF Voting, Moves
  <2>6. Sorted'
    <3>1. PICK k : LogMove(k)
      BY <2>4 DEF CommitStep
    <3>2. DiskGrows
      BY <2>4 DEF CommitStep
    <3> QED BY <2>1, <3>1, <3>2, SortedStays
  <2>7. CommitFixed'
    BY <2>1, <2>4, CommitFixedStays
  <2>8. AppliedFixed'
    BY <2>1, <2>4, <2>7, AppliedFixedStays
  <2>9. ClaimsTrue'
    BY <2>1, <2>4, ClaimsTrueStays
  <2>10. OpenSpread'
    BY <2>1, <2>4, OpenSpreadStays
  <2> QED BY <2>5, <2>6, <2>7, <2>8, <2>9, <2>10 DEF CommitInv
<1> QED BY <1>1, <1>2
-----------------------------------------------------------------------------
(* What follows.  Whatever is safe is held by a majority: by those who have    *)
(* shut out the next term, which nobody has reached.                        *)
LEMMA FixedHeld ==
  ASSUME Known, TermsCounted, NEW x, Fixed(x)
  PROVE  \E Q \in Majorities : \A q \in Q : q \in Node /\ Holds(logs[q], x)
<1> DEFINE T == faults.election + 1
<1>1. T \in Nat /\ \A n \in Node : disk[n].term < T
  <2>1. faults.election \in Nat
    BY DEF Known, TypeOK, HistoryTypeOK
  <2>2. ASSUME NEW n \in Node PROVE disk[n].term < T
    <3>1. /\ disk[n].term \in Nat /\ currentTerm[n] \in Nat /\ disk[n].term <= currentTerm[n]
          /\ currentTerm[n] <= faults.election
      BY KnownNode DEF TermsCounted
    <3> QED BY <2>1, <3>1
  <2> QED BY <2>1, <2>2
<1> HIDE DEF T
<1>2. \A n, t : Won(n, t) /\ t \in Nat => t < T
  <2> SUFFICES ASSUME NEW n, NEW t \in Nat, Won(n, t) PROVE t < T
    OBVIOUS
  <2>1. PICK V \in Majorities : \A q \in V : q \in Node /\ disk[q].term >= t
    BY WonVoters
  <2>2. PICK q \in V : TRUE
    BY MajoritiesMeet
  <2>3. q \in Node /\ disk[q].term \in Nat /\ disk[q].term >= t /\ disk[q].term < T
    BY <1>1, <2>1, KnownNode
  <2> QED BY <1>1, <2>3
<1>3. x \in Points /\ x.entry.term \in Nat /\ T > x.entry.term
  <2>1. x \in Points /\ x.entry.term \in Nat /\ Won(x.entry.owner, x.entry.term)
    BY PointTypes DEF Fixed
  <2> QED BY <1>1, <1>2, <2>1
<1>4. Unwon(T)
  <2> SUFFICES ASSUME NEW e \in elected, e.term = T PROVE FALSE
    BY DEF Unwon
  <2>1. Won(e.node, T)
    BY DEF Won, WonIn
  <2> QED BY <1>1, <1>2, <2>1
<1>5. PICK Q \in Majorities : \A q \in Q : Shut(q, x, T)
  BY <1>1, <1>3, <1>4, FixedChosen DEF Chosen
<1>6. ASSUME NEW q \in Q PROVE q \in Node /\ Holds(logs[q], x)
  <2>1. q \in Node
    BY DEF Majorities
  <2>2. disk[q].term <= T
    BY <1>1, <2>1, KnownNode
  <2> QED BY <1>5, <2>1, <2>2 DEF Shut
<1> QED BY <1>6

(* An applied entry is in every log that holds some safe one, and not above. *)
Backs(x, a) ==
  /\ Fixed(x) /\ x \in Points /\ a.index <= x.index
  /\ \A n \in Node : Holds(logs[n], x) => Holds(logs[n], a)

LEMMA AppliedBacked ==
  ASSUME AppliedFixed, NEW a \in applied
  PROVE  \E x : Backs(x, a)
BY DEF AppliedFixed, Backs, Fixed

LEMMA CommitsSafe ==
  ASSUME Known, CommitInv
  PROVE  StateMachineSafety /\ LeaderCompleteness /\ AppliedOnMajority
<1>0. TermsCounted /\ AppliedFixed
  BY DEF CommitInv
<1>1. ASSUME NEW a \in applied
      PROVE  \E Q \in Majorities : \A q \in Q : q \in Node /\ Holds(logs[q], a)
  <2>1. PICK x : Backs(x, a)
    BY <1>0, AppliedBacked
  <2>2. PICK Q \in Majorities : \A q \in Q : q \in Node /\ Holds(logs[q], x)
    BY <1>0, <2>1, FixedHeld DEF Backs
  <2> QED BY <2>1, <2>2 DEF Backs
<1>2. StateMachineSafety
  <2> SUFFICES ASSUME NEW a \in applied, NEW b \in applied, a.index = b.index
               PROVE  a.entry = b.entry
    BY DEF StateMachineSafety
  <2>1. PICK Q \in Majorities : \A q \in Q : q \in Node /\ Holds(logs[q], a)
    BY <1>1
  <2>2. PICK R \in Majorities : \A q \in R : q \in Node /\ Holds(logs[q], b)
    BY <1>1
  <2>3. PICK q \in Node : q \in Q /\ q \in R
    BY MajoritiesMeet
  <2> QED BY <2>1, <2>2, <2>3 DEF Holds
<1>3. LeaderCompleteness
  <2> SUFFICES ASSUME NEW n \in Node, state[n] = "Leader",
                      \A e \in elected : e.term <= currentTerm[n], NEW a \in applied
               PROVE  Holds(logs[n], a)
    BY DEF LeaderCompleteness
  <2>1. PICK x : Backs(x, a)
    BY <1>0, AppliedBacked
  <2>2. LeadersHave(x) /\ Won(x.entry.owner, x.entry.term) /\ x.entry.term \in Nat
    BY <2>1, PointTypes DEF Backs, Fixed, Spread
  <2>3. currentTerm[n] >= x.entry.term
    <3>1. x.entry.term <= currentTerm[n] /\ currentTerm[n] \in Nat
      BY <2>2, KnownNode DEF Won, WonIn
    <3> QED BY <2>2, <3>1
  <2>4. Holds(logs[n], x)
    BY <2>2, <2>3 DEF LeadersHave
  <2> QED BY <2>1, <2>4 DEF Backs
<1>4. AppliedOnMajority
  <2> SUFFICES ASSUME NEW a \in applied
               PROVE  EnoughVotes(Cardinality({n \in Node : Holds(disk[n].logs, a)}))
    BY DEF AppliedOnMajority
  <2> DEFINE R == {n \in Node : Holds(disk[n].logs, a)}
  <2>1. PICK Q \in Majorities : \A q \in Q : q \in Node /\ Holds(logs[q], a)
    BY <1>1
  <2>2. Q \subseteq R /\ R \in SUBSET Node
    BY <2>1, KnownNode
  <2> HIDE DEF R
  <2>3. R \in Majorities
    BY <2>2, LargerMajority
  <2>4. EnoughVotes(Cardinality(R))
    BY <2>3 DEF Majorities
  <2> QED BY <2>4 DEF R
<1> QED BY <1>2, <1>3, <1>4

LEMMA MatchesTrue ==
  ASSUME Known, CommitInv
  PROVE  MatchIndexTrue
<1> SUFFICES ASSUME NEW n \in Node, state[n] = "Leader", NEW p \in Peers(n),
                    currentTerm[p] = currentTerm[n],
                    NEW i \in commitIndex[n] + 1 .. LesserOf(matchIndex[n][p], LastIndexOf(logs[n]))
             PROVE  Holds(logs[p], [index |-> i, entry |-> logs[n][i + 1]])
  BY DEF MatchIndexTrue
<1>1. p \in Node /\ matchIndex[n][p] \in Index
  BY DEF Peers, Known, TypeOK, PeerTypeOK
<1>2. /\ commitIndex[n] \in Int /\ commitIndex[n] >= -1 /\ LastIndexOf(logs[n]) \in Int
      /\ matchIndex[n][p] \in Int /\ currentTerm[n] \in Nat /\ disk[p].term \in Nat
      /\ disk[p].term <= currentTerm[p]
  BY <1>1, KnownNode DEF Index
<1>3. i \in Nat /\ i > commitIndex[n] /\ i <= matchIndex[n][p] /\ matchIndex[n][p] > commitIndex[n]
  BY <1>2 DEF LesserOf
<1>4. ClaimTrue(n, p, matchIndex[n][p])
  BY <1>1 DEF CommitInv, ClaimsTrue, Claimed
<1>5. Knows(p, n, matchIndex[n][p])
  BY <1>3, <1>4 DEF ClaimTrue
<1>6. disk[p].term = currentTerm[n]
  BY <1>2, <1>5 DEF Knows
<1>7. SameUpTo(logs[p], logs[n], matchIndex[n][p])
  BY <1>5, <1>6 DEF Knows
<1>8. i <= LastIndexOf(logs[p]) /\ logs[p][i + 1] = logs[n][i + 1]
  <2>1. LastIndexOf(logs[p]) \in Int /\ i \in 0 .. matchIndex[n][p]
    BY <1>1, <1>2, <1>3, KnownNode
  <2> QED BY <1>2, <1>3, <1>7, <2>1 DEF SameUpTo
<1> QED BY <1>8 DEF Holds
-----------------------------------------------------------------------------
LEMMA StartsFirst == Timely /\ StartsCompared => FirstCompared
BY DEF StartsCompared, FirstCompared, CurrentRequests, AppendRequests, Deliverable, IsRequest

LEMMA KnownNext ==
  ASSUME Known, Timely, MaxCut = 0, StartsCompared, TypeOK', ElectionInv',
         LeadersWon', RequestsByWinners', ElectionSafety', [Next]_vars
  PROVE  Known'
<1>1. /\ TypeOK /\ ElectionInv /\ LeadersWon /\ RequestsByWinners /\ ElectionSafety
      /\ CountsFresh /\ LogInv /\ OrderInv
  BY DEF Known
<1>2. CountsFresh'
  BY <1>1, FreshStep
<1>3. LogInv'
  BY <1>1, StartsFirst, LogNext
<1>4. OrderInv'
  BY <1>1, <1>3, OrderStep
<1> QED BY <1>2, <1>3, <1>4 DEF Known

LEMMA KnownCommits ==
  ASSUME Timely, MaxCut = 0
  PROVE  Spec /\ []StartsCompared => [](Known /\ CommitInv)
<1>1. Init => CountsFresh /\ LogInv /\ OrderInv /\ CommitInv
  BY LogInit, OrderInit, CommitInit DEF Init, Start, CountsFresh
<1>2. /\ TypeOK /\ ElectionInv /\ LeadersWon /\ RequestsByWinners /\ ElectionSafety
      /\ CountsFresh /\ LogInv /\ OrderInv
      => Known
  BY DEF Known
<1>3. /\ Known /\ StartsCompared /\ TypeOK' /\ ElectionInv' /\ LeadersWon'
      /\ RequestsByWinners' /\ ElectionSafety' /\ [Next]_vars
      => Known'
  BY KnownNext
<1>4. Known /\ Known' /\ StartsCompared /\ CommitInv /\ [Next]_vars => CommitInv'
  BY CommitNext
<1> QED BY <1>1, <1>2, <1>3, <1>4, TypeCorrect, ElectionInvariant, RequestsWon,
           TimelyElectionsSafe, PTL DEF Spec

LEMMA CommitsSafeNext == (Known /\ CommitInv => StateMachineSafety)'
BY CommitsSafe, PTL

(* No two state machines are given different entries for an index, in every    *)
(* behaviour without late RPCs and cut links in which the first entries fit.  *)
THEOREM StateMachinesAgree ==
  ASSUME Timely, MaxCut = 0
  PROVE  Spec /\ []StartsCompared => []StateMachineSafety
BY CommitsSafe, KnownCommits, PTL

(* The leader of the latest term has whatever has been applied.               *)
THEOREM LeadersComplete ==
  ASSUME Timely, MaxCut = 0
  PROVE  Spec /\ []StartsCompared => []LeaderCompleteness
BY CommitsSafe, KnownCommits, PTL

(* What has been applied is on the disks of a majority, so that no crash and   *)
(* no loss of a minority takes it away.                                     *)
THEOREM AppliedKept ==
  ASSUME Timely, MaxCut = 0
  PROVE  Spec /\ []StartsCompared => []AppliedOnMajority
BY CommitsSafe, KnownCommits, PTL

(* What match_index counts towards a commit, the peer has.                    *)
THEOREM MatchesHeld ==
  ASSUME Timely, MaxCut = 0
  PROVE  Spec /\ []StartsCompared => []MatchIndexTrue
BY MatchesTrue, KnownCommits, PTL
-----------------------------------------------------------------------------
(* What a step does to commit_index and to what has been applied: nothing; or  *)
(* the process dies; or do_apply runs with a commit index that is not lower,   *)
(* unless the log has been cut off below the old one.                        *)
Forgets(n) ==
  /\ n \in Node /\ state'[n] = "NotRunning" /\ applied' = applied
  /\ commitIndex' = [commitIndex EXCEPT ![n] = -1]
  /\ lastApplied' = [lastApplied EXCEPT ![n] = -1]
CommitsTo(n, log, c) ==
  /\ n \in Node /\ log \in Seq(Entries) /\ c \in Int /\ c <= LastIndexOf(log)
  /\ commitIndex' = [commitIndex EXCEPT ![n] = c] /\ DoApply(n, log, c)
  /\ c >= commitIndex[n] \/ commitIndex[n] > LastIndexOf(logs[n])
CommitCases ==
  \/ UNCHANGED <<commitIndex, lastApplied, applied>>
  \/ \E n : Forgets(n)
  \/ \E n, log, c : CommitsTo(n, log, c)

LEMMA AcceptCommits ==
  ASSUME Known, Known', Timely, Exact,
         NEW m \in msgs, OnAppendEntriesRequest(m), AppendAccept(m)
  PROVE  CommitCases
<1> DEFINE n == m.to
<1>1. PICK log : log = AfterAppend(m, logs[n])
  OBVIOUS
<1>2. /\ HandleRequestRoutine(m) /\ logs' = [logs EXCEPT ![n] = log]
      /\ Dump(n) /\ FollowCommit(m, log) /\ m.prev <= LastIndexOf(logs[n])
      /\ ~Conflicts(m, logs[n]) /\ Reply(m, AppendResponse(m, m.term, TRUE, LastIndexOf(log)))
  BY <1>1 DEF AppendAccept
<1>3. /\ n \in Node /\ m \in AppendRequests
      /\ logs \in [Node -> Seq(Entries)] /\ logs' \in [Node -> Seq(Entries)]
  BY AppendsTo DEF Known, TypeOK, LogTypeOK
<1>4. /\ logs'[n] = log /\ log \in Seq(Entries) /\ LastIndexOf(log) \in Int
      /\ LastIndexOf(logs[n]) \in Int /\ commitIndex[n] \in Int
  BY <1>2, <1>3, LastOf, KnownNode
<1>5. TakenFrom(m, log)
  BY <1>1, <1>2, <1>3, AcceptSource DEF Known
<1>6. TakeStep(m, log)
  BY <1>2, <1>4, <1>5, TakenStep DEF Known
<1>7. Taking(m)
  BY <1>6, TakeStepTaking
<1>8. m \in CurrentRequests /\ m.commit <= End(Part(m))
  BY <1>7 DEF Taking, Exact
<1>9. m.commit \in Int
  BY <1>3, MessageType DEF Known, TypeOK, AppendRequests, Index
<1>10. log = logs[n] \/ LastIndexOf(log) = End(Part(m))
  <2>1. CASE m.prev >= BaseIndexOf(logs[n])
    <3>1. m.prev \in Index /\ m.entries \in Seq(Entries) /\ logs[n] \in Seq(Entries)
      BY <1>3, <1>8, OrderTypes DEF Known
    <3>2. log = Spliced(logs[n], m.prev, m.entries)
      BY <1>1, <2>1 DEF AfterAppend, Spliced
    <3>3. LastIndexOf(log) = m.prev + Len(m.entries)
      BY <1>2, <3>1, <3>2, SplicedType
    <3> QED BY <1>8, <3>1, <3>3, OrderTypes, PartType DEF End, Known
  <2> QED BY <1>1, <2>1 DEF AfterAppend
<1>c. PICK c : c = LesserOf(m.commit, LastIndexOf(log))
  OBVIOUS
<1>11. c \in Int /\ c <= LastIndexOf(log) /\ (c = m.commit \/ c = LastIndexOf(log))
       /\ (m.commit <= LastIndexOf(log) => c = m.commit)
  BY <1>4, <1>9, <1>c DEF LesserOf
<1>12. CASE m.commit > commitIndex[n]
  <2>1. commitIndex' = [commitIndex EXCEPT ![n] = c] /\ DoApply(n, log, c)
    BY <1>2, <1>12, <1>c DEF FollowCommit
  <2>2. c >= commitIndex[n] \/ commitIndex[n] > LastIndexOf(logs[n])
    <3>1. CASE log = logs[n]
      BY <1>4, <1>9, <1>11, <1>12, <3>1
    <3>2. CASE LastIndexOf(log) = End(Part(m))
      BY <1>4, <1>8, <1>9, <1>11, <1>12, <3>2
    <3> QED BY <1>10, <3>1, <3>2
  <2>3. CommitsTo(n, log, c)
    BY <1>3, <1>4, <1>11, <2>1, <2>2 DEF CommitsTo
  <2> QED BY <2>3 DEF CommitCases
<1>13. CASE ~(m.commit > commitIndex[n])
  BY <1>2, <1>13 DEF FollowCommit, CommitCases
<1> QED BY <1>12, <1>13

LEMMA AnswerCommits ==
  ASSUME Known, NEW m \in msgs, OnAppendEntriesResponseSuccess(m)
  PROVE  CommitCases
<1> DEFINE n == m.to
<1>1. \/ UNCHANGED <<commitIndex, lastApplied, applied>>
      \/ /\ m.last <= LastIndexOf(logs[n]) /\ m.last > commitIndex[n]
         /\ commitIndex' = [commitIndex EXCEPT ![n] = m.last]
         /\ DoApply(n, logs[n], m.last)
  BY DEF OnAppendEntriesResponseSuccess
<1>2. n \in Node /\ m.type = "AppendResponse"
  BY HistoryTypes DEF OnAppendEntriesResponseSuccess, Known
<1>3. m.last \in Int
  BY <1>2, MessageType DEF Known, TypeOK, Index
<1>4. logs[n] \in Seq(Entries) /\ commitIndex[n] \in Int
  BY <1>2, KnownNode
<1> QED BY <1>1, <1>2, <1>3, <1>4 DEF CommitCases, CommitsTo

LEMMA CommitCasesNext ==
  ASSUME Known, Known', Timely, Exact, Next
  PROVE  CommitCases
<1>1. ASSUME NEW n \in Node, Timer(n) \/ DoLog(n) \/ Fault(n) PROVE CommitCases
  <2>1. CASE Timer(n)
    BY <2>1 DEF Timer, OnTimerElection, OnTimerElectionFail, OnTimerHeartbeat, logVars, CommitCases
  <2>2. CASE DoLog(n)
    BY <2>2 DEF DoLog, CommitCases
  <2>3. CASE Crash(n)
    <3>1. Forgets(n)
      BY <2>3 DEF Crash, Forgets, Known, TypeOK, CoreTypeOK
    <3> QED BY <3>1 DEF CommitCases
  <2>4. CASE Fault(n) /\ ~Crash(n)
    BY <2>4 DEF Fault, Restart, Pause, Resume, DisableSend, EnableSend, logVars, CommitCases
  <2> QED BY <1>1, <2>1, <2>2, <2>3, <2>4
<1>2. ASSUME NEW m \in msgs, Handle(m) PROVE CommitCases
  <2>1. CASE OnAppendEntriesRequest(m)
    <3>1. CASE AppendAccept(m)
      BY <2>1, <3>1, AcceptCommits
    <3>2. CASE AppendOldTerm(m) \/ AppendOutOfOrder(m) \/ AppendMissing(m) \/ AppendConflict(m)
      BY <3>2 DEF AppendOldTerm, AppendOutOfOrder, AppendMissing, AppendConflict, logVars, CommitCases
    <3> QED BY <2>1, <3>1, <3>2 DEF OnAppendEntriesRequest
  <2>2. CASE OnAppendEntriesResponseSuccess(m)
    BY <2>2, AnswerCommits
  <2>3. CASE OnVoteRequest(m)
    BY <2>3 DEF OnVoteRequest, logVars, CommitCases
  <2>4. CASE \/ OnVoteResponseNewer(m) \/ OnVoteResponseCounted(m)
             \/ OnAppendEntriesResponseNewer(m) \/ OnAppendEntriesResponseFailed(m)
    BY <2>4 DEF OnVoteResponseNewer, OnVoteResponseCounted, OnAppendEntriesResponseNewer,
       OnAppendEntriesResponseFailed, logVars, CommitCases
  <2> QED BY <1>2, <2>1, <2>2, <2>3, <2>4 DEF Handle
<1> QED BY <1>1, <1>2 DEF Next

LEMMA CommitKept ==
  ASSUME Known, Known', Timely, CommitInv, Next
  PROVE  \A n \in Node : \/ commitIndex'[n] >= commitIndex[n] \/ state'[n] = "NotRunning"
                         \/ commitIndex[n] > LastIndexOf(logs[n])
<1> SUFFICES ASSUME NEW n \in Node
             PROVE  \/ commitIndex'[n] >= commitIndex[n] \/ state'[n] = "NotRunning"
                    \/ commitIndex[n] > LastIndexOf(logs[n])
  OBVIOUS
<1>1. CommitCases
  BY CommitCasesNext DEF CommitInv
<1>2. commitIndex[n] \in Int /\ commitIndex \in [Node -> Index]
  BY KnownNode DEF Known, TypeOK, LogTypeOK
<1>3. CASE \E k : Forgets(k)
  BY <1>2, <1>3 DEF Forgets
<1>4. CASE \E k, log, c : CommitsTo(k, log, c)
  BY <1>2, <1>4 DEF CommitsTo
<1> QED BY <1>1, <1>2, <1>3, <1>4 DEF CommitCases

(* commit_index moves back only with a crash, or to the end of a log that was  *)
(* cut off below it.                                                        *)
THEOREM CommitsMoveOn ==
  ASSUME Timely, MaxCut = 0
  PROVE  Spec /\ []StartsCompared => CommitMovesWithLog
<1>1. Known /\ Known' /\ CommitInv /\ [Next]_vars =>
        [\A n \in Node : \/ commitIndex'[n] >= commitIndex[n]
                         \/ state'[n] = "NotRunning"
                         \/ commitIndex[n] > LastIndexOf(logs[n])]_vars
  BY CommitKept
<1> QED BY <1>1, KnownCommits, PTL DEF Spec, CommitMovesWithLog
-----------------------------------------------------------------------------
(* What has been given to the state machines is one log, of the indices up to  *)
(* k, and none of them is ahead of it.                                       *)
GivenUpTo(k) ==
  /\ \A a \in applied : a.index <= k
  /\ \A i \in 0 .. k : \E a \in applied : a.index = i
  /\ \A n \in Node : lastApplied[n] <= k
GivenInv == \E k \in Index : GivenUpTo(k)

GivenFacts ==
  \A k \in Index : GivenUpTo(k) =>
    /\ GivenLog \in Seq(Entries) /\ Len(GivenLog) = k + 1
    /\ \A a \in applied : a.index \in 0 .. k /\ GivenLog[a.index + 1] = a.entry

LEMMA KnownGiven == TypeOK /\ StateMachineSafety => GivenFacts
<1> SUFFICES ASSUME TypeOK, StateMachineSafety, NEW k \in Index, GivenUpTo(k)
             PROVE  /\ GivenLog \in Seq(Entries) /\ Len(GivenLog) = k + 1
                    /\ \A a \in applied : a.index \in 0 .. k /\ GivenLog[a.index + 1] = a.entry
  BY DEF GivenFacts
<1>1. k \in Int /\ k >= -1 /\ k + 1 \in Nat
  BY DEF Index
<1>2. \A a \in applied : a.index \in Nat /\ a.entry \in Entries
  BY DEF TypeOK, LogTypeOK
<1>3. {a.index : a \in applied} = 0 .. k
  BY <1>1, <1>2 DEF GivenUpTo
<1>4. Cardinality({a.index : a \in applied}) = k + 1
  <2>1. Cardinality(0 .. k) = k + 1
    BY <1>1, FS_Interval
  <2> QED BY <1>3, <2>1
<1>5. ASSUME NEW i \in 0 .. k
      PROVE  /\ GivenAt(i) # {} /\ (CHOOSE a \in GivenAt(i) : TRUE) \in applied
             /\ \A a \in applied : a.index = i => a.entry = (CHOOSE b \in GivenAt(i) : TRUE).entry
  <2>1. \E a \in GivenAt(i) : TRUE
    BY DEF GivenUpTo, GivenAt
  <2>2. (CHOOSE a \in GivenAt(i) : TRUE) \in GivenAt(i)
    BY <2>1
  <2> QED BY <2>1, <2>2 DEF GivenAt, StateMachineSafety
<1>6. GivenLog = [j \in 1 .. k + 1 |-> (CHOOSE a \in GivenAt(j - 1) : TRUE).entry]
  <2>1. \A j \in 1 .. k + 1 : GivenAt(j - 1) # {}
    BY <1>1, <1>5
  <2>2. GivenLog = [j \in 1 .. k + 1 |-> IF GivenAt(j - 1) = {} THEN None
                                          ELSE (CHOOSE a \in GivenAt(j - 1) : TRUE).entry]
    BY <1>4, Zenon DEF GivenLog
  <2> QED BY <2>1, <2>2
<1>7. \A j \in 1 .. k + 1 : GivenLog[j] \in Entries
  <2> SUFFICES ASSUME NEW j \in 1 .. k + 1 PROVE GivenLog[j] \in Entries
    OBVIOUS
  <2>1. j - 1 \in 0 .. k
    BY <1>1
  <2>2. (CHOOSE a \in GivenAt(j - 1) : TRUE) \in applied
    BY <1>5, <2>1
  <2>3. GivenLog[j] = (CHOOSE a \in GivenAt(j - 1) : TRUE).entry
    BY <1>6
  <2> QED BY <1>2, <2>2, <2>3
<1>8. GivenLog \in [1 .. k + 1 -> Entries]
  BY <1>6, <1>7
<1>9. GivenLog \in Seq(Entries) /\ Len(GivenLog) = k + 1
  BY <1>1, <1>8, IsASeq, LenProperties
<1>10. ASSUME NEW a \in applied
       PROVE  a.index \in 0 .. k /\ GivenLog[a.index + 1] = a.entry
  <2>1. a.index \in 0 .. k
    BY <1>3
  <2>2. a.index + 1 \in 1 .. k + 1 /\ a.index + 1 - 1 = a.index
    BY <1>1, <2>1
  <2> QED BY <1>5, <1>6, <2>1, <2>2
<1> QED BY <1>9, <1>10

LEMMA GivenNext == (TypeOK /\ StateMachineSafety => GivenFacts)'
BY KnownGiven, PTL

(* do_apply gives a server what follows in the log, or nothing.               *)
LEMMA CommitGives ==
  ASSUME TypeOK, TypeOK', GivenFacts, GivenFacts',
         NEW k \in Index, GivenUpTo(k), NEW n, NEW log, NEW c, CommitsTo(n, log, c)
  PROVE  GivenInv' /\ [Commands!Next]_Commands!vars
<1> DEFINE given == [s \in Node |-> lastApplied[s] + 1]
<1>1. /\ n \in Node /\ log \in Seq(Entries) /\ c \in Int /\ c <= LastIndexOf(log)
      /\ DoApply(n, log, c) /\ k \in Int /\ k >= -1 /\ LastIndexOf(log) \in Int
  BY LastOf DEF CommitsTo, Index
<1>2. /\ lastApplied \in [Node -> Index] /\ lastApplied[n] \in Int /\ lastApplied[n] >= -1
      /\ lastApplied[n] <= k
  BY <1>1 DEF TypeOK, LogTypeOK, Index, GivenUpTo
<1>3. /\ lastApplied' = [lastApplied EXCEPT ![n] = GreaterOf(lastApplied[n], c)]
      /\ applied' = applied \union
           {[index |-> i, entry |-> log[i + 1]] : i \in lastApplied[n] + 1 .. c}
  BY <1>1 DEF DoApply
<1>4. CASE c <= lastApplied[n]
  <2>1. GreaterOf(lastApplied[n], c) = lastApplied[n] /\ lastApplied[n] + 1 .. c = {}
    BY <1>1, <1>2, <1>4 DEF GreaterOf
  <2>2. lastApplied' = lastApplied /\ applied' = applied
    BY <1>2, <1>3, <2>1
  <2>3. GivenLog' = GivenLog
    BY <2>2 DEF GivenLog, GivenAt
  <2>4. GivenInv'
    BY <2>2 DEF GivenInv, GivenUpTo
  <2> QED BY <2>2, <2>3, <2>4 DEF Commands!vars
<1>5. CASE c > lastApplied[n]
  <2>1. GreaterOf(lastApplied[n], c) = c
    BY <1>1, <1>2, <1>5 DEF GreaterOf
  <2>2. lastApplied' = [lastApplied EXCEPT ![n] = c] /\ lastApplied'[n] = c
    BY <1>1, <1>2, <1>3, <2>1
  <2>3. PICK l \in Index : l = IF c > k THEN c ELSE k
    BY <1>1 DEF Index
  <2>4. l \in Int /\ l >= k /\ l >= c /\ l >= -1 /\ (l = k \/ l = c) /\ (c <= k => l = k)
    BY <1>1, <2>3
  <2>5. GivenUpTo(l)'
    <3>1. ASSUME NEW a \in applied' PROVE a.index <= l
      <4>1. CASE a \in applied
        <5>1. a.index <= k /\ a.index \in Nat
          BY <4>1 DEF GivenUpTo, TypeOK, LogTypeOK
        <5> QED BY <1>1, <2>4, <5>1
      <4>2. CASE a \notin applied
        <5>1. PICK i \in lastApplied[n] + 1 .. c : a = [index |-> i, entry |-> log[i + 1]]
          BY <1>3, <3>1, <4>2
        <5> QED BY <1>1, <1>2, <2>4, <5>1
      <4> QED BY <4>1, <4>2
    <3>2. ASSUME NEW i \in 0 .. l PROVE \E a \in applied' : a.index = i
      <4>1. CASE i <= k
        <5>1. i \in 0 .. k
          BY <1>1, <2>4, <4>1
        <5>2. PICK a \in applied : a.index = i
          BY <5>1 DEF GivenUpTo
        <5> QED BY <1>3, <5>2
      <4>2. CASE i > k
        <5>1. i \in lastApplied[n] + 1 .. c
          BY <1>1, <1>2, <2>4, <4>2
        <5>2. [index |-> i, entry |-> log[i + 1]] \in applied'
          BY <1>3, <5>1
        <5> QED BY <5>2
      <4> QED BY <1>1, <2>4, <4>1, <4>2
    <3>3. ASSUME NEW s \in Node PROVE lastApplied'[s] <= l
      <4>1. CASE s = n
        BY <2>2, <2>4, <4>1
      <4>2. CASE s # n
        <5>1. lastApplied'[s] = lastApplied[s] /\ lastApplied[s] \in Int /\ lastApplied[s] <= k
          BY <1>2, <2>2, <4>2 DEF Index, GivenUpTo
        <5> QED BY <1>1, <2>4, <5>1
      <4> QED BY <4>1, <4>2
    <3> QED BY <3>1, <3>2, <3>3 DEF GivenUpTo
  <2>6. /\ GivenLog \in Seq(Entries) /\ Len(GivenLog) = k + 1
        /\ GivenLog' \in Seq(Entries) /\ Len(GivenLog') = l + 1
    BY <2>5 DEF GivenFacts
  <2>7. ASSUME NEW i \in 1 .. Len(GivenLog) PROVE GivenLog'[i] = GivenLog[i]
    <3>1. i - 1 \in 0 .. k /\ i - 1 + 1 = i
      BY <1>1, <2>6
    <3>2. PICK a \in applied : a.index = i - 1
      BY <3>1 DEF GivenUpTo
    <3>3. a \in applied' /\ GivenLog[a.index + 1] = a.entry
      BY <1>3, <3>2 DEF GivenFacts
    <3>4. GivenLog'[a.index + 1] = a.entry
      BY <2>5, <3>3 DEF GivenFacts
    <3> QED BY <3>1, <3>2, <3>3, <3>4
  <2>8. SubSeq(GivenLog', 1, Len(GivenLog)) = GivenLog
    <3>1. PICK old \in Seq(Entries) : old = GivenLog
      BY <2>6
    <3>2. PICK new \in Seq(Entries) : new = GivenLog'
      BY <2>6
    <3>3. Len(old) \in Nat /\ Len(old) <= Len(new)
      BY <1>1, <2>4, <2>6, <3>1, <3>2
    <3>4. /\ SubSeq(new, 1, Len(old)) \in Seq(Entries) /\ Len(SubSeq(new, 1, Len(old))) = Len(old)
          /\ \A i \in 1 .. Len(old) : SubSeq(new, 1, Len(old))[i] = new[i]
      BY <3>3, PrefixEntries
    <3>5. \A i \in 1 .. Len(old) : SubSeq(new, 1, Len(old))[i] = old[i]
      BY <2>7, <3>1, <3>2, <3>4
    <3>6. SubSeq(new, 1, Len(old)) = old
      BY <3>4, <3>5, SeqEqual
    <3> QED BY <3>1, <3>2, <3>6
  <2>9. Commands!Grows
    <3>1. \A i \in Len(GivenLog) + 1 .. Len(GivenLog') : GivenLog'[i] \in Entries
      <4> SUFFICES ASSUME NEW i \in Len(GivenLog) + 1 .. Len(GivenLog') PROVE GivenLog'[i] \in Entries
        OBVIOUS
      <4>1. i \in 1 .. Len(GivenLog')
        BY <1>1, <2>4, <2>6
      <4> QED BY <2>6, <4>1, ElementOfSeq
    <3> QED BY <1>1, <2>4, <2>6, <2>8, <3>1 DEF Commands!Grows
  <2>10. /\ given'[n] = c + 1 /\ given[n] = lastApplied[n] + 1
         /\ given' = [given EXCEPT ![n] = c + 1]
    <3>1. \A s \in Node : lastApplied'[s] + 1 = IF s = n THEN c + 1 ELSE lastApplied[s] + 1
      BY <1>2, <2>2
    <3>2. given' = [s \in Node |-> IF s = n THEN c + 1 ELSE lastApplied[s] + 1]
      BY <3>1
    <3> QED BY <1>1, <2>2, <3>2
  <2>11. given'[n] > given[n]
    BY <1>1, <1>2, <1>5, <2>10
  <2>12. Len(GivenLog') = IF given'[n] > Len(GivenLog) THEN given'[n] ELSE Len(GivenLog)
    BY <1>1, <2>3, <2>6, <2>10
  <2>13. given' = [given EXCEPT ![n] = given'[n]]
    BY <2>10
  <2>14. Commands!Give(n)
    BY <2>9, <2>11, <2>12, <2>13 DEF Commands!Give
  <2>15. GivenInv'
    BY <2>3, <2>5 DEF GivenInv
  <2> QED BY <1>1, <2>14, <2>15 DEF Commands!Next
<1> QED BY <1>1, <1>2, <1>4, <1>5

LEMMA GivenStep ==
  ASSUME Known, Known', Timely, CommitInv, CommitInv', GivenInv, [Next]_vars
  PROVE  GivenInv' /\ [Commands!Next]_Commands!vars
<1>1. TypeOK /\ TypeOK' /\ GivenFacts /\ GivenFacts'
  <2>1. TypeOK /\ TypeOK' /\ StateMachineSafety
    BY CommitsSafe DEF Known
  <2>2. StateMachineSafety'
    BY CommitsSafeNext
  <2> QED BY <2>1, <2>2, KnownGiven, GivenNext
<1>2. PICK k \in Index : GivenUpTo(k)
  BY DEF GivenInv
<1>3. CASE UNCHANGED <<lastApplied, applied>>
  <2>1. GivenLog' = GivenLog
    BY <1>3 DEF GivenLog, GivenAt
  <2>2. GivenInv'
    BY <1>2, <1>3 DEF GivenInv, GivenUpTo
  <2> QED BY <1>3, <2>1, <2>2 DEF Commands!vars
<1>4. ASSUME NEW n, Forgets(n) PROVE GivenInv' /\ [Commands!Next]_Commands!vars
  <2>1. /\ n \in Node /\ applied' = applied /\ lastApplied' = [lastApplied EXCEPT ![n] = -1]
        /\ lastApplied \in [Node -> Index] /\ k \in Int /\ k >= -1
    BY <1>1, <1>4 DEF Forgets, TypeOK, LogTypeOK, Index
  <2>2. GivenLog' = GivenLog
    BY <2>1 DEF GivenLog, GivenAt
  <2>3. \A s \in Node : lastApplied'[s] <= k
    BY <1>2, <2>1 DEF GivenUpTo
  <2>4. GivenInv'
    BY <1>2, <2>1, <2>3 DEF GivenInv, GivenUpTo
  <2>5. [s \in Node |-> lastApplied'[s] + 1]
          = [[s \in Node |-> lastApplied[s] + 1] EXCEPT ![n] = 0]
    <3>1. \A s \in Node : lastApplied'[s] + 1 = IF s = n THEN 0 ELSE lastApplied[s] + 1
      BY <2>1
    <3>2. [s \in Node |-> lastApplied'[s] + 1]
            = [s \in Node |-> IF s = n THEN 0 ELSE lastApplied[s] + 1]
      BY <3>1
    <3> QED BY <3>2
  <2>6. Commands!StartAgain(n)
    BY <2>2, <2>5 DEF Commands!StartAgain
  <2> QED BY <2>1, <2>4, <2>6 DEF Commands!Next
<1>5. ASSUME NEW n, NEW log, NEW c, CommitsTo(n, log, c)
      PROVE  GivenInv' /\ [Commands!Next]_Commands!vars
  BY <1>1, <1>2, <1>5, CommitGives
<1>6. CASE UNCHANGED vars
  BY <1>3, <1>6 DEF vars
<1>7. CASE Next
  <2>1. CommitCases
    BY <1>7, CommitCasesNext DEF CommitInv
  <2> QED BY <1>3, <1>4, <1>5, <2>1 DEF CommitCases
<1> QED BY <1>6, <1>7

LEMMA GivenInit == Init => GivenInv /\ (GivenFacts => Commands!Init)
<1> SUFFICES ASSUME Init PROVE GivenInv /\ (GivenFacts => Commands!Init)
  OBVIOUS
<1>1. applied = {} /\ lastApplied = [n \in Node |-> -1]
  BY DEF Init, Start
<1>2. -1 \in Index /\ GivenUpTo(-1)
  BY <1>1 DEF Index, GivenUpTo
<1>3. ASSUME GivenFacts PROVE Commands!Init
  <2>1. GivenLog \in Seq(Entries) /\ Len(GivenLog) = 0
    BY <1>2, <1>3 DEF GivenFacts
  <2>2. GivenLog = <<>>
    BY <2>1, EmptySeq
  <2>3. [n \in Node |-> lastApplied[n] + 1] = [n \in Node |-> 0]
    BY <1>1
  <2> QED BY <2>2, <2>3 DEF Commands!Init
<1> QED BY <1>2, <1>3 DEF GivenInv

(* RaftNode implements CommandLog: the servers are given one log, in order,   *)
(* with nothing left out and nothing twice, through elections, conflicts and  *)
(* crashes (do_apply).                                                      *)
THEOREM Implements ==
  ASSUME Timely, MaxCut = 0
  PROVE  Spec /\ []StartsCompared => Commands!Init /\ GivesOneLog
<1>1. Init => GivenInv
  BY GivenInit
<1>2. Init /\ Known /\ CommitInv => Commands!Init
  BY GivenInit, KnownGiven, CommitsSafe DEF Known
<1>3. Known /\ Known' /\ CommitInv /\ CommitInv' /\ GivenInv /\ [Next]_vars
        => GivenInv' /\ [Commands!Next]_Commands!vars
  BY GivenStep
<1> QED BY <1>1, <1>2, <1>3, KnownCommits, PTL DEF Spec, GivesOneLog
=============================================================================
