---------------------------- MODULE RaftLogProofs ----------------------------
(* The logs of RaftNode, for every set of nodes and all bounds: what has to  *)
(* hold for two logs that agree on an entry to agree on all before it, and   *)
(* for a leader's late requests to take nothing back.                       *)
EXTENDS RaftElectionProofs

-----------------------------------------------------------------------------
(* A slice of a log, in the indices of the code: the entries after prev and, *)
(* unless prev is -1, the term of the entry at prev.  A log is a slice, and  *)
(* so is what a request of do_append_entries carries.                       *)
Slices == [prev : Index, prevTerm : Nat, entries : Seq(Entries)]
Slice(prev, prevTerm, entries) == [prev |-> prev, prevTerm |-> prevTerm, entries |-> entries]
Whole(log) == Slice(-1, 0, log)
Part(m) == Slice(m.prev, m.prevTerm, m.entries)
End(v) == v.prev + Len(v.entries)
Covered(v) == v.prev + 1 .. End(v)
EntryIn(v, i) == v.entries[i - v.prev]
TermIn(v, i) == IF i = v.prev THEN v.prevTerm ELSE EntryIn(v, i).term

AppendRequests == {m \in msgs : m.type = "AppendRequest"}
Views == {Whole(logs[n]) : n \in Node} \union {Part(m) : m \in AppendRequests}

(* Two slices that have an entry of one term at one index agree on the terms *)
(* of whatever both show before it.                                          *)
Agree(v, w) ==
  \A i \in Covered(v) \cap Covered(w) : TermIn(v, i) = TermIn(w, i) =>
    \A j \in 0 .. i - 1 : j >= v.prev /\ j >= w.prev => TermIn(v, j) = TermIn(w, j)

(* What x shows, v shows too.                                               *)
PartOf(x, v) ==
  \A i \in Covered(x) :
    /\ i \in Covered(v) /\ EntryIn(x, i) = EntryIn(v, i)
    /\ \A j \in 0 .. i - 1 : j >= x.prev => j >= v.prev /\ TermIn(x, j) = TermIn(v, j)

LEMMA Shifted ==
  ASSUME NEW p \in Int, p >= -1, NEW k \in Nat, NEW i \in p + 1 .. p + k
  PROVE  i \in Nat /\ i > p /\ i <= p + k /\ i - p \in 1 .. k
OBVIOUS

LEMMA SliceType ==
  ASSUME NEW v \in Slices
  PROVE  /\ v.prev \in Int /\ v.prev >= -1 /\ End(v) \in Int /\ v.prevTerm \in Nat
         /\ Len(v.entries) \in Nat /\ End(v) = v.prev + Len(v.entries)
         /\ \A i \in Covered(v) : /\ i \in Nat /\ i > v.prev /\ i <= End(v)
                                  /\ i - v.prev \in 1 .. Len(v.entries)
                                  /\ EntryIn(v, i) \in Entries /\ TermIn(v, i) = EntryIn(v, i).term
         /\ \A i \in Int : i > v.prev /\ i <= End(v) => i \in Covered(v)
<1>1. /\ v.prev \in Int /\ v.prev >= -1 /\ v.entries \in Seq(Entries) /\ v.prevTerm \in Nat
      /\ Len(v.entries) \in Nat
  BY LenProperties DEF Slices, Index
<1>2. \A i \in 1 .. Len(v.entries) : v.entries[i] \in Entries
  BY <1>1, ElementOfSeq
<1>3. End(v) = v.prev + Len(v.entries) /\ End(v) \in Int
  BY <1>1 DEF End
<1>4. ASSUME NEW i \in Covered(v)
      PROVE  /\ i \in Nat /\ i > v.prev /\ i <= End(v) /\ i - v.prev \in 1 .. Len(v.entries)
             /\ EntryIn(v, i) \in Entries /\ TermIn(v, i) = EntryIn(v, i).term
  <2>p. PICK p \in Int : p = v.prev /\ p >= -1
    BY <1>1
  <2>k. PICK k \in Nat : k = Len(v.entries)
    BY <1>1
  <2>i. i \in p + 1 .. p + k
    BY <2>p, <2>k DEF Covered, End
  <2>j. i \in Nat /\ i > p /\ i <= p + k /\ i - p \in 1 .. k
    BY <2>p, <2>i, Shifted
  <2>1. i \in Nat /\ i > v.prev /\ i <= End(v) /\ i - v.prev \in 1 .. Len(v.entries)
    BY <1>3, <2>p, <2>k, <2>j
  <2>2. i # v.prev
    BY <2>p, <2>j
  <2> QED BY <1>1, <1>2, <2>1, <2>2 DEF EntryIn, TermIn
<1>5. \A i \in Int : i > v.prev /\ i <= End(v) => i \in Covered(v)
  BY <1>1, <1>3 DEF Covered
<1> QED BY <1>1, <1>3, <1>4, <1>5

LEMMA AgreeSymmetric ==
  ASSUME NEW v, NEW w, Agree(v, w)
  PROVE  Agree(w, v)
BY DEF Agree

LEMMA PartOfItself == ASSUME NEW v \in Slices PROVE PartOf(v, v)
BY DEF PartOf

LEMMA PartAgrees ==
  ASSUME NEW x \in Slices, NEW v \in Slices, NEW w \in Slices, PartOf(x, v), Agree(v, w)
  PROVE  Agree(x, w)
<1> SUFFICES ASSUME NEW i \in Covered(x) \cap Covered(w), TermIn(x, i) = TermIn(w, i),
                    NEW j \in 0 .. i - 1, j >= x.prev, j >= w.prev
             PROVE  TermIn(x, j) = TermIn(w, j)
  BY DEF Agree
<1>1. i \in Covered(v) /\ EntryIn(x, i) = EntryIn(v, i) /\ j >= v.prev /\ TermIn(x, j) = TermIn(v, j)
  BY DEF PartOf
<1>2. TermIn(v, i) = TermIn(w, i)
  BY <1>1, SliceType
<1> QED BY <1>1, <1>2 DEF Agree

(* If the slices of S agree with each other, so do parts of them.            *)
LEMMA PartsAgree ==
  ASSUME NEW S \in SUBSET Slices, \A v, w \in S : Agree(v, w),
         NEW V \in SUBSET Slices, \A x \in V : \E v \in S : PartOf(x, v)
  PROVE  \A x, y \in V : Agree(x, y)
<1> SUFFICES ASSUME NEW x \in V, NEW y \in V PROVE Agree(x, y)
  OBVIOUS
<1>1. PICK v \in S : PartOf(x, v)
  OBVIOUS
<1>2. PICK w \in S : PartOf(y, w)
  OBVIOUS
<1>3. Agree(x, w)
  BY <1>1, PartAgrees
<1>4. Agree(y, x)
  BY <1>2, <1>3, AgreeSymmetric, PartAgrees
<1> QED BY <1>4, AgreeSymmetric
-----------------------------------------------------------------------------
(* The log of a follower after an accepted request.                         *)
Spliced(log, p, e) == SubSeq(log, 1, p + 1) \o e

LEMMA WholeType ==
  ASSUME NEW log \in Seq(Entries)
  PROVE  /\ Whole(log) \in Slices /\ Whole(log).prev = -1 /\ Whole(log).entries = log
         /\ End(Whole(log)) = LastIndexOf(log) /\ Covered(Whole(log)) = 0 .. LastIndexOf(log)
         /\ \A i \in Int : EntryIn(Whole(log), i) = log[i + 1]
         /\ \A i \in Nat : TermIn(Whole(log), i) = log[i + 1].term
BY LenProperties DEF Whole, Slice, Slices, Index, End, Covered, EntryIn, TermIn, LastIndexOf

LEMMA PartType ==
  ASSUME NEW m, m.prev \in Index, m.prevTerm \in Nat, m.entries \in Seq(Entries)
  PROVE  /\ Part(m) \in Slices /\ Part(m).prev = m.prev /\ Part(m).prevTerm = m.prevTerm
         /\ Part(m).entries = m.entries
BY DEF Part, Slice, Slices

LEMMA PrefixEntries ==
  ASSUME NEW log \in Seq(Entries), NEW k \in Nat, k <= Len(log)
  PROVE  /\ SubSeq(log, 1, k) \in Seq(Entries) /\ Len(SubSeq(log, 1, k)) = k
         /\ \A i \in 1 .. k : SubSeq(log, 1, k)[i] = log[i]
<1>1. \A i \in 1 .. k : log[i] \in Entries
  BY LenProperties, ElementOfSeq
<1>2. /\ Len(SubSeq(log, 1, k)) = IF 1 <= k THEN k - 1 + 1 ELSE 0
      /\ \A i \in 1 .. k - 1 + 1 : SubSeq(log, 1, k)[i] = log[1 + i - 1]
  BY <1>1, SubSeqProperties
<1> QED BY <1>2, PrefixType

LEMMA SplicedType ==
  ASSUME NEW log \in Seq(Entries), NEW p \in Index, p <= LastIndexOf(log), NEW e \in Seq(Entries)
  PROVE  /\ Spliced(log, p, e) \in Seq(Entries)
         /\ LastIndexOf(Spliced(log, p, e)) = p + Len(e)
         /\ \A i \in 0 .. p : Spliced(log, p, e)[i + 1] = log[i + 1]
         /\ \A i \in p + 1 .. p + Len(e) : Spliced(log, p, e)[i + 1] = e[i - p]
<1>1. p \in Int /\ p >= -1 /\ Len(log) \in Nat /\ p + 1 <= Len(log) /\ Len(e) \in Nat /\ p + 1 \in Nat
  BY LenProperties DEF Index, LastIndexOf
<1>2. PICK s : s = SubSeq(log, 1, p + 1)
  OBVIOUS
<1>3. s \in Seq(Entries) /\ Len(s) = p + 1 /\ \A i \in 1 .. p + 1 : s[i] = log[i]
  BY <1>1, <1>2, PrefixEntries
<1>4. PICK t : t = s \o e
  OBVIOUS
<1>c. /\ s \o e \in Seq(Entries) /\ Len(s \o e) = Len(s) + Len(e)
      /\ \A i \in 1 .. Len(s) + Len(e) :
           (s \o e)[i] = IF i <= Len(s) THEN s[i] ELSE e[i - Len(s)]
  BY <1>3, ConcatProperties
<1>5. /\ t \in Seq(Entries) /\ Len(t) = Len(s) + Len(e)
      /\ \A i \in 1 .. Len(s) + Len(e) : t[i] = IF i <= Len(s) THEN s[i] ELSE e[i - Len(s)]
  BY <1>4, <1>c
<1>6. Spliced(log, p, e) = t
  BY <1>2, <1>4 DEF Spliced
<1>7. ASSUME NEW i \in 0 .. p PROVE t[i + 1] = log[i + 1]
  <2>1. i + 1 \in 1 .. p + 1 /\ i + 1 \in 1 .. Len(s) + Len(e) /\ i + 1 <= Len(s)
    BY <1>1, <1>3
  <2> QED BY <1>3, <1>5, <2>1
<1>8. ASSUME NEW i \in p + 1 .. p + Len(e) PROVE t[i + 1] = e[i - p]
  <2>1. i + 1 \in 1 .. Len(s) + Len(e) /\ ~(i + 1 <= Len(s)) /\ i + 1 - Len(s) = i - p
    BY <1>1, <1>3
  <2>2. t[i + 1] = e[i + 1 - Len(s)]
    BY <1>5, <2>1
  <2> QED BY <2>1, <2>2
<1>9. LastIndexOf(t) = p + Len(e)
  BY <1>1, <1>3, <1>5 DEF LastIndexOf
<1> QED BY <1>5, <1>6, <1>7, <1>8, <1>9

(* It agrees with whatever the log and the request agree with, if the entry  *)
(* before the first that is taken over is of the same term in both.          *)
LEMMA SplicedAgrees ==
  ASSUME NEW log \in Seq(Entries), NEW x \in Slices, x.prev <= LastIndexOf(log),
         x.prev = -1 \/ TermAt(log, x.prev) = x.prevTerm,
         NEW w \in Slices, Agree(Whole(log), w), Agree(x, w)
  PROVE  Agree(Whole(Spliced(log, x.prev, x.entries)), w)
<1>0. PICK p \in Index : p = x.prev
  BY DEF Slices
<1>e. PICK e \in Seq(Entries) : e = x.entries
  BY DEF Slices
<1>l. PICK l : l = Spliced(log, p, e)
  OBVIOUS
<1>s. PICK s : s = Whole(l)
  OBVIOUS
<1>u. PICK u : u = Whole(log)
  OBVIOUS
<1>t. /\ l \in Seq(Entries) /\ LastIndexOf(l) = p + Len(e)
      /\ \A i \in 0 .. p : l[i + 1] = log[i + 1]
      /\ \A i \in p + 1 .. p + Len(e) : l[i + 1] = e[i - p]
  BY <1>0, <1>l, SplicedType
<1>1. /\ u \in Slices /\ s \in Slices /\ u.prev = -1 /\ s.prev = -1 /\ p \in Int /\ p >= -1
      /\ End(u) = LastIndexOf(log) /\ End(x) = p + Len(e) /\ End(s) = p + Len(e) /\ p <= End(u)
      /\ End(x) \in Int /\ Len(e) \in Nat
  <2>1. End(x) = p + Len(e) /\ Len(e) \in Nat
    BY <1>0, <1>e, LenProperties DEF End
  <2>2. p \in Int /\ p >= -1
    BY DEF Index
  <2>3. u \in Slices /\ u.prev = -1 /\ End(u) = LastIndexOf(log)
    BY <1>u, WholeType
  <2>4. s \in Slices /\ s.prev = -1 /\ End(s) = LastIndexOf(l)
    BY <1>s, <1>t, WholeType
  <2>5. p <= End(u)
    BY <1>0, <2>3
  <2>6. End(x) \in Int
    BY <2>1, <2>2
  <2> QED BY <1>t, <2>1, <2>2, <2>3, <2>4, <2>5, <2>6
<1>2. ASSUME NEW i \in Nat, i <= p
      PROVE  TermIn(s, i) = TermIn(u, i)
  <2>1. TermIn(s, i) = l[i + 1].term /\ TermIn(u, i) = log[i + 1].term
    BY <1>s, <1>u, <1>t, WholeType
  <2> QED BY <1>1, <1>2, <1>t, <2>1
<1>3. ASSUME NEW i \in Nat, i > p, i <= p + Len(e)
      PROVE  TermIn(s, i) = TermIn(x, i)
  <2>1. TermIn(s, i) = l[i + 1].term
    BY <1>s, <1>t, WholeType
  <2>2. TermIn(x, i) = e[i - p].term
    BY <1>0, <1>e, <1>1, <1>3 DEF TermIn, EntryIn
  <2>3. i \in p + 1 .. p + Len(e)
    BY <1>1, <1>3
  <2> QED BY <1>t, <2>1, <2>2, <2>3
<1>4. p # -1 => TermIn(u, p) = TermIn(x, p)
  <2>1. TermIn(x, p) = x.prevTerm
    BY <1>0 DEF TermIn
  <2>2. p # -1 => p \in Nat
    BY <1>1
  <2>3. p # -1 => TermIn(u, p) = TermAt(log, p)
    BY <1>u, <2>2, WholeType DEF TermAt
  <2> QED BY <1>0, <2>1, <2>3
<1>6. Agree(u, w) /\ Agree(x, w)
  BY <1>u
<1>7. SUFFICES Agree(s, w)
  BY <1>0, <1>e, <1>l, <1>s
<1>8. SUFFICES ASSUME NEW i \in Covered(s) \cap Covered(w), TermIn(s, i) = TermIn(w, i),
                    NEW j \in 0 .. i - 1, j >= s.prev, j >= w.prev
             PROVE  TermIn(s, j) = TermIn(w, j)
  BY Zenon DEF Agree
<1>5. i \in Nat /\ j \in Nat /\ j < i /\ i <= p + Len(e) /\ w.prev \in Int /\ i > w.prev /\ i <= End(w)
      /\ End(w) \in Int
  BY <1>1, SliceType
<1>9. CASE i <= p
  <2>1. i \in Covered(u)
    BY <1>1, <1>5, <1>9, SliceType
  <2>2. TermIn(u, i) = TermIn(w, i)
    BY <1>2, <1>5, <1>8, <1>9
  <2>3. TermIn(u, j) = TermIn(w, j)
    BY <1>1, <1>5, <1>6, <1>8, <2>1, <2>2 DEF Agree
  <2> QED BY <1>1, <1>2, <1>5, <1>9, <2>3
<1>10. CASE i > p
  <2>1. i \in Covered(x)
    BY <1>0, <1>1, <1>5, <1>10, SliceType
  <2>2. TermIn(x, i) = TermIn(w, i)
    BY <1>3, <1>5, <1>8, <1>10
  <2>3. \A k \in 0 .. i - 1 : k >= p /\ k >= w.prev => TermIn(x, k) = TermIn(w, k)
    BY <1>0, <1>6, <2>1, <2>2 DEF Agree
  <2>4. CASE j > p
    <3>1. TermIn(x, j) = TermIn(w, j)
      BY <1>1, <1>5, <1>8, <2>3, <2>4
    <3>2. TermIn(s, j) = TermIn(x, j)
      BY <1>1, <1>3, <1>5, <2>4
    <3> QED BY <3>1, <3>2
  <2>5. CASE j <= p
    <3>1. p \in Nat /\ p \in 0 .. i - 1 /\ p >= w.prev
      BY <1>1, <1>5, <1>8, <1>10, <2>5
    <3>2. TermIn(u, p) = TermIn(w, p)
      BY <1>4, <2>3, <3>1
    <3>3. CASE j = p
      BY <1>2, <1>5, <2>5, <3>2, <3>3
    <3>4. CASE j < p
      <4>1. p > w.prev /\ p <= End(w) /\ p > u.prev
        BY <1>1, <1>5, <1>8, <1>10, <3>4
      <4>2. p \in Covered(u) /\ p \in Covered(w)
        BY <1>1, <4>1, SliceType
      <4>3. TermIn(u, j) = TermIn(w, j)
        BY <1>1, <1>5, <1>6, <1>8, <3>2, <3>4, <4>2 DEF Agree
      <4> QED BY <1>2, <1>5, <2>5, <4>3
    <3> QED BY <1>1, <1>5, <2>5, <3>3, <3>4
  <2> QED BY <1>1, <1>5, <2>4, <2>5
<1> QED BY <1>1, <1>5, <1>9, <1>10
-----------------------------------------------------------------------------
(* The inductive invariant, over the logs and the requests under way.        *)

Agreeing == \A v, w \in Views : Agree(v, w)

(* Entry e stands at index i of a log or a request.                          *)
Stands(e, i) == \E v \in Views : i \in Covered(v) /\ EntryIn(v, i) = e

(* Every entry was made by a winner of its term, and a leader has whatever   *)
(* stands anywhere of its own term.                                          *)
EntriesWon == \A e, i : Stands(e, i) => Won(e.owner, e.term)
LeaderHolds ==
  \A n \in Node : state[n] = "Leader" =>
    \A e, i : Stands(e, i) /\ e.term = currentTerm[n] =>
      i <= LastIndexOf(logs[n]) /\ logs[n][i + 1] = e

DiskLogs == \A n \in Node : disk[n].logs = logs[n]

LogInv == Agreeing /\ EntriesWon /\ LeaderHolds /\ DiskLogs

(* What a handler of node n does to the logs: n gets log, a part of what it  *)
(* had, what it had with an entry of its own, or what a request makes of it.  *)
NewLog(n, log) ==
  \/ PartOf(Whole(log), Whole(logs[n]))
  \/ state[n] = "Leader" /\ log = Append(logs[n], Entry(n))
  \/ \E m \in AppendRequests :
       /\ m.prev <= LastIndexOf(logs[n])
       /\ m.prev = -1 \/ TermAt(logs[n], m.prev) = m.prevTerm
       /\ log = Spliced(logs[n], m.prev, m.entries)

KnownPart(m, log) ==
  (\E o \in AppendRequests : Part(m) = Part(o)) \/ PartOf(Part(m), Whole(log))

LeadersKeep(n, log) ==
  \A k \in Node : state'[k] = "Leader" =>
    /\ currentTerm'[k] = currentTerm[k]
    /\ \/ state[k] = "Leader" /\ (k = n => log \in {logs[n], Append(logs[n], Entry(n))})
       \/ state[k] = "Candidate" /\ WonIn(elected', k, currentTerm[k])

LogStep(n, log) ==
  /\ log \in Seq(Entries) /\ NewLog(n, log)
  /\ logs'[n] = log /\ \A k \in Node \ {n} : logs'[k] = logs[k]
  /\ \A k \in Node : disk'[k].logs = logs'[k]
  /\ \A m \in AppendRequests' : KnownPart(m, log)
  /\ elected \subseteq elected'
  /\ LeadersKeep(n, log)

LEMMA LogTypes ==
  ASSUME TypeOK
  PROVE  /\ \A n \in Node : logs[n] \in Seq(Entries) /\ currentTerm[n] \in Nat
         /\ \A m \in AppendRequests : /\ m.prev \in Index /\ m.prevTerm \in Nat
                                      /\ m.entries \in Seq(Entries)
                                      /\ m.from \in Node /\ m.to \in Node /\ m.term \in Nat
<1>1. \A n \in Node : logs[n] \in Seq(Entries) /\ currentTerm[n] \in Nat
  BY DEF TypeOK, CoreTypeOK, LogTypeOK
<1>2. \A m \in AppendRequests : m \in Messages /\ m.type = "AppendRequest"
  BY DEF TypeOK, AppendRequests
<1>3. \A m \in AppendRequests : /\ m.prev \in Index /\ m.prevTerm \in Nat
                                /\ m.entries \in Seq(Entries)
                                /\ m.from \in Node /\ m.to \in Node /\ m.term \in Nat
  BY <1>2, MessageType
<1> QED BY <1>1, <1>3

LEMMA LogTypesNext ==
  ASSUME TypeOK'
  PROVE  \A m \in AppendRequests' : /\ m.prev \in Index /\ m.prevTerm \in Nat
                                     /\ m.entries \in Seq(Entries)
<1> SUFFICES ASSUME NEW m \in AppendRequests'
             PROVE  m.prev \in Index /\ m.prevTerm \in Nat /\ m.entries \in Seq(Entries)
  OBVIOUS
<1>1. m \in Messages /\ m.type = "AppendRequest"
  BY DEF TypeOK, AppendRequests
<1> QED BY <1>1, MessageType

LEMMA ViewsType ==
  ASSUME TypeOK
  PROVE  /\ Views \in SUBSET Slices
         /\ \A n \in Node : Whole(logs[n]) \in Views
         /\ \A m \in AppendRequests : Part(m) \in Views
<1>1. \A n \in Node : Whole(logs[n]) \in Slices
  BY LogTypes, WholeType
<1>2. \A m \in AppendRequests : Part(m) \in Slices
  BY LogTypes, PartType
<1> QED BY <1>1, <1>2 DEF Views

LEMMA PartSource ==
  ASSUME NEW x, NEW v, PartOf(x, v), NEW i \in Covered(x)
  PROVE  i \in Covered(v) /\ EntryIn(x, i) = EntryIn(v, i)
BY DEF PartOf

LEMMA AppendType ==
  ASSUME NEW log \in Seq(Entries), NEW e \in Entries
  PROVE  /\ Append(log, e) \in Seq(Entries) /\ LastIndexOf(Append(log, e)) = Len(log)
         /\ Len(log) \in Nat
         /\ \A i \in 0 .. LastIndexOf(log) : Append(log, e)[i + 1] = log[i + 1]
         /\ Append(log, e)[Len(log) + 1] = e
<1>1. PICK t : t = Append(log, e)
  OBVIOUS
<1>2. Len(log) \in Nat
  BY LenProperties
<1>3. /\ t \in Seq(Entries) /\ Len(t) = Len(log) + 1
      /\ \A i \in 1 .. Len(log) : t[i] = log[i]
      /\ t[Len(log) + 1] = e
  BY <1>1, AppendProperties
<1>4. \A i \in 0 .. LastIndexOf(log) : i + 1 \in 1 .. Len(log)
  BY <1>2 DEF LastIndexOf
<1>5. LastIndexOf(t) = Len(log)
  BY <1>2, <1>3 DEF LastIndexOf
<1> QED BY <1>1, <1>2, <1>3, <1>4, <1>5

(* Where the entries of a new log come from.                                 *)
LEMMA EntrySource ==
  ASSUME TypeOK, NEW n \in Node, NEW log \in Seq(Entries), NewLog(n, log),
         NEW i \in Covered(Whole(log))
  PROVE  \/ Stands(log[i + 1], i)
         \/ /\ state[n] = "Leader" /\ log = Append(logs[n], Entry(n))
            /\ i = Len(logs[n]) /\ log[i + 1] = Entry(n)
<1>1. /\ logs[n] \in Seq(Entries) /\ Entry(n) \in Entries /\ currentTerm[n] \in Nat
      /\ Whole(logs[n]) \in Views
  BY LogTypes, ViewsType DEF Entry, Entries
<1>c. Covered(Whole(log)) = 0 .. LastIndexOf(log)
  BY WholeType
<1>i. i \in 0 .. LastIndexOf(log) /\ i \in Int
  BY <1>c
<1>2. i \in 0 .. LastIndexOf(log) /\ i \in Nat /\ EntryIn(Whole(log), i) = log[i + 1]
  BY <1>i, WholeType
<1>k. Len(logs[n]) \in Nat /\ LastIndexOf(logs[n]) = Len(logs[n]) - 1
  BY <1>1, LenProperties DEF LastIndexOf
<1>h. ASSUME NEW j \in 0 .. LastIndexOf(logs[n]) PROVE Stands(logs[n][j + 1], j)
  <2>0. Covered(Whole(logs[n])) = 0 .. LastIndexOf(logs[n])
    BY <1>1, WholeType
  <2>1. j \in Int /\ j \in Covered(Whole(logs[n]))
    BY <2>0
  <2>2. EntryIn(Whole(logs[n]), j) = logs[n][j + 1]
    BY <1>1, <2>1, WholeType
  <2> QED BY <1>1, <2>1, <2>2 DEF Stands
<1>3. CASE PartOf(Whole(log), Whole(logs[n]))
  <2>1. i \in Covered(Whole(logs[n])) /\ EntryIn(Whole(log), i) = EntryIn(Whole(logs[n]), i)
    BY <1>3, PartSource
  <2> QED BY <1>1, <1>2, <2>1 DEF Stands
<1>4. CASE state[n] = "Leader" /\ log = Append(logs[n], Entry(n))
  <2>1. /\ LastIndexOf(log) = Len(logs[n])
        /\ \A j \in 0 .. LastIndexOf(logs[n]) : log[j + 1] = logs[n][j + 1]
        /\ log[Len(logs[n]) + 1] = Entry(n)
    BY <1>1, <1>4, AppendType
  <2>2. CASE i = Len(logs[n])
    BY <1>4, <2>1, <2>2
  <2>3. CASE i # Len(logs[n])
    <3>1. i \in 0 .. LastIndexOf(logs[n])
      BY <1>2, <1>k, <2>1, <2>3
    <3> QED BY <1>h, <2>1, <3>1
  <2> QED BY <2>2, <2>3
<1>5. ASSUME NEW m \in AppendRequests, m.prev <= LastIndexOf(logs[n]),
             log = Spliced(logs[n], m.prev, m.entries)
      PROVE  Stands(log[i + 1], i)
  <2>0. m.prev \in Index /\ m.entries \in Seq(Entries) /\ m.prevTerm \in Nat /\ Part(m) \in Views
    BY LogTypes, ViewsType
  <2>p. PICK p \in Index : p = m.prev
    BY <2>0
  <2>e. PICK e \in Seq(Entries) : e = m.entries
    BY <2>0
  <2>1. /\ LastIndexOf(log) = p + Len(e)
        /\ \A j \in 0 .. p : log[j + 1] = logs[n][j + 1]
        /\ \A j \in p + 1 .. p + Len(e) : log[j + 1] = e[j - p]
    BY <1>1, <1>5, <2>p, <2>e, SplicedType, SMTT(30)
  <2>2. p \in Int /\ p >= -1 /\ p <= LastIndexOf(logs[n]) /\ Len(e) \in Nat
    BY <1>5, <2>p, LenProperties DEF Index
  <2>3. CASE i <= p
    <3>1. i \in 0 .. p /\ i \in 0 .. LastIndexOf(logs[n])
      BY <1>2, <1>k, <2>2, <2>3
    <3> QED BY <1>h, <2>1, <3>1
  <2>4. CASE i > p
    <3>1. i \in p + 1 .. p + Len(e)
      BY <1>2, <2>1, <2>2, <2>4
    <3>2. Part(m).prev = p /\ Part(m).entries = e
      BY <2>0, <2>p, <2>e, PartType
    <3>3. i \in Covered(Part(m)) /\ EntryIn(Part(m), i) = e[i - p]
      BY <3>1, <3>2 DEF Covered, End, EntryIn
    <3> QED BY <2>0, <2>1, <3>1, <3>3 DEF Stands
  <2> QED BY <1>2, <2>2, <2>3, <2>4
<1> QED BY <1>3, <1>4, <1>5 DEF NewLog

(* The new log agrees with all that is there.                                *)
LEMMA NewLogAgrees ==
  ASSUME TypeOK, Agreeing, LeaderHolds, NEW n \in Node, NEW log \in Seq(Entries), NewLog(n, log),
         NEW w \in Views
  PROVE  Agree(Whole(log), w)
<1>1. /\ logs[n] \in Seq(Entries) /\ Entry(n) \in Entries /\ currentTerm[n] \in Nat
      /\ Whole(logs[n]) \in Views /\ w \in Slices /\ Whole(log) \in Slices
      /\ Whole(logs[n]) \in Slices /\ Agree(Whole(logs[n]), w)
  BY LogTypes, ViewsType, WholeType DEF Entry, Entries, Agreeing
<1>2. CASE PartOf(Whole(log), Whole(logs[n]))
  BY <1>1, <1>2, PartAgrees
<1>3. CASE state[n] = "Leader" /\ log = Append(logs[n], Entry(n))
  <2>u. PICK u : u = Whole(logs[n])
    OBVIOUS
  <2>s. PICK s : s = Whole(log)
    OBVIOUS
  <2>k. PICK k \in Nat : k = Len(logs[n])
    BY <1>1, LenProperties
  <2>1. /\ LastIndexOf(log) = k /\ LastIndexOf(logs[n]) = k - 1
        /\ \A j \in 0 .. k - 1 : log[j + 1] = logs[n][j + 1]
        /\ log[k + 1] = Entry(n)
    <3>1. LastIndexOf(logs[n]) = k - 1
      BY <2>k DEF LastIndexOf
    <3> QED BY <1>1, <1>3, <2>k, <3>1, AppendType
  <2>3. /\ s.prev = -1 /\ u.prev = -1 /\ Covered(s) = 0 .. k /\ Covered(u) = 0 .. k - 1
        /\ \A i \in Nat : TermIn(s, i) = log[i + 1].term
        /\ \A i \in Nat : TermIn(u, i) = logs[n][i + 1].term
    BY <1>1, <2>u, <2>s, <2>1, WholeType
  <2>4. ASSUME NEW i \in 0 .. k - 1 PROVE i \in Nat /\ TermIn(s, i) = TermIn(u, i)
    <3>1. i \in Nat
      OBVIOUS
    <3>2. TermIn(s, i) = log[i + 1].term /\ TermIn(u, i) = logs[n][i + 1].term
      BY <2>3, <3>1
    <3> QED BY <2>1, <3>1, <3>2
  <2>5. SUFFICES ASSUME NEW i \in Covered(s) \cap Covered(w), TermIn(s, i) = TermIn(w, i),
                        NEW j \in 0 .. i - 1, j >= s.prev, j >= w.prev
                 PROVE  TermIn(s, j) = TermIn(w, j)
    BY <2>s DEF Agree
  <2>6. i \in Nat /\ j \in Nat /\ j < i /\ i <= k
    BY <2>3, <2>5
  <2>7. CASE i <= k - 1
    <3>0. i \in 0 .. k - 1 /\ j \in 0 .. k - 1 /\ j >= -1
      BY <2>6, <2>7
    <3>1. i \in Covered(u) /\ TermIn(u, i) = TermIn(w, i) /\ j >= u.prev
      <4>1. i \in Covered(u) /\ j >= u.prev
        BY <2>3, <3>0
      <4> QED BY <2>4, <2>5, <3>0, <4>1
    <3>2. Agree(u, w)
      BY <1>1, <2>u
    <3>3. TermIn(u, j) = TermIn(w, j)
      BY <2>5, <3>1, <3>2 DEF Agree
    <3> QED BY <2>4, <3>0, <3>3
  <2>8. CASE i > k - 1
    <3>1. i = k
      BY <2>6, <2>8
    <3>2. TermIn(s, i) = currentTerm[n]
      <4>1. Entry(n).term = currentTerm[n]
        BY DEF Entry
      <4>2. TermIn(s, k) = log[k + 1].term
        BY <2>3
      <4> QED BY <2>1, <3>1, <4>1, <4>2
    <3>3. EntryIn(w, i).term = currentTerm[n]
      BY <1>1, <2>5, <3>2, SliceType
    <3>4. Stands(EntryIn(w, i), i)
      BY <2>5 DEF Stands
    <3>5. i <= LastIndexOf(logs[n])
      BY <1>3, <3>3, <3>4 DEF LeaderHolds
    <3> QED BY <2>1, <3>1, <3>5
  <2> QED BY <2>6, <2>7, <2>8
<1>4. ASSUME NEW m \in AppendRequests, m.prev <= LastIndexOf(logs[n]),
             m.prev = -1 \/ TermAt(logs[n], m.prev) = m.prevTerm,
             log = Spliced(logs[n], m.prev, m.entries)
      PROVE  Agree(Whole(log), w)
  <2>1. /\ Part(m) \in Slices /\ Part(m).prev = m.prev /\ Part(m).prevTerm = m.prevTerm
        /\ Part(m).entries = m.entries
    BY LogTypes, PartType
  <2>2. Agree(Part(m), w)
    BY ViewsType DEF Agreeing
  <2>3. PICK x : x = Part(m)
    OBVIOUS
  <2>4. /\ x \in Slices /\ x.prev <= LastIndexOf(logs[n]) /\ Agree(x, w)
        /\ x.prev = -1 \/ TermAt(logs[n], x.prev) = x.prevTerm
        /\ log = Spliced(logs[n], x.prev, x.entries)
    BY <1>4, <2>1, <2>2, <2>3
  <2>5. Agree(Whole(Spliced(logs[n], x.prev, x.entries)), w)
    BY <1>1, <2>4, SplicedAgrees
  <2> QED BY <2>4, <2>5
<1> QED BY <1>2, <1>3, <1>4 DEF NewLog

LEMMA EntriesOfNewLog ==
  ASSUME TypeOK, LeadersWon, EntriesWon, NEW n \in Node, NEW log \in Seq(Entries), NewLog(n, log),
         NEW i \in Covered(Whole(log))
  PROVE  Won(log[i + 1].owner, log[i + 1].term)
<1>1. CASE Stands(log[i + 1], i)
  BY <1>1 DEF EntriesWon
<1>2. CASE state[n] = "Leader" /\ log[i + 1] = Entry(n)
  BY <1>2 DEF LeadersWon, Entry
<1> QED BY <1>1, <1>2, EntrySource

(* What stands anywhere after a step stood there before it, or is in the log *)
(* of the node that took it.                                                *)
LEMMA StandsBefore ==
  ASSUME TypeOK, NEW n \in Node, NEW log, LogStep(n, log), NEW e, NEW i, Stands(e, i)'
  PROVE  Stands(e, i) \/ (i \in Covered(Whole(log)) /\ e = log[i + 1])
<1>1. PICK v \in Views' : i \in Covered(v) /\ EntryIn(v, i) = e
  BY DEF Stands
<1>2. v \in Views \/ PartOf(v, Whole(log))
  <2>1. CASE v \in {Whole(logs'[k]) : k \in Node}
    <3>1. PICK k \in Node : v = Whole(logs'[k])
      BY <2>1
    <3>2. CASE k = n
      <4>1. v = Whole(log) /\ Whole(log) \in Slices
        BY <3>1, <3>2, WholeType DEF LogStep
      <4> QED BY <4>1, PartOfItself
    <3>3. CASE k # n
      BY <3>1, <3>3, ViewsType DEF LogStep
    <3> QED BY <3>2, <3>3
  <2>2. CASE v \in {Part(m) : m \in AppendRequests'}
    BY <2>2, ViewsType DEF LogStep, KnownPart
  <2> QED BY <2>1, <2>2 DEF Views
<1>3. CASE v \in Views
  BY <1>1, <1>3 DEF Stands
<1>4. CASE PartOf(v, Whole(log))
  <2>1. i \in Covered(Whole(log)) /\ EntryIn(v, i) = EntryIn(Whole(log), i)
    BY <1>1, <1>4, PartSource
  <2>2. Covered(Whole(log)) = 0 .. LastIndexOf(log)
    BY WholeType DEF LogStep
  <2>3. i \in Int
    BY <2>1, <2>2
  <2>4. EntryIn(Whole(log), i) = log[i + 1]
    BY <2>3, WholeType DEF LogStep
  <2> QED BY <1>1, <2>1, <2>4
<1> QED BY <1>2, <1>3, <1>4

LEMMA LogStepAgrees ==
  ASSUME TypeOK, TypeOK', Agreeing, LeaderHolds, NEW n \in Node, NEW log, LogStep(n, log)
  PROVE  Agreeing'
<1>1. log \in Seq(Entries) /\ NewLog(n, log)
  BY DEF LogStep
<1> DEFINE S == Views \union {Whole(log)}
<1>2. S \in SUBSET Slices
  BY <1>1, ViewsType, WholeType
<1>3. \A v, w \in S : Agree(v, w)
  <2> SUFFICES ASSUME NEW v \in S, NEW w \in S PROVE Agree(v, w)
    OBVIOUS
  <2>1. CASE v \in Views /\ w \in Views
    BY <2>1 DEF Agreeing
  <2>2. CASE v = Whole(log) /\ w \in Views
    BY <1>1, <2>2, NewLogAgrees
  <2>3. CASE v \in Views /\ w = Whole(log)
    <3>1. Agree(w, v)
      BY <1>1, <2>3, NewLogAgrees
    <3> QED BY <3>1, AgreeSymmetric
  <2>4. CASE v = w
    BY <2>4 DEF Agree
  <2> QED BY <2>1, <2>2, <2>3, <2>4
<1>4. \A x \in Views' : x \in Slices /\ \E v \in S : PartOf(x, v)
  <2> SUFFICES ASSUME NEW x \in Views' PROVE x \in Slices /\ \E v \in S : PartOf(x, v)
    OBVIOUS
  <2>1. CASE x \in S
    BY <1>2, <2>1, PartOfItself
  <2>2. CASE x \in {Whole(logs'[k]) : k \in Node}
    <3>1. PICK k \in Node : x = Whole(logs'[k])
      BY <2>2
    <3>2. x \in S
      BY <3>1, ViewsType DEF LogStep
    <3> QED BY <2>1, <3>2
  <2>3. CASE x \in {Part(m) : m \in AppendRequests'}
    <3>1. PICK m \in AppendRequests' : x = Part(m)
      BY <2>3
    <3>2. x \in S \/ PartOf(x, Whole(log))
      BY <3>1, ViewsType DEF LogStep, KnownPart
    <3>3. x \in Slices
      <4>1. m.prev \in Index /\ m.prevTerm \in Nat /\ m.entries \in Seq(Entries)
        BY LogTypesNext
      <4> QED BY <3>1, <4>1, PartType
    <3> QED BY <2>1, <3>2, <3>3
  <2> QED BY <2>1, <2>2, <2>3 DEF Views
<1> HIDE DEF S
<1>5. Views' \in SUBSET Slices /\ \A x \in Views' : \E v \in S : PartOf(x, v)
  BY <1>4
<1>6. \A x, y \in Views' : Agree(x, y)
  BY <1>2, <1>3, <1>5, PartsAgree
<1> QED BY <1>6 DEF Agreeing

LEMMA LogStepKeeps ==
  ASSUME TypeOK, TypeOK', ElectionInv, LeadersWon, ElectionSafety, ElectionSafety', LogInv,
         NEW n \in Node, NEW log, LogStep(n, log)
  PROVE  LogInv'
<1>1. /\ log \in Seq(Entries) /\ NewLog(n, log) /\ elected \subseteq elected'
      /\ logs'[n] = log /\ \A k \in Node \ {n} : logs'[k] = logs[k]
  BY DEF LogStep
<1>2. Agreeing' /\ DiskLogs'
  BY LogStepAgrees DEF LogStep, LogInv, DiskLogs
<1>3. ASSUME NEW e, NEW i, Stands(e, i)' PROVE Won(e.owner, e.term)
  BY <1>1, <1>3, StandsBefore, EntriesOfNewLog DEF LogInv, EntriesWon
<1>4. EntriesWon'
  <2> SUFFICES ASSUME NEW e, NEW i, Stands(e, i)' PROVE WonIn(elected', e.owner, e.term)
    BY DEF EntriesWon, Won
  <2> QED BY <1>1, <1>3, WonStays
<1>5. ASSUME NEW k \in Node, state'[k] = "Leader", NEW e, NEW i, Stands(e, i)',
             e.term = currentTerm'[k]
      PROVE  i <= LastIndexOf(logs'[k]) /\ logs'[k][i + 1] = e
  <2>1. /\ e.term = currentTerm[k]
        /\ \/ state[k] = "Leader" /\ (k = n => log \in {logs[n], Append(logs[n], Entry(n))})
           \/ state[k] = "Candidate" /\ WonIn(elected', k, currentTerm[k])
    BY <1>5 DEF LogStep, LeadersKeep
  <2>2. Won(e.owner, e.term)
    BY <1>3, <1>5
  <2>3. CASE state[k] = "Leader"
    <3>0. /\ logs[k] \in Seq(Entries) /\ logs[n] \in Seq(Entries) /\ Entry(n) \in Entries
          /\ Whole(log).prev = -1 /\ Covered(Whole(log)) = 0 .. LastIndexOf(log)
      BY <1>1, LogTypes, WholeType DEF Entry, Entries
    <3>1. CASE Stands(e, i)
      <4>1. i <= LastIndexOf(logs[k]) /\ logs[k][i + 1] = e
        BY <2>1, <2>3, <3>1 DEF LogInv, LeaderHolds
      <4>2. CASE logs'[k] = logs[k]
        BY <4>1, <4>2
      <4>3. CASE k = n /\ log = Append(logs[n], Entry(n))
        <5>1. /\ LastIndexOf(log) = Len(logs[n]) /\ Len(logs[n]) \in Nat
              /\ \A j \in 0 .. LastIndexOf(logs[n]) : log[j + 1] = logs[n][j + 1]
          BY <3>0, <4>3, AppendType
        <5>2. i \in Nat
          <6>1. PICK v \in Views : i \in Covered(v)
            BY <3>1 DEF Stands
          <6>2. v \in Slices
            BY ViewsType
          <6> QED BY <6>1, <6>2, SliceType
        <5>3. LastIndexOf(logs[n]) = Len(logs[n]) - 1
          BY DEF LastIndexOf
        <5>4. i \in 0 .. LastIndexOf(logs[n]) /\ i <= Len(logs[n]) /\ logs[n][i + 1] = e
          BY <4>1, <4>3, <5>1, <5>2, <5>3
        <5>5. i <= LastIndexOf(log) /\ log[i + 1] = e
          BY <5>1, <5>4
        <5> QED BY <1>1, <4>3, <5>5
      <4> QED BY <1>1, <2>1, <2>3, <4>2, <4>3
    <3>2. CASE i \in Covered(Whole(log)) /\ e = log[i + 1] /\ ~Stands(e, i)
      <4>1. state[n] = "Leader" /\ e = Entry(n)
        BY <1>1, <3>2, EntrySource
      <4>2. k = n
        <5>1. Won(n, currentTerm[n]) /\ Won(k, currentTerm[k]) /\ currentTerm[n] = currentTerm[k]
          BY <2>1, <2>3, <4>1 DEF LeadersWon, Entry
        <5> QED BY <5>1 DEF Won, WonIn, ElectionSafety
      <4> QED BY <1>1, <3>0, <3>2, <4>2
    <3> QED BY <1>5, <3>1, <3>2, StandsBefore
  <2>4. CASE state[k] = "Candidate" /\ WonIn(elected', k, currentTerm[k])
    <3>1. PICK f \in elected : f.node = e.owner /\ f.term = currentTerm[k]
      BY <2>1, <2>2 DEF Won, WonIn
    <3>2. PICK g \in elected' : g.node = k /\ g.term = currentTerm[k]
      BY <2>4 DEF WonIn
    <3>3. f \in elected'
      BY <1>1
    <3>4. f.node = k
      BY <3>1, <3>2, <3>3 DEF ElectionSafety
    <3>5. ~(currentTerm[f.node] = f.term /\ state[f.node] = "Candidate")
      BY DEF ElectionInv, WinnersFaithful
    <3> QED BY <2>4, <3>1, <3>4, <3>5
  <2> QED BY <2>1, <2>3, <2>4
<1>6. LeaderHolds'
  BY <1>5 DEF LeaderHolds
<1> QED BY <1>2, <1>4, <1>6 DEF LogInv
-----------------------------------------------------------------------------
(* Every handler is such a step.                                            *)

(* The comparison of terms that on_append_entries_request skips for the      *)
(* first entry of a log would have succeeded.                                *)
FirstCompared ==
  \A m \in AppendRequests :
    /\ Deliverable(m) /\ m.term >= currentTerm[m.to]
    /\ m.prev = 0 /\ m.entries # <<>> /\ logs[m.to] # <<>>
    => TermAt(logs[m.to], 0) = m.prevTerm

LEMMA TruncatedPart ==
  ASSUME NEW log \in Seq(Entries), NEW k \in Nat, k <= Len(log)
  PROVE  SubSeq(log, 1, k) \in Seq(Entries) /\ PartOf(Whole(SubSeq(log, 1, k)), Whole(log))
<1>1. PICK t : t = SubSeq(log, 1, k)
  OBVIOUS
<1>2. t \in Seq(Entries) /\ Len(t) = k /\ \A i \in 1 .. k : t[i] = log[i]
  BY <1>1, PrefixEntries
<1>3. /\ Whole(t).prev = -1 /\ Covered(Whole(t)) = 0 .. LastIndexOf(t)
      /\ \A i \in Int : EntryIn(Whole(t), i) = t[i + 1]
      /\ \A i \in Nat : TermIn(Whole(t), i) = t[i + 1].term
  BY <1>2, WholeType
<1>4. /\ Whole(log).prev = -1 /\ Covered(Whole(log)) = 0 .. LastIndexOf(log)
      /\ \A i \in Int : EntryIn(Whole(log), i) = log[i + 1]
      /\ \A i \in Nat : TermIn(Whole(log), i) = log[i + 1].term
  BY WholeType
<1>5. LastIndexOf(t) = k - 1 /\ LastIndexOf(log) = Len(log) - 1 /\ Len(log) \in Nat
  BY <1>2, LenProperties DEF LastIndexOf
<1>6. PartOf(Whole(t), Whole(log))
  <2> SUFFICES ASSUME NEW i \in Covered(Whole(t))
               PROVE  /\ i \in Covered(Whole(log))
                      /\ EntryIn(Whole(t), i) = EntryIn(Whole(log), i)
                      /\ \A j \in 0 .. i - 1 : j >= Whole(t).prev =>
                           j >= Whole(log).prev /\ TermIn(Whole(t), j) = TermIn(Whole(log), j)
    BY DEF PartOf
  <2>1. i \in 0 .. k - 1
    BY <1>3, <1>5
  <2>2. \A j \in 0 .. i : j \in Nat /\ j \in Int /\ j >= -1 /\ j + 1 \in 1 .. k /\ j \in 0 .. Len(log) - 1
    BY <1>5, <2>1
  <2>3. \A j \in 0 .. i : t[j + 1] = log[j + 1]
    BY <1>2, <2>2
  <2>4. i \in 0 .. i /\ \A j \in 0 .. i - 1 : j \in 0 .. i
    BY <2>1
  <2>5. i \in Covered(Whole(log))
    BY <1>4, <1>5, <2>2, <2>4
  <2>6. EntryIn(Whole(t), i) = EntryIn(Whole(log), i)
    BY <1>3, <1>4, <2>2, <2>3, <2>4
  <2>7. ASSUME NEW j \in 0 .. i - 1
        PROVE  j >= Whole(log).prev /\ TermIn(Whole(t), j) = TermIn(Whole(log), j)
    <3>1. j \in Nat /\ j >= -1 /\ t[j + 1] = log[j + 1]
      BY <2>2, <2>3, <2>4
    <3> QED BY <1>3, <1>4, <3>1
  <2> QED BY <2>5, <2>6, <2>7
<1> QED BY <1>1, <1>2, <1>6

(* What do_append_entries sends is a part of the leader's log: from the next *)
(* index to the end, with the term of the entry before.                     *)
LEMMA SentEntries ==
  ASSUME NEW log \in Seq(Entries), NEW prev \in Index
  PROVE  /\ EntriesFrom(log, prev + 1) \in Seq(Entries)
         /\ Len(EntriesFrom(log, prev + 1)) =
              IF prev <= LastIndexOf(log) THEN LastIndexOf(log) - prev ELSE 0
         /\ \A i \in prev + 1 .. LastIndexOf(log) :
              EntriesFrom(log, prev + 1)[i - prev] = log[i + 1]
<1>1. PICK p \in Int : p = prev /\ p >= -1
  BY DEF Index
<1>2. PICK k \in Nat : k = Len(log)
  BY LenProperties
<1>3. \A i \in p + 2 .. k : log[i] \in Entries
  <2> SUFFICES ASSUME NEW i \in p + 2 .. k PROVE log[i] \in Entries
    OBVIOUS
  <2>1. i \in 1 .. Len(log)
    BY <1>1, <1>2
  <2> QED BY <2>1, ElementOfSeq
<1>4. PICK s : s = SubSeq(log, p + 2, k)
  OBVIOUS
<1>5. /\ s \in Seq(Entries) /\ Len(s) = IF p + 2 <= k THEN k - (p + 2) + 1 ELSE 0
      /\ \A i \in 1 .. k - (p + 2) + 1 : s[i] = log[p + 2 + i - 1]
  BY <1>3, <1>4, SubSeqProperties
<1>6. ASSUME NEW i \in p + 1 .. k - 1 PROVE s[i - p] = log[i + 1]
  <2>1. i - p \in 1 .. k - (p + 2) + 1 /\ p + 2 + (i - p) - 1 = i + 1
    OBVIOUS
  <2> QED BY <1>5, <2>1
<1>7. EntriesFrom(log, prev + 1) = s
  <2>1. prev + 1 + 1 = p + 2
    BY <1>1
  <2> QED BY <1>2, <1>4, <2>1 DEF EntriesFrom
<1>8. LastIndexOf(log) = k - 1
  BY <1>2 DEF LastIndexOf
<1>9. Len(s) = IF p <= k - 1 THEN k - 1 - p ELSE 0
  BY <1>5
<1> QED BY <1>1, <1>5, <1>6, <1>7, <1>8, <1>9

LEMMA SentPart ==
  ASSUME NEW log \in Seq(Entries), NEW m, NEW prev \in Index, NEW garbage,
         m.prev = prev, m.prevTerm = PrevTerm(log, prev, garbage),
         m.entries = EntriesFrom(log, prev + 1)
  PROVE  PartOf(Part(m), Whole(log))
<1>x. PICK x : x = Part(m)
  OBVIOUS
<1>e. PICK e : e = EntriesFrom(log, prev + 1)
  OBVIOUS
<1>k. PICK k \in Int : k = LastIndexOf(log) /\ k >= -1
  BY LogType DEF Index
<1>p. prev \in Int /\ prev >= -1
  BY DEF Index
<1>1. /\ e \in Seq(Entries) /\ Len(e) = IF prev <= k THEN k - prev ELSE 0
      /\ \A i \in prev + 1 .. k : e[i - prev] = log[i + 1]
  BY <1>e, <1>k, SentEntries
<1>2. x.prev = prev /\ x.entries = e /\ x.prevTerm = PrevTerm(log, prev, garbage)
  BY <1>x, <1>e DEF Part, Slice
<1>3. /\ Whole(log).prev = -1 /\ Covered(Whole(log)) = 0 .. k
      /\ \A i \in Int : EntryIn(Whole(log), i) = log[i + 1]
      /\ \A i \in Nat : TermIn(Whole(log), i) = log[i + 1].term
  BY <1>k, WholeType
<1>4. SUFFICES ASSUME NEW i \in Covered(x)
               PROVE  /\ i \in Covered(Whole(log))
                      /\ EntryIn(x, i) = EntryIn(Whole(log), i)
                      /\ \A j \in 0 .. i - 1 : j >= x.prev =>
                           j >= Whole(log).prev /\ TermIn(x, j) = TermIn(Whole(log), j)
  BY <1>x DEF PartOf
<1>5. i \in prev + 1 .. prev + Len(e)
  BY <1>2 DEF Covered, End
<1>6. i \in Int /\ i > prev /\ i <= k /\ prev <= k /\ i \in 0 .. k
  BY <1>1, <1>5, <1>p
<1>7. \A j \in prev + 1 .. k : EntryIn(x, j) = log[j + 1]
  BY <1>1, <1>2 DEF EntryIn
<1>8. i \in prev + 1 .. k
  BY <1>6, <1>p
<1>9. ASSUME NEW j \in 0 .. i - 1, j >= x.prev
      PROVE  j >= Whole(log).prev /\ TermIn(x, j) = TermIn(Whole(log), j)
  <2>1. j \in Nat /\ j >= -1 /\ j >= prev /\ j <= k
    BY <1>2, <1>6, <1>9
  <2>2. TermIn(Whole(log), j) = log[j + 1].term
    BY <1>3, <2>1
  <2>3. CASE j = prev
    <3>1. TermIn(x, j) = PrevTerm(log, prev, garbage)
      BY <1>2, <2>3 DEF TermIn
    <3>2. PrevTerm(log, prev, garbage) = log[prev + 1].term
      BY <1>k, <2>1, <2>3 DEF PrevTerm, TermAt
    <3> QED BY <1>3, <2>1, <2>2, <2>3, <3>1, <3>2
  <2>4. CASE j # prev
    <3>1. j \in prev + 1 .. k
      BY <1>p, <2>1, <2>4
    <3>2. TermIn(x, j) = EntryIn(x, j).term
      BY <1>2, <2>4 DEF TermIn
    <3> QED BY <1>3, <1>7, <2>1, <2>2, <3>1, <3>2
  <2> QED BY <1>3, <2>1, <2>3, <2>4
<1>10. EntryIn(x, i) = EntryIn(Whole(log), i)
  BY <1>3, <1>6, <1>7, <1>8
<1> QED BY <1>3, <1>6, <1>9, <1>10

(* What the steps of one node leave of the leaders and of the disks.         *)
LEMMA BallotLeaders ==
  ASSUME NEW n \in Node, BallotStep(n), NEW log,
         state'[n] = "Leader" => log \in {logs[n], Append(logs[n], Entry(n))}
  PROVE  LeadersKeep(n, log) /\ elected \subseteq elected'
<1>1. elected' = elected
  BY DEF BallotStep
<1>2. ASSUME NEW k \in Node, state'[k] = "Leader"
      PROVE  state[k] = "Leader" /\ currentTerm'[k] = currentTerm[k]
  BY <1>2 DEF BallotStep
<1> QED BY <1>1, <1>2 DEF LeadersKeep

LEMMA DumpLogs ==
  ASSUME TypeOK, DiskLogs, NEW n \in Node, Dump(n), \A k \in Node \ {n} : logs'[k] = logs[k],
         Running(n) \/ logs'[n] = logs[n]
  PROVE  \A k \in Node : disk'[k].logs = logs'[k]
BY DEF Dump, DiskLogs, TypeOK, LogTypeOK

LEMMA SameLogStep ==
  ASSUME TypeOK, NEW n \in Node, logs' = logs, \A k \in Node : disk'[k].logs = logs[k],
         \A m \in AppendRequests' : KnownPart(m, logs[n]),
         elected \subseteq elected', LeadersKeep(n, logs[n])
  PROVE  LogStep(n, logs[n])
<1>1. logs[n] \in Seq(Entries)
  BY LogTypes
<1>2. NewLog(n, logs[n])
  BY <1>1, WholeType, PartOfItself DEF NewLog
<1> QED BY <1>1, <1>2 DEF LogStep

LEMMA OldRequests ==
  ASSUME NEW log, \A m \in msgs' : m.type = "AppendRequest" => m \in msgs
  PROVE  \A m \in AppendRequests' : KnownPart(m, log)
BY DEF AppendRequests, KnownPart

(* do_append_entries.                                                       *)
Sent(n, log, m) ==
  /\ m.type = "AppendRequest" /\ m.from = n /\ m.to \in sendEnabled[n] /\ m.to \in Node
  /\ m.term = currentTerm[n] /\ m.seq = seq[n][m.to] /\ m.live = TRUE
  /\ m.prev = nextIndex[n][m.to] - 1 /\ m.prev \in Index
  /\ m.entries = EntriesFrom(log, m.prev + 1)
  /\ \E garbage : m.prevTerm = PrevTerm(log, m.prev, garbage)

LEMMA SentRequest ==
  ASSUME TypeOK, NEW n \in Node, NEW log \in Seq(Entries), DoAppendEntries(n, log),
         NEW m \in msgs', m \notin msgs
  PROVE  Sent(n, log, m)
<1>1. PICK p \in sendEnabled[n] : \E garbage : m = AppendRequest(n, p, log, garbage)
  BY Zenon DEF DoAppendEntries
<1>2. PICK garbage : m = AppendRequest(n, p, log, garbage)
  BY <1>1
<1>3. p \in Node /\ nextIndex[n][p] \in Nat
  BY <1>1 DEF TypeOK, PeerTypeOK
<1>4. /\ m.type = "AppendRequest" /\ m.from = n /\ m.to = p /\ m.term = currentTerm[n]
      /\ m.seq = seq[n][p] /\ m.live = TRUE
      /\ m.prev = nextIndex[n][p] - 1 /\ m.prevTerm = PrevTerm(log, nextIndex[n][p] - 1, garbage)
      /\ m.entries = EntriesFrom(log, nextIndex[n][p])
  BY <1>2 DEF AppendRequest
<1>5. m.prev \in Index /\ m.prev + 1 = nextIndex[n][p]
  BY <1>3, <1>4 DEF Index
<1> QED BY <1>1, <1>3, <1>4, <1>5 DEF Sent

LEMMA SendKnown ==
  ASSUME TypeOK, NEW n \in Node, NEW log \in Seq(Entries), DoAppendEntries(n, log)
  PROVE  \A m \in AppendRequests' : KnownPart(m, log)
<1> SUFFICES ASSUME NEW m \in AppendRequests' PROVE KnownPart(m, log)
  OBVIOUS
<1>1. m \in msgs' /\ m.type = "AppendRequest"
  BY DEF AppendRequests
<1>2. CASE m \in msgs
  BY <1>1, <1>2 DEF AppendRequests, KnownPart
<1>3. CASE m \notin msgs
  <2>0. Sent(n, log, m)
    BY <1>1, <1>3, SentRequest
  <2>1. /\ m.prev \in Index /\ m.entries = EntriesFrom(log, m.prev + 1)
        /\ \E garbage : m.prevTerm = PrevTerm(log, m.prev, garbage)
    BY <2>0 DEF Sent
  <2> QED BY <2>1, SentPart DEF KnownPart
<1> QED BY <1>2, <1>3

LEMMA HeartbeatLogs ==
  ASSUME TypeOK, ElectionInv, LogInv, NEW n \in Node, OnTimerHeartbeat(n)
  PROVE  LogStep(n, logs[n])
<1>1. DoAppendEntries(n, logs[n]) /\ logs' = logs /\ disk' = disk /\ BallotStep(n)
  BY HeartbeatBallot DEF OnTimerHeartbeat, logVars
<1>2. logs[n] \in Seq(Entries) /\ \A k \in Node : disk'[k].logs = logs[k]
  BY <1>1, LogTypes DEF LogInv, DiskLogs
<1> QED BY <1>1, <1>2, SendKnown, BallotLeaders, SameLogStep

LEMMA DoLogLogs ==
  ASSUME TypeOK, ElectionInv, LogInv, NEW n \in Node, DoLog(n)
  PROVE  LogStep(n, Append(logs[n], Entry(n)))
<1>l. PICK log : log = Append(logs[n], Entry(n))
  OBVIOUS
<1>1. /\ state[n] = "Leader" /\ Running(n) /\ logs' = [logs EXCEPT ![n] = log] /\ Dump(n)
      /\ DoAppendEntries(n, logs'[n]) /\ BallotStep(n)
  BY <1>l, DoLogBallot DEF DoLog
<1>2. /\ logs[n] \in Seq(Entries) /\ Entry(n) \in Entries
      /\ logs'[n] = log /\ \A k \in Node \ {n} : logs'[k] = logs[k]
  BY <1>1, LogTypes DEF Entry, Entries, TypeOK, LogTypeOK
<1>3. log \in Seq(Entries) /\ NewLog(n, log)
  BY <1>1, <1>2, <1>l, AppendType DEF NewLog
<1>4. \A k \in Node : disk'[k].logs = logs'[k]
  BY <1>1, <1>2, DumpLogs DEF LogInv
<1>5. \A m \in AppendRequests' : KnownPart(m, log)
  BY <1>1, <1>2, <1>3, SendKnown
<1>6. LeadersKeep(n, log) /\ elected \subseteq elected'
  BY <1>1, <1>l, BallotLeaders
<1> QED BY <1>2, <1>3, <1>4, <1>5, <1>6, <1>l DEF LogStep

(* Elections.                                                               *)
LEMMA ElectionLogs ==
  ASSUME TypeOK, LogInv, NEW n \in Node, OnTimerElection(n)
  PROVE  LogStep(n, logs[n])
<1>1. /\ state' = [state EXCEPT ![n] = "Candidate"]
      /\ currentTerm' = [currentTerm EXCEPT ![n] = @ + 1]
      /\ logs' = logs /\ Dump(n) /\ elected' = elected
      /\ msgs' = msgs \union {VoteRequest(n, p) : p \in sendEnabled[n]}
  BY DEF OnTimerElection, logVars
<1>2. \A m \in msgs' : m.type = "AppendRequest" => m \in msgs
  BY <1>1 DEF VoteRequest
<1>3. LeadersKeep(n, logs[n])
  BY <1>1, NameTypes DEF LeadersKeep
<1>4. \A k \in Node : disk'[k].logs = logs[k]
  BY <1>1, DumpLogs DEF LogInv
<1> QED BY <1>1, <1>2, <1>3, <1>4, OldRequests, SameLogStep

LEMMA WinLogs ==
  ASSUME TypeOK, LogInv, NEW n \in Node, state[n] = "Candidate",
         UNCHANGED <<currentTerm, logs, disk>>, msgs' \subseteq msgs,
         BecomeLeader(n) \/ UNCHANGED <<state, elected>>
  PROVE  LogStep(n, logs[n])
<1>1. CASE BecomeLeader(n)
  <2>1. NameStep(n)
    BY <1>1, BecomeLeaderNames
  <2>2. \A k \in Node \ {n} : state'[k] = state[k]
    BY <2>1 DEF NameStep
  <2>3. elected \subseteq elected' /\ (state'[n] = "Leader" => WonIn(elected', n, currentTerm[n]))
    BY <2>1 DEF NameStep
  <2> QED BY <2>2, <2>3, OldRequests, SameLogStep DEF LeadersKeep, LogInv, DiskLogs
<1>2. CASE UNCHANGED <<state, elected>>
  BY <1>2, OldRequests, SameLogStep DEF LeadersKeep, LogInv, DiskLogs
<1> QED BY <1>1, <1>2

LEMMA ElectionFailLogs ==
  ASSUME TypeOK, LogInv, NEW n \in Node, OnTimerElectionFail(n)
  PROVE  LogStep(n, logs[n])
<1>1. /\ state[n] = "Candidate" /\ UNCHANGED <<currentTerm, logs, disk, msgs>>
      /\ BecomeLeader(n) \/ UNCHANGED <<state, elected>>
  BY Zenon DEF OnTimerElectionFail, logVars
<1> QED BY <1>1, WinLogs

LEMMA VoteCountedLogs ==
  ASSUME TypeOK, LogInv, NEW m \in msgs, OnVoteResponseCounted(m)
  PROVE  LogStep(m.to, logs[m.to])
<1>1. /\ state[m.to] = "Candidate" /\ UNCHANGED <<currentTerm, logs, disk>> /\ Receive(m)
      /\ BecomeLeader(m.to) \/ UNCHANGED <<state, elected>>
  BY Zenon DEF OnVoteResponseCounted, logVars
<1>2. msgs' \subseteq msgs /\ m.to \in Node
  BY <1>1, HistoryTypes DEF Receive
<1> QED BY <1>1, <1>2, WinLogs

LEMMA VoteRequestLogs ==
  ASSUME TypeOK, TypeOK', ElectionInv, LogInv, NEW m \in msgs, OnVoteRequest(m)
  PROVE  LogStep(m.to, logs[m.to])
<1>1. /\ logs' = logs /\ m.to \in Node /\ BallotStep(m.to)
      /\ UNCHANGED disk \/ Dump(m.to)
      /\ Receive(m) \/ \E term, granted : Reply(m, VoteResponse(m, term, granted))
  <2>1. logs' = logs /\ (UNCHANGED disk \/ Dump(m.to))
    BY Zenon DEF OnVoteRequest, logVars
  <2>2. Receive(m) \/ \E term, granted : Reply(m, VoteResponse(m, term, granted))
    BY Zenon DEF OnVoteRequest
  <2> QED BY <2>1, <2>2, HistoryTypes, VoteRequestBallot
<1>2. \A a \in msgs' : a.type = "AppendRequest" => a \in msgs
  BY <1>1, AnswerNames DEF Receive, VoteResponse
<1>3. \A k \in Node : disk'[k].logs = logs[k]
  BY <1>1, DumpLogs DEF LogInv, DiskLogs
<1> QED BY <1>1, <1>2, <1>3, OldRequests, BallotLeaders, SameLogStep

LEMMA ResponseLogs ==
  ASSUME TypeOK, TypeOK', ElectionInv, LogInv, NEW m \in msgs,
         \/ OnVoteResponseNewer(m) \/ OnAppendEntriesResponseNewer(m)
         \/ OnAppendEntriesResponseFailed(m) \/ OnAppendEntriesResponseSuccess(m)
  PROVE  LogStep(m.to, logs[m.to])
<1>1. /\ logs' = logs /\ m.to \in Node /\ BallotStep(m.to) /\ msgs' \subseteq msgs
      /\ UNCHANGED disk \/ Dump(m.to)
  <2>1. logs' = logs /\ (UNCHANGED disk \/ Dump(m.to)) /\ Receive(m)
    BY DEF OnVoteResponseNewer, OnAppendEntriesResponseNewer, OnAppendEntriesResponseFailed,
       OnAppendEntriesResponseSuccess, logVars
  <2> QED BY <2>1, HistoryTypes, ResponseBallot DEF Receive
<1>2. \A k \in Node : disk'[k].logs = logs[k]
  BY <1>1, DumpLogs DEF LogInv, DiskLogs
<1> QED BY <1>1, <1>2, OldRequests, BallotLeaders, SameLogStep

(* on_append_entries_request.  Nobody takes a request in its own term and    *)
(* stays its leader: the sender has won that term.                           *)
LEMMA TakerFollows ==
  ASSUME TypeOK, ElectionInv, LeadersWon, RequestsByWinners, ElectionSafety,
         NEW m \in msgs, m.type = "AppendRequest", HandleRequestRoutine(m)
  PROVE  state'[m.to] # "Leader"
<1>1. /\ m.to \in Node /\ m.from # m.to /\ m.term >= currentTerm[m.to]
      /\ m.term \in Nat /\ currentTerm[m.to] \in Nat
  BY HistoryTypes, BallotTypes DEF ElectionInv, PeersOnly, HandleRequestRoutine
<1>2. state' = IF StepsDown(m) THEN [state EXCEPT ![m.to] = "Follower"] ELSE state
  BY DEF HandleRequestRoutine
<1>3. CASE StepsDown(m)
  BY <1>1, <1>2, <1>3, NameTypes
<1>4. CASE ~StepsDown(m) /\ state[m.to] = "Leader"
  <2>1. m.term = currentTerm[m.to]
    BY <1>1, <1>4 DEF StepsDown
  <2>2. Won(m.from, m.term) /\ Won(m.to, m.term)
    BY <1>1, <1>4, <2>1 DEF RequestsByWinners, LeadersWon
  <2>3. m.from = m.to
    BY <2>2 DEF Won, WonIn, ElectionSafety
  <2> QED BY <1>1, <2>3
<1> QED BY <1>2, <1>3, <1>4

LEMMA ConflictLog ==
  ASSUME TypeOK, NEW m \in AppendRequests, NEW log \in Seq(Entries), m.prev <= LastIndexOf(log),
         NEW kept \in -1 .. m.prev - 1
  PROVE  /\ SubSeq(log, 1, kept + 1) \in Seq(Entries)
         /\ PartOf(Whole(SubSeq(log, 1, kept + 1)), Whole(log))
<1>1. m.prev \in Int /\ m.prev >= -1 /\ Len(log) \in Nat
  BY LogTypes, LenProperties DEF Index
<1>2. kept + 1 \in Nat /\ kept + 1 <= Len(log)
  BY <1>1 DEF LastIndexOf
<1> QED BY <1>2, TruncatedPart

LEMMA AcceptLog ==
  ASSUME TypeOK, FirstCompared, NEW n \in Node, NEW m \in AppendRequests, m.to = n,
         Deliverable(m), m.term >= currentTerm[n], m.prev <= LastIndexOf(logs[n]),
         ~Conflicts(m, logs[n])
  PROVE  AfterAppend(m, logs[n]) \in Seq(Entries) /\ NewLog(n, AfterAppend(m, logs[n]))
<1>1. /\ logs[n] \in Seq(Entries) /\ m.prev \in Index /\ m.entries \in Seq(Entries)
  BY LogTypes
<1>2. m.prev \in Int /\ m.prev >= -1
  BY <1>1 DEF Index
<1>3. CASE m.prev < BaseIndexOf(logs[n])
  <2>1. AfterAppend(m, logs[n]) = logs[n]
    BY <1>2, <1>3 DEF AfterAppend, BaseIndexOf
  <2> QED BY <1>1, <2>1, WholeType, PartOfItself DEF NewLog
<1>4. CASE m.prev >= BaseIndexOf(logs[n])
  <2>1. AfterAppend(m, logs[n]) = Spliced(logs[n], m.prev, m.entries)
    BY <1>4 DEF AfterAppend, Spliced
  <2>2. Spliced(logs[n], m.prev, m.entries) \in Seq(Entries)
    BY <1>1, SplicedType
  <2>3. CASE m.prev = -1 \/ TermAt(logs[n], m.prev) = m.prevTerm
    BY <2>1, <2>2, <2>3 DEF NewLog
  <2>4. CASE m.prev # -1 /\ TermAt(logs[n], m.prev) # m.prevTerm
    <3>1. logs[n] # <<>>
      BY <1>2, <2>4 DEF LastIndexOf
    <3>2. m.prev = 0
      BY <1>2, <1>4, <2>4, <3>1 DEF Conflicts, BaseIndexOf
    <3>3. m.entries = <<>>
      BY <2>4, <3>1, <3>2 DEF FirstCompared
    <3>4. 1 \in Nat /\ 1 <= Len(logs[n])
      BY <1>1, <3>1, LenProperties, EmptySeq
    <3>5. SubSeq(logs[n], 1, 1) \in Seq(Entries) /\ PartOf(Whole(SubSeq(logs[n], 1, 1)), Whole(logs[n]))
      BY <1>1, <3>4, TruncatedPart
    <3>6. Spliced(logs[n], m.prev, m.entries) = SubSeq(logs[n], 1, 1)
      BY <3>2, <3>3, <3>5, ConcatEmptySeq DEF Spliced
    <3> QED BY <2>1, <3>5, <3>6 DEF NewLog
  <2> QED BY <2>3, <2>4
<1> QED BY <1>2, <1>3, <1>4 DEF BaseIndexOf

LEMMA AppendRequestLogs ==
  ASSUME TypeOK, TypeOK', ElectionInv, LeadersWon, RequestsByWinners, ElectionSafety, FirstCompared,
         LogInv, NEW m \in msgs, OnAppendEntriesRequest(m)
  PROVE  \E log : LogStep(m.to, log)
<1> DEFINE n == m.to
<1>1. /\ n \in Node /\ m \in AppendRequests /\ m.type = "AppendRequest" /\ BallotStep(n) /\ Running(n)
      /\ logs[n] \in Seq(Entries) /\ logs \in [Node -> Seq(Entries)]
  BY HistoryTypes, AppendRequestBallot, LogTypes
  DEF OnAppendEntriesRequest, AppendRequests, TypeOK, LogTypeOK
<1>2. \A a \in msgs' : a.type = "AppendRequest" => a \in msgs
  <2>1. Receive(m) \/ \E term, success, last : Reply(m, AppendResponse(m, term, success, last))
    BY Zenon DEF OnAppendEntriesRequest, AppendOldTerm, AppendOutOfOrder, AppendMissing,
       AppendConflict, AppendAccept
  <2> QED BY <2>1, AnswerNames DEF Receive, AppendResponse
<1>3. ASSUME NEW log, log \in Seq(Entries), NewLog(n, log), logs' = [logs EXCEPT ![n] = log],
             Dump(n), HandleRequestRoutine(m)
      PROVE  LogStep(n, log)
  <2>1. logs'[n] = log /\ \A k \in Node \ {n} : logs'[k] = logs[k]
    BY <1>1, <1>3
  <2>2. \A k \in Node : disk'[k].logs = logs'[k]
    BY <1>1, <1>3, <2>1, DumpLogs DEF LogInv
  <2>3. LeadersKeep(n, log) /\ elected \subseteq elected'
    BY <1>1, <1>3, TakerFollows, BallotLeaders
  <2>4. \A a \in AppendRequests' : KnownPart(a, log)
    BY <1>2, OldRequests
  <2> QED BY <1>3, <2>1, <2>2, <2>3, <2>4 DEF LogStep
<1>4. ASSUME logs' = logs, UNCHANGED disk \/ Dump(n) PROVE LogStep(n, logs[n])
  <2>1. \A k \in Node : disk'[k].logs = logs[k]
    BY <1>1, <1>4, DumpLogs DEF LogInv, DiskLogs
  <2> QED BY <1>1, <1>2, <1>4, <2>1, OldRequests, BallotLeaders, SameLogStep
<1>5. CASE AppendOldTerm(m) \/ AppendOutOfOrder(m) \/ AppendMissing(m)
  <2>1. logs' = logs /\ (UNCHANGED disk \/ Dump(n))
    BY <1>5 DEF AppendOldTerm, AppendOutOfOrder, AppendMissing, logVars
  <2> QED BY <1>4, <2>1
<1>6. CASE AppendConflict(m)
  <2>1. PICK kept \in -1 .. m.prev - 1 :
          logs' = [logs EXCEPT ![n] = SubSeq(logs[n], 1, kept + 1)] /\ Dump(n)
    BY <1>1, <1>6 DEF AppendConflict
  <2>2. HandleRequestRoutine(m) /\ m.prev <= LastIndexOf(logs[n])
    BY <1>6 DEF AppendConflict
  <2>3. PICK log : log = SubSeq(logs[n], 1, kept + 1)
    OBVIOUS
  <2>4. log \in Seq(Entries) /\ PartOf(Whole(log), Whole(logs[n]))
    BY <1>1, <2>2, <2>3, ConflictLog
  <2> QED BY <1>3, <2>1, <2>2, <2>3, <2>4 DEF NewLog
<1>7. CASE AppendAccept(m)
  <2>1. PICK log : log = AfterAppend(m, logs[n])
    OBVIOUS
  <2>2. /\ HandleRequestRoutine(m) /\ m.prev <= LastIndexOf(logs[n]) /\ ~Conflicts(m, logs[n])
        /\ logs' = [logs EXCEPT ![n] = log] /\ Dump(n) /\ m.term >= currentTerm[n]
        /\ Deliverable(m)
    BY <1>7, <2>1 DEF AppendAccept, HandleRequestRoutine, OnAppendEntriesRequest
  <2>3. log \in Seq(Entries) /\ NewLog(n, log)
    BY <1>1, <2>1, <2>2, AcceptLog
  <2> QED BY <1>3, <2>2, <2>3
<1> QED BY <1>5, <1>6, <1>7 DEF OnAppendEntriesRequest

(* Crashes, pauses and cuts.                                                *)
LEMMA FaultLogs ==
  ASSUME TypeOK, LogInv, NEW n \in Node, Fault(n)
  PROVE  LogStep(n, logs[n])
<1>1. CASE Crash(n)
  <2>1. /\ state' = [state EXCEPT ![n] = "NotRunning"]
        /\ currentTerm' = [currentTerm EXCEPT ![n] = disk[n].term]
        /\ logs' = [logs EXCEPT ![n] = disk[n].logs]
        /\ disk' = disk /\ elected' = elected
    BY <1>1 DEF Crash
  <2>2. logs' = logs /\ \A k \in Node : disk'[k].logs = logs[k]
    BY <2>1 DEF LogInv, DiskLogs, TypeOK, LogTypeOK
  <2>3. LeadersKeep(n, logs[n])
    BY <2>1, NameTypes DEF LeadersKeep
  <2>4. ASSUME NEW a \in AppendRequests' PROVE KnownPart(a, logs[n])
    <3>0. a \in msgs' /\ a.type = "AppendRequest"
      BY DEF AppendRequests
    <3>1. CASE a \in msgs
      BY <3>0, <3>1 DEF AppendRequests, KnownPart
    <3>2. ASSUME NEW o \in msgs, IsRequest(o), a = [o EXCEPT !.live = FALSE]
          PROVE  o \in AppendRequests /\ Part(a) = Part(o)
      <4>1. o \in Messages
        BY DEF TypeOK
      <4>2. o.type = a.type
        BY <3>2, <4>1 DEF Messages, IsRequest
      <4>3. a.prev = o.prev /\ a.prevTerm = o.prevTerm /\ a.entries = o.entries
        BY <3>0, <3>2, <4>1, <4>2 DEF Messages
      <4> QED BY <3>0, <4>2, <4>3 DEF AppendRequests, Part
    <3> QED BY <1>1, <3>0, <3>1, <3>2 DEF Crash, KnownPart
  <2> QED BY <2>1, <2>2, <2>3, <2>4, SameLogStep
<1>2. CASE ~Crash(n)
  <2>1. /\ UNCHANGED <<currentTerm, elected, msgs, logs, disk>>
        /\ state' = state \/ state' = [state EXCEPT ![n] = "Follower"]
    BY <1>2 DEF Fault, Restart, Pause, Resume, DisableSend, EnableSend, coreVars, histVars, logVars
  <2>2. LeadersKeep(n, logs[n])
    BY <2>1, NameTypes DEF LeadersKeep
  <2> QED BY <2>1, <2>2, OldRequests, SameLogStep DEF LogInv, DiskLogs
<1> QED BY <1>1, <1>2
-----------------------------------------------------------------------------
LEMMA LogInit == Init => LogInv
<1> SUFFICES ASSUME Init PROVE LogInv
  OBVIOUS
<1>1. /\ logs = [n \in Node |-> <<>>] /\ msgs = {} /\ disk = [n \in Node |-> EmptyDisk]
      /\ state = [n \in Node |-> "Follower"]
  BY DEF Init, Start
<1>2. \A v \in Views : Covered(v) = {}
  <2>1. Covered(Whole(<<>>)) = {}
    BY DEF Whole, Slice, Covered, End
  <2> QED BY <1>1, <2>1 DEF Views, AppendRequests
<1> QED BY <1>1, <1>2 DEF LogInv, Agreeing, Agree, EntriesWon, LeaderHolds, DiskLogs, Stands, EmptyDisk

LEMMA LogNext ==
  ASSUME TypeOK, TypeOK', ElectionInv, LeadersWon, RequestsByWinners, ElectionSafety, ElectionSafety',
         FirstCompared, LogInv, [Next]_vars
  PROVE  LogInv'
<1>1. ASSUME NEW n \in Node, Timer(n) \/ DoLog(n) \/ Fault(n) PROVE LogInv'
  <2>1. \E log : LogStep(n, log)
    BY <1>1, ElectionLogs, ElectionFailLogs, HeartbeatLogs, DoLogLogs, FaultLogs DEF Timer
  <2> QED BY <2>1, LogStepKeeps
<1>2. ASSUME NEW m \in msgs, Handle(m) PROVE LogInv'
  <2>1. \E log : LogStep(m.to, log)
    BY <1>2, VoteRequestLogs, VoteCountedLogs, ResponseLogs, AppendRequestLogs DEF Handle
  <2> QED BY <2>1, HistoryTypes, LogStepKeeps
<1>3. CASE UNCHANGED vars
  BY <1>3 DEF vars, LogInv, Agreeing, Agree, EntriesWon, LeaderHolds, DiskLogs, Stands, Views,
     AppendRequests, Won
<1> QED BY <1>1, <1>2, <1>3 DEF Next

LEMMA SamePrefix ==
  ASSUME NEW a \in Seq(Entries), NEW b \in Seq(Entries), NEW i \in Nat, i <= Len(a), i <= Len(b),
         \A j \in 1 .. i : a[j] = b[j]
  PROVE  SubSeq(a, 1, i) = SubSeq(b, 1, i)
<1>1. /\ SubSeq(a, 1, i) \in Seq(Entries) /\ Len(SubSeq(a, 1, i)) = i
      /\ \A j \in 1 .. i : SubSeq(a, 1, i)[j] = a[j]
  BY PrefixEntries
<1>2. /\ SubSeq(b, 1, i) \in Seq(Entries) /\ Len(SubSeq(b, 1, i)) = i
      /\ \A j \in 1 .. i : SubSeq(b, 1, i)[j] = b[j]
  BY PrefixEntries
<1> QED BY <1>1, <1>2, SeqEqual

(* The term of an entry tells its owner, so equal terms are equal entries.   *)
LEMMA MatchFromTerms ==
  ASSUME TypeOK, LogInv, ElectionSafety
  PROVE  LogMatching
<1> SUFFICES ASSUME NEW n \in Node, NEW o \in Node,
                    NEW i \in DOMAIN logs[n] \cap DOMAIN logs[o], logs[n][i].term = logs[o][i].term
             PROVE  SubSeq(logs[n], 1, i) = SubSeq(logs[o], 1, i)
  BY DEF LogMatching
<1>1. /\ logs[n] \in Seq(Entries) /\ logs[o] \in Seq(Entries)
      /\ Whole(logs[n]) \in Views /\ Whole(logs[o]) \in Views
  BY LogTypes, ViewsType
<1>2. /\ Len(logs[n]) \in Nat /\ i \in 1 .. Len(logs[n])
      /\ Len(logs[o]) \in Nat /\ i \in 1 .. Len(logs[o])
  BY <1>1, LenProperties
<1>3. ASSUME NEW k \in Node
      PROVE  /\ Whole(logs[k]).prev = -1 /\ Covered(Whole(logs[k])) = 0 .. Len(logs[k]) - 1
             /\ \A j \in Int : EntryIn(Whole(logs[k]), j) = logs[k][j + 1]
             /\ \A j \in Nat : TermIn(Whole(logs[k]), j) = logs[k][j + 1].term
  BY LogTypes, WholeType DEF LastIndexOf
<1>4. ASSUME NEW j \in 1 .. i PROVE logs[n][j] = logs[o][j]
  <2>1. /\ j \in 1 .. Len(logs[n]) /\ j \in 1 .. Len(logs[o])
        /\ j - 1 \in Nat /\ j - 1 \in Int /\ j - 1 + 1 = j /\ i - 1 \in Nat /\ i - 1 + 1 = i
        /\ j - 1 \in 0 .. Len(logs[n]) - 1 /\ j - 1 \in 0 .. Len(logs[o]) - 1
        /\ i - 1 \in 0 .. Len(logs[n]) - 1 /\ i - 1 \in 0 .. Len(logs[o]) - 1
        /\ j - 1 >= -1
    <3>1. PICK a \in Nat : a = Len(logs[n]) /\ i \in 1 .. a
      BY <1>2
    <3>2. PICK b \in Nat : b = Len(logs[o]) /\ i \in 1 .. b
      BY <1>2
    <3>3. /\ j \in 1 .. a /\ j \in 1 .. b /\ j - 1 \in Nat /\ j - 1 >= -1 /\ i - 1 \in Nat
          /\ j - 1 \in 0 .. a - 1 /\ j - 1 \in 0 .. b - 1
          /\ i - 1 \in 0 .. a - 1 /\ i - 1 \in 0 .. b - 1 /\ j - 1 + 1 = j /\ i - 1 + 1 = i
      BY <3>1, <3>2
    <3> QED BY <3>1, <3>2, <3>3
  <2>2. logs[n][j].term = logs[o][j].term
    <3>1. CASE j = i
      BY <3>1
    <3>2. CASE j # i
      <4>1. j - 1 \in 0 .. (i - 1) - 1
        BY <1>2, <3>2
      <4>2. Agree(Whole(logs[n]), Whole(logs[o]))
        BY <1>1 DEF LogInv, Agreeing
      <4>3. TermIn(Whole(logs[n]), i - 1) = TermIn(Whole(logs[o]), i - 1)
        BY <1>3, <2>1
      <4>4. i - 1 \in Covered(Whole(logs[n])) \cap Covered(Whole(logs[o]))
        BY <1>3, <2>1
      <4>5. TermIn(Whole(logs[n]), j - 1) = TermIn(Whole(logs[o]), j - 1)
        BY <1>3, <2>1, <4>1, <4>2, <4>3, <4>4 DEF Agree
      <4> QED BY <1>3, <2>1, <4>5
    <3> QED BY <3>1, <3>2
  <2>3. ASSUME NEW k \in Node, j \in 1 .. Len(logs[k]), Whole(logs[k]) \in Views,
               j - 1 \in 0 .. Len(logs[k]) - 1
        PROVE  Won(logs[k][j].owner, logs[k][j].term)
    <3>1. EntryIn(Whole(logs[k]), j - 1) = logs[k][j] /\ j - 1 \in Covered(Whole(logs[k]))
      BY <1>3, <2>1, <2>3
    <3>2. Stands(logs[k][j], j - 1)
      BY <2>3, <3>1 DEF Stands
    <3> QED BY <3>2 DEF LogInv, EntriesWon
  <2>4. logs[n][j].owner = logs[o][j].owner
    BY <1>1, <2>1, <2>2, <2>3 DEF Won, WonIn, ElectionSafety
  <2>5. logs[n][j] \in Entries /\ logs[o][j] \in Entries
    BY <1>1, <2>1, ElementOfSeq
  <2> QED BY <2>2, <2>4, <2>5 DEF Entries
<1>5. PICK a, b \in Seq(Entries), k \in Nat : a = logs[n] /\ b = logs[o] /\ k = i
  BY <1>1, <1>2
<1>6. k <= Len(a) /\ k <= Len(b) /\ \A j \in 1 .. k : a[j] = b[j]
  BY <1>2, <1>4, <1>5
<1>7. SubSeq(a, 1, k) = SubSeq(b, 1, k)
  BY <1>6, SamePrefix
<1> QED BY <1>5, <1>7

(* Two logs that agree on an entry agree on all before it, whatever is late, *)
(* lost, paused or crashes, as long as no two leaders are elected in a term  *)
(* and no follower differs from its leader at the first entry of the log,    *)
(* the one that on_append_entries_request does not compare.                  *)
THEOREM LogsMatch == Spec /\ []ElectionSafety /\ []FirstCompared => []LogMatching
<1>1. /\ TypeOK /\ TypeOK' /\ ElectionInv /\ LeadersWon /\ RequestsByWinners
      /\ ElectionSafety /\ ElectionSafety' /\ FirstCompared /\ LogInv /\ [Next]_vars
      => LogInv'
  BY LogNext
<1>2. TypeOK /\ LogInv /\ ElectionSafety => LogMatching
  BY MatchFromTerms
<1> QED BY <1>1, <1>2, LogInit, TypeCorrect, ElectionInvariant, RequestsWon, PTL DEF Spec

(* With RPCs that never arrive late and no link cut the elections are safe,  *)
(* and the comparison of the first entry is all that the logs lack.          *)
THEOREM TimelyLogsMatch ==
  ASSUME Timely, MaxCut = 0 PROVE Spec /\ []FirstCompared => []LogMatching
BY LogsMatch, TimelyElectionsSafe, PTL
-----------------------------------------------------------------------------
(* A leader's own entries, when no RPC is late.  What a leader has under way  *)
(* to a follower in its term shows its log as it was when it was sent.       *)

CurrentRequests == {m \in AppendRequests : m.live /\ m.term = currentTerm[m.from]}

Earlier(m) == {o \in CurrentRequests : o.from = m.from /\ o.to = m.to /\ o.seq <= m.seq}

(* The request shows the sender's log up to its end b, or it is a heartbeat   *)
(* that presumes more than is there; the follower has no entry of this term   *)
(* after b, and nothing sent before m has one.                               *)
Shows(m, log) ==
  /\ m.prev # -1 => TermAt(log, m.prev) = m.prevTerm
  /\ \A i \in Covered(Part(m)) : EntryIn(Part(m), i) = log[i + 1]

Until(m, b) ==
  /\ b <= LastIndexOf(logs[m.from])
  /\ \/ m.prev <= b /\ b = End(Part(m)) /\ Shows(m, logs[m.from])
     \/ m.entries = <<>> /\ b < m.prev
  /\ m.term >= currentTerm[m.to] =>
       \A i \in 0 .. LastIndexOf(logs[m.to]) : TermAt(logs[m.to], i) = m.term => i <= b
  /\ \A o \in Earlier(m) : o.entries = <<>> \/ End(Part(o)) <= b

LogTerms == \A n \in Node : \A i \in 0 .. LastIndexOf(logs[n]) : TermAt(logs[n], i) <= disk[n].term
RequestTerms == \A m \in AppendRequests : \A i \in DOMAIN m.entries : m.entries[i].term <= m.term
SendersLead ==
  \A m \in CurrentRequests : state[m.from] = "Leader" /\ m.seq < seq[m.from][m.to]
RequestsHold == \A m \in CurrentRequests : \E b \in Int : Until(m, b)

OrderInv == LogTerms /\ RequestTerms /\ SendersLead /\ RequestsHold

LEMMA OrderTypes ==
  ASSUME TypeOK
  PROVE  /\ \A m \in CurrentRequests :
              /\ m \in msgs /\ m.type = "AppendRequest" /\ m \in AppendRequests /\ m.live
              /\ m.term = currentTerm[m.from] /\ m.from \in Node /\ m.to \in Node
              /\ m.term \in Nat /\ m.seq \in Nat /\ m.prev \in Index /\ m.prevTerm \in Nat
              /\ m.entries \in Seq(Entries) /\ Part(m) \in Slices
         /\ \A k, p \in Node : seq[k][p] \in Nat /\ currentTerm[k] \in Nat /\ disk[k].term \in Nat
<1>1. ASSUME NEW m \in CurrentRequests
      PROVE  /\ m \in msgs /\ m.type = "AppendRequest" /\ m \in AppendRequests /\ m.live
             /\ m.term = currentTerm[m.from] /\ m.from \in Node /\ m.to \in Node
             /\ m.term \in Nat /\ m.seq \in Nat /\ m.prev \in Index /\ m.prevTerm \in Nat
             /\ m.entries \in Seq(Entries) /\ Part(m) \in Slices
  <2>1. /\ m \in msgs /\ m.type = "AppendRequest" /\ m \in AppendRequests /\ m.live
        /\ m.term = currentTerm[m.from] /\ m \in Messages
    BY DEF CurrentRequests, AppendRequests, TypeOK
  <2>2. /\ m.from \in Node /\ m.to \in Node /\ m.term \in Nat /\ m.seq \in Nat
        /\ m.prev \in Index /\ m.prevTerm \in Nat /\ m.entries \in Seq(Entries)
    BY <2>1, MessageType
  <2> QED BY <2>1, <2>2, PartType
<1>2. \A k, p \in Node : seq[k][p] \in Nat /\ currentTerm[k] \in Nat /\ disk[k].term \in Nat
  BY BallotTypes DEF TypeOK, PeerTypeOK
<1> QED BY <1>1, <1>2

(* A node goes on: its term does not fall, and a leader of its term stays it. *)
GoesOn(k) ==
  /\ currentTerm'[k] >= currentTerm[k]
  /\ state[k] = "Leader" /\ currentTerm'[k] = currentTerm[k] =>
       state'[k] = "Leader" /\ seq'[k] = seq[k]

DiskGrows == \A k \in Node : disk'[k].term >= disk[k].term

(* A request that is current after a step was so before it.                  *)
LEMMA CurrentBefore ==
  ASSUME TypeOK, ElectionInv, SendersLead,
         NEW m \in CurrentRequests', m \in msgs, GoesOn(m.from), TypeOK'
  PROVE  /\ m \in CurrentRequests /\ state[m.from] = "Leader" /\ state'[m.from] = "Leader"
         /\ seq'[m.from] = seq[m.from] /\ currentTerm'[m.from] = currentTerm[m.from]
<1>1. /\ m.type = "AppendRequest" /\ m.live /\ m.term = currentTerm'[m.from]
  BY DEF CurrentRequests, AppendRequests
<1>2. m.from \in Node /\ m.term <= disk[m.from].term /\ m.term \in Nat
  BY HistoryTypes DEF ElectionInv, PersistBeforeSend
<1>3. disk[m.from].term <= currentTerm[m.from]
  BY <1>2 DEF ElectionInv, DiskBehind
<1>4. m.term = currentTerm[m.from]
  BY <1>1, <1>2, <1>3, BallotTypes DEF GoesOn
<1>5. m \in CurrentRequests
  BY <1>1, <1>4 DEF CurrentRequests, AppendRequests
<1> QED BY <1>1, <1>4, <1>5 DEF SendersLead, GoesOn

(* Of a request under way, what stays true while nobody takes another to its  *)
(* receiver: its sender's log may grow, its receiver's gets no entry of its    *)
(* term after b.                                                            *)
Extends(log, old) ==
  LastIndexOf(log) >= LastIndexOf(old) /\ \A i \in 0 .. LastIndexOf(old) : log[i + 1] = old[i + 1]

LEMMA ShowsStays ==
  ASSUME TypeOK, NEW m \in CurrentRequests, NEW old \in Seq(Entries), NEW log, Extends(log, old),
         Shows(m, old), End(Part(m)) <= LastIndexOf(old), m.prev <= LastIndexOf(old)
  PROVE  Shows(m, log)
<1>1. /\ m.prev \in Int /\ m.prev >= -1 /\ Part(m) \in Slices
  BY OrderTypes DEF Index
<1>2. LastIndexOf(old) \in Int
  BY LogType DEF Index
<1>3. m.prev # -1 => TermAt(log, m.prev) = m.prevTerm
  <2> SUFFICES ASSUME m.prev # -1 PROVE TermAt(log, m.prev) = m.prevTerm
    OBVIOUS
  <2>1. m.prev \in 0 .. LastIndexOf(old)
    BY <1>1, <1>2
  <2> QED BY <2>1 DEF TermAt, Extends, Shows
<1>4. ASSUME NEW i \in Covered(Part(m)) PROVE EntryIn(Part(m), i) = log[i + 1]
  <2>1. i \in Nat /\ i <= End(Part(m)) /\ End(Part(m)) \in Int
    BY <1>1, SliceType
  <2>2. i \in 0 .. LastIndexOf(old)
    BY <1>2, <2>1
  <2> QED BY <2>2 DEF Extends, Shows
<1> QED BY <1>3, <1>4 DEF Shows

LEMMA UntilStays ==
  ASSUME TypeOK, TypeOK', NEW m \in CurrentRequests, NEW b \in Int, Until(m, b),
         Extends(logs'[m.from], logs[m.from]),
         m.term >= currentTerm'[m.to] =>
           \A i \in 0 .. LastIndexOf(logs'[m.to]) : TermAt(logs'[m.to], i) = m.term => i <= b,
         \A o \in Earlier(m)' : o \in Earlier(m)
  PROVE  Until(m, b)'
<1>1. /\ m.from \in Node /\ m.to \in Node /\ Part(m) \in Slices
      /\ logs[m.from] \in Seq(Entries) /\ logs'[m.from] \in Seq(Entries)
  BY OrderTypes, LogTypes DEF TypeOK, LogTypeOK
<1>2. LastIndexOf(logs[m.from]) \in Int /\ LastIndexOf(logs'[m.from]) \in Int
  BY <1>1, LogType DEF Index
<1>3. /\ b <= LastIndexOf(logs[m.from])
      /\ \/ m.prev <= b /\ b = End(Part(m)) /\ Shows(m, logs[m.from])
         \/ m.entries = <<>> /\ b < m.prev
      /\ \A o \in Earlier(m) : o.entries = <<>> \/ End(Part(o)) <= b
  BY DEF Until
<1>4. b <= LastIndexOf(logs'[m.from])
  BY <1>2, <1>3 DEF Extends
<1>5. \/ m.prev <= b /\ b = End(Part(m)) /\ Shows(m, logs'[m.from])
      \/ m.entries = <<>> /\ b < m.prev
  <2>1. CASE m.entries = <<>> /\ b < m.prev
    BY <2>1
  <2>2. CASE m.prev <= b /\ b = End(Part(m)) /\ Shows(m, logs[m.from])
    <3>1. m.prev <= LastIndexOf(logs[m.from]) /\ End(Part(m)) <= LastIndexOf(logs[m.from])
      <4>1. m.prev \in Int
        BY OrderTypes DEF Index
      <4> QED BY <1>2, <1>3, <2>2, <4>1
    <3>2. Shows(m, logs'[m.from])
      BY <1>1, <2>2, <3>1, ShowsStays
    <3> QED BY <2>2, <3>2
  <2> QED BY <1>3, <2>1, <2>2
<1>6. \A o \in Earlier(m)' : o.entries = <<>> \/ End(Part(o)) <= b
  BY <1>3
<1> QED BY <1>4, <1>5, <1>6 DEF Until, Shows

LEMMA SameExtends ==
  ASSUME NEW log \in Seq(Entries)
  PROVE  Extends(log, log)
BY LogType DEF Extends, Index

(* Steps that leave the logs as they are and send no AppendEntries.          *)
LEMMA QuietKeeps ==
  ASSUME TypeOK, TypeOK', ElectionInv, OrderInv, logs' = logs, DiskGrows,
         \A m \in AppendRequests' :
           \E o \in AppendRequests : m.entries = o.entries /\ m.term = o.term,
         \A m \in CurrentRequests' :
           m \in msgs /\ GoesOn(m.from) /\ currentTerm'[m.to] >= currentTerm[m.to]
  PROVE  OrderInv'
<1>1. LogTerms'
  <2> SUFFICES ASSUME NEW n \in Node, NEW i \in 0 .. LastIndexOf(logs[n])
               PROVE  TermAt(logs[n], i) <= disk'[n].term
    BY DEF LogTerms
  <2>1. TermAt(logs[n], i) \in Nat
    BY LogType, LogTypes
  <2>2. TermAt(logs[n], i) <= disk[n].term /\ disk'[n].term >= disk[n].term
    BY DEF OrderInv, LogTerms, DiskGrows
  <2> QED BY <2>1, <2>2, BallotTypes, BallotTypesNext
<1>2. RequestTerms'
  BY DEF OrderInv, RequestTerms
<1>3. ASSUME NEW m \in CurrentRequests'
      PROVE  /\ m \in CurrentRequests /\ state[m.from] = "Leader" /\ state'[m.from] = "Leader"
             /\ seq'[m.from] = seq[m.from] /\ currentTerm'[m.from] = currentTerm[m.from]
  BY CurrentBefore DEF OrderInv
<1>4. SendersLead'
  BY <1>3 DEF OrderInv, SendersLead
<1>5. ASSUME NEW m \in CurrentRequests' PROVE \E b \in Int : Until(m, b)'
  <2>1. m \in CurrentRequests
    BY <1>3
  <2>2. PICK b \in Int : Until(m, b)
    BY <2>1 DEF OrderInv, RequestsHold
  <2>3. \A o \in Earlier(m)' : o \in Earlier(m)
    BY <1>3 DEF Earlier
  <2>4. Extends(logs'[m.from], logs[m.from])
    BY <2>1, OrderTypes, LogTypes, SameExtends
  <2>5. m.term >= currentTerm'[m.to] => m.term >= currentTerm[m.to]
    BY <2>1, OrderTypes, BallotTypesNext
  <2>6. m.term >= currentTerm'[m.to] =>
          \A i \in 0 .. LastIndexOf(logs'[m.to]) : TermAt(logs'[m.to], i) = m.term => i <= b
    BY <2>2, <2>5 DEF Until
  <2> QED BY <2>1, <2>2, <2>3, <2>4, <2>6, UntilStays
<1>6. RequestsHold'
  BY <1>5 DEF RequestsHold
<1> QED BY <1>1, <1>2, <1>4, <1>6 DEF OrderInv

LEMMA BallotGrows ==
  ASSUME TypeOK, TypeOK', ElectionInv, NEW n \in Node, BallotStep(n)
  PROVE  DiskGrows /\ \A k \in Node : currentTerm'[k] >= currentTerm[k]
<1>1. \A k \in Node : currentTerm'[k] >= currentTerm[k]
  BY BallotTypes, BallotTypesNext DEF BallotStep
<1>2. ASSUME NEW k \in Node PROVE disk'[k].term >= disk[k].term
  <2>1. disk[k].term <= currentTerm[k]
    BY DEF ElectionInv, DiskBehind
  <2>2. CASE k # n
    BY <2>2, BallotTypes DEF BallotStep
  <2>3. CASE k = n
    BY <1>1, <2>1, <2>3, BallotTypes, BallotTypesNext DEF BallotStep, SavedAs
  <2> QED BY <2>2, <2>3
<1> QED BY <1>1, <1>2 DEF DiskGrows

(* A handler of n that sends no AppendEntries and leaves the logs.           *)
LEMMA QuietBallotOrder ==
  ASSUME TypeOK, TypeOK', ElectionInv, OrderInv, NEW n \in Node, BallotStep(n),
         logs' = logs, \A m \in msgs' : m.type = "AppendRequest" => m \in msgs,
         state[n] = "Leader" /\ currentTerm'[n] = currentTerm[n] => state'[n] = "Leader",
         seq' = seq
  PROVE  OrderInv'
<1>1. DiskGrows /\ \A k \in Node : currentTerm'[k] >= currentTerm[k]
  BY BallotGrows
<1>2. \A k \in Node : GoesOn(k)
  BY <1>1 DEF GoesOn, BallotStep
<1>3. \A m \in AppendRequests' : m \in AppendRequests
  BY DEF AppendRequests
<1>4. \A m \in CurrentRequests' : m \in msgs /\ m.from \in Node /\ m.to \in Node
  BY <1>3, LogTypes DEF CurrentRequests, AppendRequests
<1> QED BY <1>1, <1>2, <1>3, <1>4, QuietKeeps

LEMMA StartOrder ==
  ASSUME TypeOK, TypeOK', ElectionInv, OrderInv, NEW n \in Node, OnTimerElection(n)
  PROVE  OrderInv'
<1>1. /\ state' = [state EXCEPT ![n] = "Candidate"]
      /\ currentTerm' = [currentTerm EXCEPT ![n] = @ + 1]
      /\ logs' = logs /\ Dump(n)
      /\ seq' = [seq EXCEPT ![n] =
                   [p \in Node |-> IF p \in sendEnabled[n] THEN @[p] + 1 ELSE @[p]]]
      /\ msgs' = msgs \union {VoteRequest(n, p) : p \in sendEnabled[n]}
  BY DEF OnTimerElection, logVars
<1>2. \A m \in msgs' : m.type = "AppendRequest" => m \in msgs
  BY <1>1 DEF VoteRequest
<1>3. \A k \in Node : /\ currentTerm'[k] >= currentTerm[k]
                      /\ k = n => currentTerm'[k] # currentTerm[k]
                      /\ k # n => state'[k] = state[k] /\ seq'[k] = seq[k]
  BY <1>1, BallotTypes DEF TypeOK, CoreTypeOK, PeerTypeOK
<1>4. \A k \in Node : GoesOn(k)
  BY <1>3 DEF GoesOn
<1>5. DiskGrows
  <2>1. \A k \in Node \ {n} : disk'[k] = disk[k]
    BY <1>1, DumpSaves
  <2>2. disk'[n] = disk[n] \/ disk'[n].term = currentTerm'[n]
    BY <1>1, DumpSaves DEF SavedAs
  <2>3. disk[n].term <= currentTerm[n] /\ currentTerm'[n] >= currentTerm[n]
    BY <1>3 DEF ElectionInv, DiskBehind
  <2>4. disk'[n].term >= disk[n].term
    BY <2>2, <2>3, BallotTypes, BallotTypesNext
  <2> QED BY <2>1, <2>4, BallotTypes DEF DiskGrows
<1>6. \A m \in AppendRequests' : m \in AppendRequests
  BY <1>2 DEF AppendRequests
<1>7. \A m \in CurrentRequests' : m \in msgs /\ m.from \in Node /\ m.to \in Node
  BY <1>6, LogTypes DEF CurrentRequests, AppendRequests
<1> QED BY <1>1, <1>3, <1>4, <1>5, <1>6, <1>7, QuietKeeps

LEMMA WinOrder ==
  ASSUME TypeOK, TypeOK', ElectionInv, OrderInv, NEW n \in Node, state[n] = "Candidate",
         UNCHANGED <<currentTerm, logs, disk>>, msgs' \subseteq msgs,
         BecomeLeader(n) \/ UNCHANGED <<state, seq>>
  PROVE  OrderInv'
<1>1. \A k \in Node \ {n} : state'[k] = state[k] /\ seq'[k] = seq[k]
  BY DEF BecomeLeader, TypeOK, CoreTypeOK, PeerTypeOK
<1>2. \A k \in Node : GoesOn(k)
  BY <1>1, BallotTypes DEF GoesOn
<1>3. DiskGrows
  BY BallotTypes DEF DiskGrows
<1>6. \A m \in AppendRequests' : m \in AppendRequests
  BY DEF AppendRequests
<1>7. \A m \in CurrentRequests' : m \in msgs /\ m.from \in Node /\ m.to \in Node
  BY <1>6, LogTypes DEF CurrentRequests, AppendRequests
<1>8. \A k \in Node : currentTerm'[k] >= currentTerm[k]
  BY BallotTypes
<1> QED BY <1>2, <1>3, <1>6, <1>7, <1>8, QuietKeeps

LEMMA ElectionFailOrder ==
  ASSUME TypeOK, TypeOK', ElectionInv, OrderInv, NEW n \in Node, OnTimerElectionFail(n)
  PROVE  OrderInv'
<1>1. /\ state[n] = "Candidate" /\ UNCHANGED <<currentTerm, logs, disk, msgs>>
      /\ BecomeLeader(n) \/ UNCHANGED <<state, seq>>
  BY Zenon DEF OnTimerElectionFail, logVars
<1> QED BY <1>1, WinOrder

LEMMA VoteCountedOrder ==
  ASSUME TypeOK, TypeOK', ElectionInv, OrderInv, NEW m \in msgs, OnVoteResponseCounted(m)
  PROVE  OrderInv'
<1>1. /\ state[m.to] = "Candidate" /\ UNCHANGED <<currentTerm, logs, disk>> /\ Receive(m)
      /\ BecomeLeader(m.to) \/ UNCHANGED <<state, seq>>
  BY Zenon DEF OnVoteResponseCounted, logVars
<1>2. msgs' \subseteq msgs /\ m.to \in Node
  BY <1>1, HistoryTypes DEF Receive
<1> QED BY <1>1, <1>2, WinOrder

LEMMA VoteRequestOrder ==
  ASSUME TypeOK, TypeOK', ElectionInv, OrderInv, NEW m \in msgs, OnVoteRequest(m)
  PROVE  OrderInv'
<1> DEFINE n == m.to
           newer == m.term > currentTerm[n]
<1>1. n \in Node /\ m.term \in Nat /\ currentTerm[n] \in Nat /\ BallotStep(n)
  BY NameTypes, VoteRequestBallot
<1>2. /\ logs' = logs /\ seq' = seq
      /\ state' = IF newer THEN [state EXCEPT ![n] = "Follower"] ELSE state
      /\ currentTerm' = [currentTerm EXCEPT ![n] = GreaterOf(m.term, currentTerm[n])]
  BY DEF OnVoteRequest, logVars
<1>3. \A a \in msgs' : a.type = "AppendRequest" => a \in msgs
  <2>1. Receive(m) \/ \E term, granted : Reply(m, VoteResponse(m, term, granted))
    BY Zenon DEF OnVoteRequest
  <2> QED BY <2>1, AnswerNames DEF Receive, VoteResponse
<1>4. state[n] = "Leader" /\ currentTerm'[n] = currentTerm[n] => state'[n] = "Leader"
  <2>1. currentTerm'[n] = GreaterOf(m.term, currentTerm[n])
    BY <1>1, <1>2, NameTypes
  <2>2. newer => currentTerm'[n] # currentTerm[n]
    BY <1>1, <2>1 DEF GreaterOf
  <2> QED BY <1>2, <2>2
<1> QED BY <1>1, <1>2, <1>3, <1>4, QuietBallotOrder

LEMMA ResponseOrder ==
  ASSUME TypeOK, TypeOK', ElectionInv, OrderInv, NEW m \in msgs,
         \/ OnVoteResponseNewer(m) \/ OnAppendEntriesResponseNewer(m)
         \/ OnAppendEntriesResponseFailed(m) \/ OnAppendEntriesResponseSuccess(m)
  PROVE  OrderInv'
<1> DEFINE n == m.to
<1>1. n \in Node /\ m.term \in Nat /\ currentTerm[n] \in Nat /\ BallotStep(n)
  BY NameTypes, ResponseBallot
<1>2. logs' = logs /\ seq' = seq /\ msgs' \subseteq msgs
  BY DEF OnVoteResponseNewer, OnAppendEntriesResponseNewer, OnAppendEntriesResponseFailed,
     OnAppendEntriesResponseSuccess, logVars, Receive
<1>3. state[n] = "Leader" /\ currentTerm'[n] = currentTerm[n] => state'[n] = "Leader"
  <2>1. CASE OnVoteResponseNewer(m) \/ OnAppendEntriesResponseNewer(m)
    <3>1. currentTerm' = [currentTerm EXCEPT ![n] = m.term] /\ m.term > currentTerm[n]
      BY <2>1 DEF OnVoteResponseNewer, OnAppendEntriesResponseNewer, BecomeFollower
    <3>2. currentTerm'[n] = m.term
      BY <1>1, <3>1, NameTypes
    <3> QED BY <1>1, <3>1, <3>2
  <2>2. CASE OnAppendEntriesResponseFailed(m) \/ OnAppendEntriesResponseSuccess(m)
    BY <2>2 DEF OnAppendEntriesResponseFailed, OnAppendEntriesResponseSuccess, coreVars
  <2> QED BY <2>1, <2>2
<1> QED BY <1>1, <1>2, <1>3, QuietBallotOrder

LEMMA CrashOrder ==
  ASSUME TypeOK, TypeOK', ElectionInv, DiskLogs, OrderInv, NEW n \in Node, Crash(n)
  PROVE  OrderInv'
<1>1. /\ state' = [state EXCEPT ![n] = "NotRunning"]
      /\ currentTerm' = [currentTerm EXCEPT ![n] = disk[n].term]
      /\ logs' = [logs EXCEPT ![n] = disk[n].logs]
      /\ seq' = [seq EXCEPT ![n] = [p \in Node |-> 1]] /\ disk' = disk
  BY DEF Crash
<1>2. logs' = logs
  BY <1>1 DEF DiskLogs, TypeOK, LogTypeOK
<1>3. DiskGrows
  BY <1>1, BallotTypes DEF DiskGrows
<1>4. \A k \in Node \ {n} :
        state'[k] = state[k] /\ currentTerm'[k] = currentTerm[k] /\ seq'[k] = seq[k]
  BY <1>1 DEF TypeOK, CoreTypeOK, PeerTypeOK
<1>5. ASSUME NEW a \in AppendRequests'
      PROVE  \/ a \in AppendRequests /\ a.to # n /\ a.from # n
             \/ ~a.live /\ \E o \in AppendRequests : a.entries = o.entries /\ a.term = o.term
  <2>0. a \in msgs' /\ a.type = "AppendRequest"
    BY DEF AppendRequests
  <2>1. CASE a \in {m \in msgs : m.to # n /\ (m.from # n \/ ~IsRequest(m))}
    BY <2>0, <2>1 DEF AppendRequests, IsRequest
  <2>2. ASSUME NEW o \in msgs, IsRequest(o), a = [o EXCEPT !.live = FALSE]
        PROVE  ~a.live /\ o \in AppendRequests /\ a.entries = o.entries /\ a.term = o.term
    <3>1. o \in Messages
      BY DEF TypeOK
    <3>2. o.type = a.type
      BY <2>2, <3>1 DEF Messages, IsRequest
    <3>3. ~a.live /\ a.entries = o.entries /\ a.term = o.term
      BY <2>0, <2>2, <3>1, <3>2 DEF Messages
    <3> QED BY <2>0, <3>2, <3>3 DEF AppendRequests
  <2>3. a \in {m \in msgs : m.to # n /\ (m.from # n \/ ~IsRequest(m))} \union
             {[m EXCEPT !.live = FALSE] : m \in {r \in msgs : r.to # n /\ r.from = n /\ IsRequest(r)}}
    BY <2>0 DEF Crash
  <2>4. CASE a \in {[m EXCEPT !.live = FALSE] :
                      m \in {r \in msgs : r.to # n /\ r.from = n /\ IsRequest(r)}}
    <3>1. PICK o \in msgs : IsRequest(o) /\ a = [o EXCEPT !.live = FALSE]
      BY <2>4
    <3> QED BY <2>2, <3>1
  <2> QED BY <2>1, <2>3, <2>4
<1>6. \A a \in AppendRequests' :
        \E o \in AppendRequests : a.entries = o.entries /\ a.term = o.term
  BY <1>5
<1>7. ASSUME NEW a \in CurrentRequests'
      PROVE  a \in msgs /\ GoesOn(a.from) /\ currentTerm'[a.to] >= currentTerm[a.to]
  <2>1. a \in AppendRequests /\ a.to # n /\ a.from # n
    BY <1>5 DEF CurrentRequests
  <2>2. a.from \in Node \ {n} /\ a.to \in Node \ {n} /\ a \in msgs
    BY <2>1, LogTypes DEF AppendRequests
  <2> QED BY <1>4, <2>2, BallotTypes DEF GoesOn
<1> QED BY <1>2, <1>3, <1>6, <1>7, QuietKeeps

LEMMA FaultOrder ==
  ASSUME TypeOK, TypeOK', ElectionInv, DiskLogs, OrderInv, NEW n \in Node, Fault(n)
  PROVE  OrderInv'
<1>1. CASE ~Crash(n)
  <2>1. /\ UNCHANGED <<currentTerm, msgs, logs, disk, seq>>
        /\ state' = state \/ (state[n] = "NotRunning" /\ state' = [state EXCEPT ![n] = "Follower"])
    BY <1>1 DEF Fault, Restart, Pause, Resume, DisableSend, EnableSend, coreVars, histVars, logVars
  <2>2. \A k \in Node : state[k] = "Leader" => state'[k] = "Leader"
    BY <2>1 DEF TypeOK, CoreTypeOK
  <2>3. DiskGrows /\ \A k \in Node : GoesOn(k) /\ currentTerm'[k] >= currentTerm[k]
    BY <2>1, <2>2, BallotTypes DEF DiskGrows, GoesOn
  <2>4. /\ \A a \in AppendRequests' : a \in AppendRequests
        /\ \A a \in CurrentRequests' : a \in msgs /\ a.from \in Node /\ a.to \in Node
    BY <2>1, LogTypes DEF AppendRequests, CurrentRequests
  <2> QED BY <2>1, <2>3, <2>4, QuietKeeps
<1> QED BY <1>1, CrashOrder

(* A request that is refused without a look at the log, or for what the log  *)
(* lacks.                                                                   *)
LEMMA RefusedOrder ==
  ASSUME TypeOK, TypeOK', ElectionInv, OrderInv, NEW m \in msgs, OnAppendEntriesRequest(m),
         AppendOldTerm(m) \/ AppendOutOfOrder(m) \/ AppendMissing(m)
  PROVE  OrderInv'
<1> DEFINE n == m.to
<1>1. /\ n \in Node /\ m.type = "AppendRequest" /\ BallotStep(n) /\ seq' = seq
      /\ m.term \in Nat /\ currentTerm[n] \in Nat
  BY NameTypes, AppendRequestBallot DEF OnAppendEntriesRequest
<1>2. \A a \in msgs' : a.type = "AppendRequest" => a \in msgs
  <2>1. Receive(m) \/ \E term, success, last : Reply(m, AppendResponse(m, term, success, last))
    BY Zenon DEF AppendOldTerm, AppendOutOfOrder, AppendMissing
  <2> QED BY <2>1, AnswerNames DEF Receive, AppendResponse
<1>3. logs' = logs
  BY DEF AppendOldTerm, AppendOutOfOrder, AppendMissing, logVars
<1>4. state[n] = "Leader" /\ currentTerm'[n] = currentTerm[n] => state'[n] = "Leader"
  <2>1. CASE AppendOldTerm(m)
    BY <2>1 DEF AppendOldTerm, coreVars
  <2>2. CASE HandleRequestRoutine(m)
    <3>1. currentTerm' = [currentTerm EXCEPT ![n] = m.term]
          /\ state' = IF StepsDown(m) THEN [state EXCEPT ![n] = "Follower"] ELSE state
      BY <2>2 DEF HandleRequestRoutine
    <3>2. currentTerm'[n] = m.term
      BY <1>1, <3>1, NameTypes
    <3> QED BY <1>1, <3>1, <3>2 DEF StepsDown
  <2> QED BY <2>1, <2>2 DEF AppendOutOfOrder, AppendMissing
<1> QED BY <1>1, <1>2, <1>3, <1>4, QuietBallotOrder

(* What do_append_entries sends shows the log to its end.                    *)
LEMMA SentShows ==
  ASSUME TypeOK, NEW n \in Node, NEW log \in Seq(Entries), NEW m, Sent(n, log, m)
  PROVE  /\ m.entries \in Seq(Entries)
         /\ \A i \in DOMAIN m.entries :
              \E j \in 0 .. LastIndexOf(log) : m.entries[i] = log[j + 1]
         /\ \/ /\ m.prev <= LastIndexOf(log) /\ LastIndexOf(log) = End(Part(m))
               /\ Shows(m, log)
            \/ m.entries = <<>> /\ LastIndexOf(log) < m.prev
<1>1. PICK prev \in Index : prev = m.prev
  BY DEF Sent
<1>2. PICK e : e = EntriesFrom(log, prev + 1)
  OBVIOUS
<1>3. PICK garbage : m.prevTerm = PrevTerm(log, prev, garbage)
  BY <1>1 DEF Sent
<1>4. prev \in Int /\ prev >= -1 /\ m.entries = e
  BY <1>1, <1>2 DEF Index, Sent
<1>k. PICK k \in Int : k = LastIndexOf(log) /\ k >= -1
  BY LogType DEF Index
<1>5. /\ e \in Seq(Entries) /\ Len(e) = IF prev <= k THEN k - prev ELSE 0
      /\ \A i \in prev + 1 .. k : e[i - prev] = log[i + 1]
  BY <1>2, <1>k, SentEntries
<1>6. /\ Part(m).prev = prev /\ Part(m).entries = e
      /\ End(Part(m)) = prev + Len(e)
  BY <1>1, <1>4 DEF Part, Slice, End
<1>7. ASSUME NEW i \in DOMAIN e PROVE \E j \in 0 .. k : e[i] = log[j + 1]
  <2>1. i \in 1 .. Len(e)
    BY <1>5, LenProperties
  <2>2. prev <= k /\ i \in 1 .. k - prev
    BY <1>4, <1>5, <2>1
  <2>3. prev + i \in prev + 1 .. k /\ (prev + i) - prev = i /\ prev + i \in 0 .. k
    BY <1>4, <2>2
  <2>4. e[(prev + i) - prev] = log[(prev + i) + 1]
    BY <1>5, <2>3
  <2> QED BY <2>3, <2>4
<1>8. CASE prev <= k
  <2>1. End(Part(m)) = k
    BY <1>4, <1>5, <1>6, <1>8
  <2>2. prev # -1 => TermAt(log, prev) = m.prevTerm
    BY <1>3, <1>k, <1>8 DEF PrevTerm
  <2>3. \A i \in Covered(Part(m)) : EntryIn(Part(m), i) = log[i + 1]
    BY <1>5, <1>6, <2>1 DEF Covered, EntryIn
  <2>4. Shows(m, log)
    BY <1>1, <2>2, <2>3 DEF Shows
  <2> QED BY <1>1, <1>4, <1>5, <1>7, <1>8, <1>k, <2>1, <2>4
<1>9. CASE prev > k
  <2>1. e = <<>>
    BY <1>4, <1>5, <1>9, EmptySeq
  <2> QED BY <1>1, <1>4, <1>5, <1>7, <1>9, <1>k, <2>1
<1> QED BY <1>4, <1>8, <1>9

(* The step of a leader n that sends the log it has then.                    *)
SendStep(n, log) ==
  /\ log \in Seq(Entries) /\ log \in {logs[n], Append(logs[n], Entry(n))}
  /\ state[n] = "Leader" /\ DoAppendEntries(n, log)
  /\ logs'[n] = log /\ \A k \in Node \ {n} : logs'[k] = logs[k]
  /\ UNCHANGED <<state, currentTerm>> /\ \A k \in Node : disk'[k].term = disk[k].term

LEMMA SendGrows ==
  ASSUME TypeOK, NEW n \in Node, NEW log, SendStep(n, log)
  PROVE  /\ logs[n] \in Seq(Entries) /\ LastIndexOf(log) \in Int /\ Extends(log, logs[n])
         /\ \A i \in 0 .. LastIndexOf(log) :
              \/ i \in 0 .. LastIndexOf(logs[n]) /\ log[i + 1] = logs[n][i + 1]
              \/ log[i + 1] = Entry(n)
<1>1. logs[n] \in Seq(Entries) /\ Entry(n) \in Entries /\ log \in Seq(Entries)
  BY LogTypes DEF Entry, Entries, SendStep
<1>2. LastIndexOf(log) \in Int /\ LastIndexOf(logs[n]) \in Int
  BY <1>1, LogType DEF Index
<1>3. CASE log = logs[n]
  BY <1>1, <1>2, <1>3, SameExtends
<1>4. CASE log = Append(logs[n], Entry(n))
  <2>1. PICK k \in Nat : k = Len(logs[n])
    BY <1>1, LenProperties
  <2>2. /\ LastIndexOf(log) = k /\ LastIndexOf(logs[n]) = k - 1
        /\ \A i \in 0 .. LastIndexOf(logs[n]) : log[i + 1] = logs[n][i + 1]
        /\ log[k + 1] = Entry(n)
    <3>1. LastIndexOf(logs[n]) = k - 1
      BY <2>1 DEF LastIndexOf
    <3> QED BY <1>1, <1>4, <2>1, <3>1, AppendType
  <2>3. Extends(log, logs[n])
    BY <2>2 DEF Extends
  <2>4. \A i \in 0 .. k : i \in 0 .. k - 1 \/ i = k
    OBVIOUS
  <2> QED BY <1>1, <1>2, <2>2, <2>3, <2>4
<1> QED BY <1>3, <1>4 DEF SendStep

LEMMA SendTerms ==
  ASSUME TypeOK, ElectionInv, LogTerms, RequestTerms, NEW n \in Node, NEW log, SendStep(n, log)
  PROVE  LogTerms' /\ RequestTerms'
<1>1. /\ currentTerm[n] \in Nat /\ disk[n].term = currentTerm[n]
      /\ Entry(n).term = currentTerm[n]
  BY BallotTypes DEF ElectionInv, VoteSelf, SendStep, Entry
<1>2. \A i \in 0 .. LastIndexOf(log) : log[i + 1].term <= currentTerm[n]
  BY <1>1, SendGrows DEF LogTerms, TermAt
<1>3. LogTerms'
  <2> SUFFICES ASSUME NEW k \in Node, NEW i \in 0 .. LastIndexOf(logs'[k])
               PROVE  TermAt(logs'[k], i) <= disk[k].term
    BY DEF LogTerms, SendStep
  <2>1. CASE k = n
    BY <1>1, <1>2, <2>1 DEF SendStep, TermAt
  <2>2. CASE k # n
    <3>1. logs'[k] = logs[k]
      BY <2>2 DEF SendStep
    <3> QED BY <3>1 DEF LogTerms
  <2> QED BY <2>1, <2>2
<1>4. RequestTerms'
  <2> SUFFICES ASSUME NEW m \in msgs', m.type = "AppendRequest", NEW i \in DOMAIN m.entries
               PROVE  m.entries[i].term <= m.term
    BY DEF RequestTerms, AppendRequests
  <2>1. CASE m \in msgs
    BY <2>1 DEF RequestTerms, AppendRequests
  <2>2. CASE m \notin msgs
    <3>1. Sent(n, log, m)
      BY <2>2, SentRequest DEF SendStep
    <3>2. \E j \in 0 .. LastIndexOf(log) : m.entries[i] = log[j + 1]
      BY <3>1, SentShows DEF SendStep
    <3> QED BY <1>2, <3>1, <3>2 DEF Sent
  <2> QED BY <2>1, <2>2
<1> QED BY <1>3, <1>4

LEMMA SendNumbers ==
  ASSUME TypeOK, ElectionInv, SendersLead, NEW n \in Node, NEW log, SendStep(n, log)
  PROVE  /\ SendersLead'
         /\ \A m \in CurrentRequests' : m \in CurrentRequests \/ Sent(n, log, m)
         /\ \A m \in CurrentRequests, o \in CurrentRequests' :
              o \in Earlier(m)' => o \in Earlier(m)
<1>1. \A m \in CurrentRequests' : m \in CurrentRequests \/ Sent(n, log, m)
  <2> SUFFICES ASSUME NEW m \in CurrentRequests' PROVE m \in CurrentRequests \/ Sent(n, log, m)
    OBVIOUS
  <2>1. m \in msgs' /\ m.type = "AppendRequest" /\ m.live /\ m.term = currentTerm[m.from]
    BY DEF CurrentRequests, AppendRequests, SendStep
  <2>2. CASE m \in msgs
    BY <2>1, <2>2 DEF CurrentRequests, AppendRequests
  <2>3. CASE m \notin msgs
    BY <2>1, <2>3, SentRequest DEF SendStep
  <2> QED BY <2>2, <2>3
<1>2. seq' = [seq EXCEPT ![n] = [p \in Node |-> IF p \in sendEnabled[n] THEN @[p] + 1 ELSE @[p]]]
  BY Zenon DEF SendStep, DoAppendEntries
<1>3. \A k, p \in Node : /\ seq[k][p] \in Nat
                         /\ seq'[k][p] = seq[k][p] \/ seq'[k][p] = seq[k][p] + 1
                         /\ k = n /\ p \in sendEnabled[n] => seq'[k][p] = seq[k][p] + 1
  BY <1>2 DEF TypeOK, PeerTypeOK
<1>4. SendersLead'
  <2> SUFFICES ASSUME NEW m \in CurrentRequests'
               PROVE  state[m.from] = "Leader" /\ m.seq < seq'[m.from][m.to]
    BY DEF SendersLead, SendStep
  <2>1. CASE m \in CurrentRequests
    <3>1. m.from \in Node /\ m.to \in Node /\ m.seq \in Nat
      BY <2>1, OrderTypes
    <3> QED BY <1>3, <2>1, <3>1 DEF SendersLead
  <2>2. CASE Sent(n, log, m)
    <3>1. /\ m.from = n /\ m.to \in Node /\ m.to \in sendEnabled[n] /\ m.seq = seq[n][m.to]
      BY <2>2 DEF Sent
    <3> QED BY <1>3, <3>1 DEF SendStep
  <2> QED BY <1>1, <2>1, <2>2
<1>5. ASSUME NEW m \in CurrentRequests, NEW o \in CurrentRequests', o \in Earlier(m)'
      PROVE  o \in Earlier(m)
  <2>1. o.from = m.from /\ o.to = m.to /\ o.seq <= m.seq
    BY <1>5 DEF Earlier
  <2>2. CASE Sent(n, log, o)
    <3>1. m.seq < seq[m.from][m.to] /\ m.seq \in Nat /\ m.from \in Node /\ m.to \in Node
      BY OrderTypes DEF SendersLead
    <3>2. o.seq = seq[m.from][m.to]
      BY <2>1, <2>2 DEF Sent
    <3> QED BY <1>3, <2>1, <3>1, <3>2
  <2> QED BY <1>1, <2>1, <2>2 DEF Earlier
<1> QED BY <1>1, <1>4, <1>5

(* Another leader's request stays good: its receiver, if that is the one who  *)
(* sends now, logs an entry of another term.                                 *)
LEMMA SendKeepsOld ==
  ASSUME TypeOK, TypeOK', ElectionInv, LeadersWon, ElectionSafety, OrderInv,
         NEW n \in Node, NEW log, SendStep(n, log), NEW m \in CurrentRequests
  PROVE  \E b \in Int : Until(m, b)'
<1>1. PICK b \in Int : Until(m, b)
  BY DEF OrderInv, RequestsHold
<1>2. /\ m.from \in Node /\ m.to \in Node /\ m.from # m.to /\ m.term = currentTerm[m.from]
      /\ state[m.from] = "Leader"
  BY OrderTypes DEF ElectionInv, PeersOnly, OrderInv, SendersLead
<1>3. Extends(logs'[m.from], logs[m.from])
  <2>1. CASE m.from = n
    BY <2>1, SendGrows DEF SendStep
  <2>2. CASE m.from # n
    BY <1>2, <2>2, LogTypes, SameExtends DEF SendStep
  <2> QED BY <2>1, <2>2
<1>4. \A o \in Earlier(m)' : o \in Earlier(m)
  BY SendNumbers DEF OrderInv, Earlier
<1>5. ASSUME m.term >= currentTerm'[m.to],
             NEW i \in 0 .. LastIndexOf(logs'[m.to]), TermAt(logs'[m.to], i) = m.term
      PROVE  i <= b
  <2>0. \A j \in 0 .. LastIndexOf(logs[m.to]) : TermAt(logs[m.to], j) = m.term => j <= b
    BY <1>1, <1>5 DEF Until, SendStep
  <2>1. CASE m.to # n
    BY <1>2, <1>5, <2>0, <2>1 DEF SendStep
  <2>2. CASE m.to = n
    <3>1. logs'[n] = log
      BY DEF SendStep
    <3>2. log[i + 1] # Entry(n)
      <4>1. SUFFICES ASSUME log[i + 1] = Entry(n) PROVE FALSE
        OBVIOUS
      <4>2. m.term = currentTerm[n]
        BY <1>5, <2>2, <3>1, <4>1 DEF Entry, TermAt
      <4>3. Won(m.from, m.term) /\ Won(n, m.term)
        BY <1>2, <4>2 DEF LeadersWon, SendStep
      <4>4. m.from = n
        BY <4>3 DEF Won, WonIn, ElectionSafety
      <4> QED BY <1>2, <2>2, <4>4
    <3>3. i \in 0 .. LastIndexOf(logs[n]) /\ log[i + 1] = logs[n][i + 1]
      BY <1>5, <2>2, <3>1, <3>2, SendGrows
    <3> QED BY <1>5, <2>0, <2>2, <3>1, <3>3 DEF TermAt
  <2> QED BY <2>1, <2>2
<1> QED BY <1>1, <1>3, <1>4, <1>5, UntilStays

(* A new request shows all of its sender's log, and nobody has an entry of    *)
(* its term past that.                                                      *)
LEMMA SendHolds ==
  ASSUME TypeOK, TypeOK', ElectionInv, LeaderHolds', OrderInv,
         NEW n \in Node, NEW log, SendStep(n, log), NEW m \in CurrentRequests', Sent(n, log, m)
  PROVE  \E b \in Int : Until(m, b)'
<1>1. PICK b \in Int : b = LastIndexOf(log)
  BY SendGrows
<1>2. /\ m.from = n /\ m.to \in Node /\ m.term = currentTerm[n] /\ logs'[n] = log
      /\ log \in Seq(Entries) /\ m.prev = nextIndex[n][m.to] - 1
      /\ m.entries = EntriesFrom(log, m.prev + 1)
  BY DEF Sent, SendStep
<1>3. \/ m.prev <= b /\ b = End(Part(m)) /\ Shows(m, log)
      \/ m.entries = <<>> /\ b < m.prev
  BY <1>1, <1>2, SentShows
<1>4. ASSUME NEW i \in 0 .. LastIndexOf(logs'[m.to]), TermAt(logs'[m.to], i) = m.term
      PROVE  i <= b
  <2>w. PICK w : w = logs'[m.to]
    OBVIOUS
  <2>e. PICK e : e = w[i + 1]
    OBVIOUS
  <2>1. w \in Seq(Entries) /\ i \in 0 .. LastIndexOf(w)
    BY <1>2, <1>4, <2>w DEF TypeOK, LogTypeOK
  <2>c. Covered(Whole(w)) = 0 .. LastIndexOf(w) /\ \A j \in Int : EntryIn(Whole(w), j) = w[j + 1]
    BY <2>1, WholeType
  <2>2. i \in Covered(Whole(w)) /\ i \in Int
    BY <2>1, <2>c
  <2>3. Whole(w) \in Views'
    BY <1>2, <2>w DEF Views
  <2>x. EntryIn(Whole(w), i) = e
    BY <2>2, <2>c, <2>e
  <2>4. Stands(e, i)'
    BY <2>2, <2>3, <2>x DEF Stands
  <2>5. e.term = currentTerm'[n] /\ state'[n] = "Leader"
    BY <1>2, <1>4, <2>w, <2>e DEF TermAt, SendStep
  <2>6. i <= LastIndexOf(logs'[n])
    BY <2>4, <2>5 DEF LeaderHolds
  <2> QED BY <1>1, <1>2, <2>6
<1>5. ASSUME NEW o \in Earlier(m)' PROVE o.entries = <<>> \/ End(Part(o)) <= b
  <2>1. o \in CurrentRequests' /\ o.from = n /\ o.to = m.to
    BY <1>2 DEF Earlier
  <2>2. CASE Sent(n, log, o)
    <3>1. o.prev = m.prev /\ o.entries = m.entries
      BY <1>2, <2>1, <2>2 DEF Sent
    <3>2. End(Part(o)) = End(Part(m))
      BY <3>1 DEF End, Part, Slice
    <3> QED BY <1>1, <1>3, <3>1, <3>2
  <2>3. CASE o \in CurrentRequests
    <3>1. PICK c \in Int : Until(o, c)
      BY <2>3 DEF OrderInv, RequestsHold
    <3>2. o \in Earlier(o)
      BY <2>3, OrderTypes DEF Earlier
    <3>3. (o.entries = <<>> \/ End(Part(o)) <= c) /\ c <= LastIndexOf(logs[n])
      BY <2>1, <3>1, <3>2 DEF Until
    <3>4. LastIndexOf(logs[n]) <= b /\ LastIndexOf(logs[n]) \in Int
      BY <1>1, SendGrows, LogType DEF Extends, Index
    <3>5. End(Part(o)) \in Int
      BY <2>3, OrderTypes, SliceType
    <3> QED BY <3>3, <3>4, <3>5
  <2> QED BY <2>1, <2>2, <2>3, SendNumbers DEF OrderInv
<1>6. b <= LastIndexOf(logs'[m.from])
  BY <1>1, <1>2
<1> QED BY <1>2, <1>3, <1>4, <1>5, <1>6 DEF Until, Shows

LEMMA SendOrder ==
  ASSUME TypeOK, TypeOK', ElectionInv, LeadersWon, ElectionSafety, LeaderHolds', OrderInv,
         NEW n \in Node, NEW log, SendStep(n, log)
  PROVE  OrderInv'
<1>1. LogTerms' /\ RequestTerms'
  BY SendTerms DEF OrderInv
<1>2. SendersLead' /\ \A m \in CurrentRequests' : m \in CurrentRequests \/ Sent(n, log, m)
  BY SendNumbers DEF OrderInv
<1>3. ASSUME NEW m \in CurrentRequests' PROVE \E b \in Int : Until(m, b)'
  BY <1>2, SendKeepsOld, SendHolds
<1>4. RequestsHold'
  BY <1>3 DEF RequestsHold
<1> QED BY <1>1, <1>2, <1>4 DEF OrderInv

LEMMA HeartbeatOrder ==
  ASSUME TypeOK, TypeOK', ElectionInv, LeadersWon, ElectionSafety, LeaderHolds', OrderInv,
         NEW n \in Node, OnTimerHeartbeat(n)
  PROVE  OrderInv'
<1>1. /\ state[n] = "Leader" /\ DoAppendEntries(n, logs[n])
      /\ UNCHANGED <<state, currentTerm, logs, disk>>
  BY DEF OnTimerHeartbeat, coreVars, logVars
<1>2. SendStep(n, logs[n])
  BY <1>1, LogTypes DEF SendStep
<1> QED BY <1>2, SendOrder

LEMMA DoLogSends ==
  ASSUME TypeOK, ElectionInv, NEW n \in Node, DoLog(n)
  PROVE  SendStep(n, Append(logs[n], Entry(n)))
<1>l. PICK log : log = Append(logs[n], Entry(n))
  OBVIOUS
<1>1. /\ state[n] = "Leader" /\ logs' = [logs EXCEPT ![n] = log] /\ Dump(n) /\ Running(n)
      /\ DoAppendEntries(n, logs'[n]) /\ UNCHANGED <<state, currentTerm>>
  BY <1>l DEF DoLog, coreVars
<1>2. /\ log \in Seq(Entries) /\ logs'[n] = log /\ \A k \in Node \ {n} : logs'[k] = logs[k]
  <2>1. logs[n] \in Seq(Entries) /\ Entry(n) \in Entries
    BY LogTypes DEF Entry, Entries
  <2> QED BY <1>1, <1>l, <2>1, AppendType DEF TypeOK, LogTypeOK
<1>3. \A k \in Node : disk'[k].term = disk[k].term
  BY <1>1, DumpSaves DEF SavedAs, ElectionInv, VoteSelf
<1> QED BY <1>1, <1>2, <1>3, <1>l DEF SendStep

LEMMA DoLogOrder ==
  ASSUME TypeOK, TypeOK', ElectionInv, LeadersWon, ElectionSafety, LeaderHolds', OrderInv,
         NEW n \in Node, DoLog(n)
  PROVE  OrderInv'
<1>1. SendStep(n, Append(logs[n], Entry(n)))
  BY DoLogSends
<1> QED BY <1>1, SendOrder

(* A follower takes a request: each entry it has then stood in its log, or in *)
(* the request, and requests that were sent before this one are gone.        *)
TakenFrom(m, log) ==
  \A i \in 0 .. LastIndexOf(log) :
    \/ i \in 0 .. LastIndexOf(logs[m.to]) /\ log[i + 1] = logs[m.to][i + 1]
    \/ i \in Covered(Part(m)) /\ log[i + 1] = EntryIn(Part(m), i)

TakeStep(m, log) ==
  /\ m \in CurrentRequests /\ BallotStep(m.to) /\ seq' = seq
  /\ m.term >= currentTerm[m.to] /\ currentTerm'[m.to] = m.term /\ disk'[m.to].term = m.term
  /\ state'[m.to] # "Leader" /\ GoesOn(m.to)
  /\ log \in Seq(Entries) /\ TakenFrom(m, log)
  /\ logs'[m.to] = log /\ \A k \in Node \ {m.to} : logs'[k] = logs[k]
  /\ \A a \in AppendRequests' :
       /\ a \in AppendRequests
       /\ a.from = m.from /\ a.to = m.to /\ a.term = m.term => a.seq >= m.seq

LEMMA TakeTerms ==
  ASSUME TypeOK, ElectionInv, LogTerms, RequestTerms, NEW m, NEW log, TakeStep(m, log)
  PROVE  LogTerms' /\ RequestTerms'
<1>1. RequestTerms'
  BY DEF TakeStep, RequestTerms
<1>2. /\ m \in CurrentRequests /\ m.to \in Node /\ m.term \in Nat /\ m \in AppendRequests
      /\ m.entries \in Seq(Entries) /\ Part(m) \in Slices /\ Part(m).prev = m.prev
      /\ Part(m).entries = m.entries
  BY OrderTypes, PartType DEF TakeStep
<1>3. disk[m.to].term <= m.term
  <2>1. disk[m.to].term <= currentTerm[m.to] /\ currentTerm[m.to] <= m.term
    BY <1>2 DEF ElectionInv, DiskBehind, TakeStep
  <2> QED BY <1>2, <2>1, BallotTypes
<1>4. ASSUME NEW i \in 0 .. LastIndexOf(log) PROVE log[i + 1].term <= m.term
  <2>1. CASE i \in 0 .. LastIndexOf(logs[m.to]) /\ log[i + 1] = logs[m.to][i + 1]
    <3>1. TermAt(logs[m.to], i) <= disk[m.to].term
      BY <1>2, <2>1 DEF LogTerms
    <3>2. TermAt(logs[m.to], i) \in Nat
      BY <1>2, <2>1, LogTypes, LogType
    <3> QED BY <1>2, <1>3, <2>1, <3>1, <3>2, BallotTypes DEF TermAt
  <2>2. CASE i \in Covered(Part(m)) /\ log[i + 1] = EntryIn(Part(m), i)
    <3>1. i - m.prev \in 1 .. Len(m.entries)
      BY <1>2, <2>2, SliceType
    <3>2. i - m.prev \in DOMAIN m.entries
      BY <1>2, <3>1, LenProperties
    <3>3. log[i + 1] = m.entries[i - m.prev]
      BY <1>2, <2>2 DEF EntryIn
    <3> QED BY <1>2, <3>2, <3>3 DEF RequestTerms
  <2> QED BY <2>1, <2>2 DEF TakeStep, TakenFrom
<1>5. LogTerms'
  <2> SUFFICES ASSUME NEW k \in Node, NEW i \in 0 .. LastIndexOf(logs'[k])
               PROVE  TermAt(logs'[k], i) <= disk'[k].term
    BY DEF LogTerms
  <2>1. CASE k = m.to
    BY <1>4, <2>1 DEF TakeStep, TermAt
  <2>2. CASE k # m.to
    <3>1. logs'[k] = logs[k] /\ disk'[k] = disk[k]
      BY <2>2 DEF TakeStep, BallotStep
    <3> QED BY <3>1 DEF LogTerms
  <2> QED BY <2>1, <2>2
<1> QED BY <1>1, <1>5

LEMMA TakeOrder ==
  ASSUME TypeOK, TypeOK', ElectionInv, LeadersWon, ElectionSafety, OrderInv,
         NEW m, NEW log, TakeStep(m, log)
  PROVE  OrderInv'
<1> DEFINE p == m.to
<1>1. LogTerms' /\ RequestTerms'
  BY TakeTerms DEF OrderInv
<1>2. /\ m \in CurrentRequests /\ p \in Node /\ m.from \in Node /\ m.term \in Nat /\ m.seq \in Nat
      /\ m \in AppendRequests /\ Part(m) \in Slices /\ m.term = currentTerm[m.from]
      /\ m.entries \in Seq(Entries)
  BY OrderTypes DEF TakeStep
<1>3. \A k \in Node : GoesOn(k)
  BY <1>2, BallotTypes DEF TakeStep, BallotStep, GoesOn
<1>4. ASSUME NEW a \in CurrentRequests'
      PROVE  /\ a \in CurrentRequests /\ state[a.from] = "Leader" /\ state'[a.from] = "Leader"
             /\ seq'[a.from] = seq[a.from] /\ currentTerm'[a.from] = currentTerm[a.from]
  <2>1. a \in AppendRequests
    BY DEF TakeStep, CurrentRequests
  <2>2. a \in msgs /\ GoesOn(a.from)
    BY <1>3, <2>1, LogTypes DEF AppendRequests
  <2> QED BY <2>2, CurrentBefore DEF OrderInv
<1>5. SendersLead'
  BY <1>4 DEF OrderInv, SendersLead
<1>6. ASSUME NEW a \in CurrentRequests' PROVE \E b \in Int : Until(a, b)'
  <2>1. /\ a \in CurrentRequests /\ a.from \in Node /\ a.to \in Node /\ a.term \in Nat /\ a.seq \in Nat
        /\ a.term = currentTerm[a.from] /\ a.from # p
    BY <1>4, OrderTypes DEF TakeStep
  <2>2. PICK b \in Int : Until(a, b)
    BY <2>1 DEF OrderInv, RequestsHold
  <2>3. \A o \in Earlier(a)' : o \in Earlier(a)
    BY <1>4 DEF Earlier
  <2>4. Extends(logs'[a.from], logs[a.from])
    BY <2>1, LogTypes, SameExtends DEF TakeStep
  <2>5. ASSUME a.term >= currentTerm'[a.to],
               NEW i \in 0 .. LastIndexOf(logs'[a.to]), TermAt(logs'[a.to], i) = a.term
        PROVE  i <= b
    <3>0. a.term >= currentTerm[a.to]
      <4>1. currentTerm'[a.to] >= currentTerm[a.to]
        BY <1>3, <2>1 DEF GoesOn
      <4> QED BY <2>1, <2>5, <4>1, BallotTypes, BallotTypesNext
    <3>1. \A j \in 0 .. LastIndexOf(logs[a.to]) : TermAt(logs[a.to], j) = a.term => j <= b
      BY <2>2, <3>0 DEF Until
    <3>2. CASE a.to # p
      BY <2>1, <2>5, <3>1, <3>2 DEF TakeStep
    <3>3. CASE a.to = p /\ i \in 0 .. LastIndexOf(logs[p]) /\ log[i + 1] = logs[p][i + 1]
      BY <2>5, <3>1, <3>3 DEF TakeStep, TermAt
    <3>4. CASE a.to = p /\ i \in Covered(Part(m)) /\ log[i + 1] = EntryIn(Part(m), i)
      <4>1. /\ Part(m).prev = m.prev /\ Part(m).entries = m.entries
            /\ i - m.prev \in 1 .. Len(m.entries) /\ i <= End(Part(m)) /\ i \in Int
            /\ End(Part(m)) \in Int
        BY <1>2, <3>4, SliceType DEF Part, Slice
      <4>2. i - m.prev \in DOMAIN m.entries /\ log[i + 1] = m.entries[i - m.prev]
        BY <1>2, <3>4, <4>1, LenProperties DEF EntryIn
      <4>3. a.term <= m.term
        BY <1>2, <2>5, <3>4, <4>2 DEF OrderInv, RequestTerms, TakeStep, TermAt
      <4>4. a.term = m.term
        BY <1>2, <2>1, <2>5, <3>4, <4>3 DEF TakeStep
      <4>5. a.from = m.from
        <5>1. state[a.from] = "Leader" /\ state[m.from] = "Leader"
          BY <1>2, <2>1 DEF OrderInv, SendersLead
        <5>2. Won(a.from, a.term) /\ Won(m.from, m.term)
          BY <1>2, <2>1, <5>1 DEF LeadersWon
        <5> QED BY <4>4, <5>2 DEF Won, WonIn, ElectionSafety
      <4>6. a \in AppendRequests'
        BY DEF CurrentRequests
      <4>7. a.seq >= m.seq
        BY <3>4, <4>4, <4>5, <4>6 DEF TakeStep
      <4>8. m \in Earlier(a)
        BY <1>2, <2>1, <3>4, <4>5, <4>7 DEF Earlier
      <4>9. m.entries # <<>>
        BY <1>2, <4>1, EmptySeq
      <4>10. End(Part(m)) <= b
        BY <2>2, <4>8, <4>9 DEF Until
      <4> QED BY <4>1, <4>10
    <3>5. a.to = p => i \in 0 .. LastIndexOf(log)
      BY <2>5 DEF TakeStep
    <3> QED BY <3>2, <3>3, <3>4, <3>5 DEF TakeStep, TakenFrom
  <2> QED BY <2>1, <2>2, <2>3, <2>4, <2>5, UntilStays
<1>7. RequestsHold'
  BY <1>6 DEF RequestsHold
<1> QED BY <1>1, <1>5, <1>7 DEF OrderInv

LEMMA ConflictSource ==
  ASSUME TypeOK, NEW m \in AppendRequests, NEW log, m.prev <= LastIndexOf(logs[m.to]),
         NEW kept \in -1 .. m.prev - 1, log = SubSeq(logs[m.to], 1, kept + 1)
  PROVE  /\ TakenFrom(m, log) /\ LastIndexOf(log) = kept
         /\ \A i \in 0 .. kept : log[i + 1] = logs[m.to][i + 1]
<1>1. logs[m.to] \in Seq(Entries) /\ m.prev \in Int /\ m.prev >= -1
  BY LogTypes DEF Index
<1>2. PICK k \in Nat : k = Len(logs[m.to]) /\ LastIndexOf(logs[m.to]) = k - 1
  BY <1>1, LenProperties DEF LastIndexOf
<1>3. kept \in Int /\ kept + 1 \in Nat /\ kept + 1 <= k /\ kept <= k - 1
  BY <1>1, <1>2
<1>4. Len(log) = kept + 1 /\ \A i \in 1 .. kept + 1 : log[i] = logs[m.to][i]
  BY <1>1, <1>2, <1>3, PrefixEntries
<1>5. LastIndexOf(log) = kept
  BY <1>3, <1>4 DEF LastIndexOf
<1>6. ASSUME NEW i \in 0 .. kept
      PROVE  log[i + 1] = logs[m.to][i + 1] /\ i \in 0 .. LastIndexOf(logs[m.to])
  BY <1>2, <1>3, <1>4
<1> QED BY <1>5, <1>6 DEF TakenFrom

LEMMA AcceptSource ==
  ASSUME TypeOK, NEW m \in AppendRequests, m.prev <= LastIndexOf(logs[m.to])
  PROVE  TakenFrom(m, AfterAppend(m, logs[m.to]))
<1>1. /\ logs[m.to] \in Seq(Entries) /\ m.prev \in Index /\ m.entries \in Seq(Entries)
      /\ Part(m).prev = m.prev /\ Part(m).entries = m.entries
  BY LogTypes, PartType
<1>2. CASE m.prev < BaseIndexOf(logs[m.to])
  <2>1. AfterAppend(m, logs[m.to]) = logs[m.to]
    BY <1>1, <1>2 DEF AfterAppend, BaseIndexOf, Index
  <2> QED BY <2>1 DEF TakenFrom
<1>3. CASE m.prev >= BaseIndexOf(logs[m.to])
  <2>l. PICK log : log = AfterAppend(m, logs[m.to])
    OBVIOUS
  <2>p. PICK p \in Index : p = m.prev
    BY <1>1
  <2>e. PICK e \in Seq(Entries) : e = m.entries
    BY <1>1
  <2>1. log = Spliced(logs[m.to], p, e)
    BY <1>3, <2>l, <2>p, <2>e DEF AfterAppend, Spliced
  <2>2. /\ LastIndexOf(log) = p + Len(e)
        /\ \A i \in 0 .. p : log[i + 1] = logs[m.to][i + 1]
        /\ \A i \in p + 1 .. p + Len(e) : log[i + 1] = e[i - p]
    BY <1>1, <2>p, <2>1, SplicedType, SMTT(30)
  <2>k. PICK k \in Nat : k = Len(logs[m.to]) /\ LastIndexOf(logs[m.to]) = k - 1
    BY <1>1, LenProperties DEF LastIndexOf
  <2>3. p \in Int /\ p >= -1 /\ p <= k - 1 /\ Len(e) \in Nat
    BY <2>p, <2>k, LenProperties DEF Index
  <2>4. ASSUME NEW i \in 0 .. LastIndexOf(log)
        PROVE  \/ i \in 0 .. LastIndexOf(logs[m.to]) /\ log[i + 1] = logs[m.to][i + 1]
               \/ i \in Covered(Part(m)) /\ log[i + 1] = EntryIn(Part(m), i)
    <3>0. i \in 0 .. p + Len(e)
      BY <2>2
    <3>1. CASE i <= p
      <4>1. i \in 0 .. p /\ i \in 0 .. k - 1
        BY <2>3, <3>0, <3>1
      <4> QED BY <2>2, <2>k, <4>1
    <3>2. CASE i > p
      <4>1. i \in p + 1 .. p + Len(e)
        BY <2>3, <3>0, <3>2
      <4> QED BY <1>1, <2>2, <2>p, <2>e, <4>1 DEF Covered, End, EntryIn
    <3> QED BY <2>3, <3>0, <3>1, <3>2
  <2> QED BY <2>4, <2>l DEF TakenFrom
<1> QED BY <1>1, <1>2, <1>3 DEF Index, BaseIndexOf

LEMMA TakenStep ==
  ASSUME TypeOK, TypeOK', ElectionInv, LeadersWon, RequestsByWinners, ElectionSafety, Timely,
         NEW m \in msgs, OnAppendEntriesRequest(m), HandleRequestRoutine(m), Dump(m.to),
         NEW log \in Seq(Entries), TakenFrom(m, log), logs' = [logs EXCEPT ![m.to] = log],
         NEW success, NEW last, Reply(m, AppendResponse(m, m.term, success, last))
  PROVE  TakeStep(m, log)
<1> DEFINE n == m.to
<1>1. /\ n \in Node /\ m.from \in Node /\ m.term \in Nat /\ m.type = "AppendRequest"
      /\ BallotStep(n) /\ Running(n) /\ seq' = seq /\ currentTerm[n] \in Nat
  BY NameTypes, AppendRequestBallot DEF OnAppendEntriesRequest
<1>2. m \in CurrentRequests /\ m \in AppendRequests /\ m.seq \in Nat
  <2>1. m.live /\ m.term = currentTerm[m.from]
    BY <1>1 DEF OnAppendEntriesRequest, Deliverable, IsRequest
  <2>2. m \in CurrentRequests
    BY <1>1, <2>1 DEF CurrentRequests, AppendRequests
  <2> QED BY <2>2, OrderTypes
<1>3. /\ m.term >= currentTerm[n] /\ currentTerm' = [currentTerm EXCEPT ![n] = m.term]
      /\ state' = IF StepsDown(m) THEN [state EXCEPT ![n] = "Follower"] ELSE state
  BY DEF HandleRequestRoutine
<1>4. currentTerm'[n] = m.term
  BY <1>1, <1>3, NameTypes
<1>5. disk'[n].term = m.term
  BY <1>1, <1>4, DumpSaves DEF SavedAs
<1>6. state'[n] # "Leader"
  BY <1>1, TakerFollows
<1>7. GoesOn(n)
  BY <1>1, <1>3, <1>4, <1>6 DEF GoesOn, StepsDown
<1>8. logs'[n] = log /\ \A k \in Node \ {n} : logs'[k] = logs[k]
  BY <1>1 DEF TypeOK, LogTypeOK
<1>9. ASSUME NEW a \in AppendRequests'
      PROVE  /\ a \in AppendRequests
             /\ a.from = m.from /\ a.to = m.to /\ a.term = m.term => a.seq >= m.seq
  <2>1. a \in msgs' /\ a.type = "AppendRequest"
    BY DEF AppendRequests
  <2>2. a \in msgs
    BY <2>1, AnswerNames DEF AppendResponse
  <2>3. a \notin Consumed(m)
    <3>1. a # AppendResponse(m, m.term, success, last)
      BY <2>1 DEF AppendResponse
    <3> QED BY <2>1, <3>1 DEF Reply
  <2>4. a \notin Overtaken(m)
    BY <1>1, <2>3 DEF Consumed
  <2>5. a.seq \in Nat
    BY <2>1, <2>2, MessageType DEF TypeOK
  <2> QED BY <1>1, <1>2, <2>1, <2>2, <2>4, <2>5 DEF Overtaken, AppendRequests
<1> QED BY <1>1, <1>2, <1>3, <1>4, <1>5, <1>6, <1>7, <1>8, <1>9 DEF TakeStep

(* A node loses no entry of the term it is in after the step.                *)
Kept(log, old, t) ==
  \A i \in 0 .. LastIndexOf(old) :
    TermAt(old, i) = t => i <= LastIndexOf(log) /\ log[i + 1] = old[i + 1]
OwnKept == \A n \in Node : Kept(logs'[n], logs[n], currentTerm'[n])

(* What a follower has of the sender's term, the sender has too.             *)
LEMMA SenderHas ==
  ASSUME TypeOK, LogInv, SendersLead, NEW m \in CurrentRequests,
         NEW i \in 0 .. LastIndexOf(logs[m.to]), TermAt(logs[m.to], i) = m.term
  PROVE  i <= LastIndexOf(logs[m.from]) /\ logs[m.from][i + 1] = logs[m.to][i + 1]
<1>1. /\ m.from \in Node /\ m.to \in Node /\ m.term = currentTerm[m.from]
      /\ state[m.from] = "Leader" /\ logs[m.to] \in Seq(Entries)
  BY OrderTypes, LogTypes DEF SendersLead
<1>w. PICK w : w = logs[m.to]
  OBVIOUS
<1>e. PICK e : e = w[i + 1]
  OBVIOUS
<1>2. /\ Covered(Whole(w)) = 0 .. LastIndexOf(w) /\ \A j \in Int : EntryIn(Whole(w), j) = w[j + 1]
      /\ Whole(w) \in Views
  BY <1>1, <1>w, WholeType, ViewsType
<1>3. i \in Covered(Whole(w)) /\ i \in Int
  BY <1>2, <1>w
<1>4. EntryIn(Whole(w), i) = e
  BY <1>2, <1>3, <1>e
<1>5. Stands(e, i)
  BY <1>2, <1>3, <1>4 DEF Stands
<1>6. e.term = currentTerm[m.from]
  BY <1>1, <1>w, <1>e DEF TermAt
<1>7. i <= LastIndexOf(logs[m.from]) /\ logs[m.from][i + 1] = e
  BY <1>1, <1>5, <1>6 DEF LogInv, LeaderHolds
<1> QED BY <1>7, <1>w, <1>e

(* If it has an entry of that term at an index, the two logs agree before.    *)
LEMMA SenderAgrees ==
  ASSUME TypeOK, LogInv, SendersLead, NEW m \in CurrentRequests,
         NEW i \in 0 .. LastIndexOf(logs[m.to]), TermAt(logs[m.to], i) = m.term,
         NEW j \in 0 .. i
  PROVE  TermAt(logs[m.to], j) = TermAt(logs[m.from], j)
<1>1. i <= LastIndexOf(logs[m.from]) /\ logs[m.from][i + 1] = logs[m.to][i + 1]
  BY SenderHas
<1>2. CASE j = i
  BY <1>1, <1>2 DEF TermAt
<1>3. CASE j # i
  <2>w. PICK w : w = logs[m.to]
    OBVIOUS
  <2>v. PICK v : v = logs[m.from]
    OBVIOUS
  <2>1. w \in Seq(Entries) /\ v \in Seq(Entries) /\ Agree(Whole(w), Whole(v))
    BY <2>w, <2>v, OrderTypes, LogTypes, ViewsType DEF LogInv, Agreeing
  <2>2. /\ Covered(Whole(w)) = 0 .. LastIndexOf(w) /\ \A k \in Nat : TermIn(Whole(w), k) = w[k + 1].term
        /\ Whole(w).prev = -1
    BY <2>1, WholeType
  <2>3. /\ Covered(Whole(v)) = 0 .. LastIndexOf(v) /\ \A k \in Nat : TermIn(Whole(v), k) = v[k + 1].term
        /\ Whole(v).prev = -1
    BY <2>1, WholeType
  <2>4. i \in Nat /\ j \in Nat /\ j \in 0 .. i - 1 /\ j >= -1
    <3>1. LastIndexOf(w) \in Int
      BY <2>1, LogType DEF Index
    <3> QED BY <1>3, <2>w, <3>1
  <2>5. i \in 0 .. LastIndexOf(v) /\ i \in 0 .. LastIndexOf(w)
    <3>1. LastIndexOf(v) \in Int
      BY <2>1, LogType DEF Index
    <3> QED BY <1>1, <2>w, <2>v, <2>4, <3>1
  <2>6. i \in Covered(Whole(w)) \cap Covered(Whole(v))
    BY <2>2, <2>3, <2>5
  <2>7. TermIn(Whole(w), i) = TermIn(Whole(v), i)
    BY <1>1, <2>w, <2>v, <2>2, <2>3, <2>4
  <2>8. TermIn(Whole(w), j) = TermIn(Whole(v), j)
    BY <2>1, <2>2, <2>3, <2>4, <2>6, <2>7 DEF Agree
  <2> QED BY <2>w, <2>v, <2>2, <2>3, <2>4, <2>8 DEF TermAt
<1> QED BY <1>2, <1>3

LEMMA ConflictKeeps ==
  ASSUME TypeOK, LogInv, OrderInv, NEW m \in CurrentRequests, m.term >= currentTerm[m.to],
         m.prev <= LastIndexOf(logs[m.to]), Conflicts(m, logs[m.to]),
         NEW kept \in -1 .. m.prev - 1, KeptUpTo(logs[m.to], m.prev, kept),
         NEW i \in 0 .. LastIndexOf(logs[m.to]), TermAt(logs[m.to], i) = m.term
  PROVE  i <= kept
<1>1. PICK b \in Int : Until(m, b)
  BY DEF OrderInv, RequestsHold
<1>2. /\ i <= b /\ b <= LastIndexOf(logs[m.from])
      /\ (m.entries = <<>> /\ b < m.prev) \/ (m.prev <= b /\ Shows(m, logs[m.from]))
  BY <1>1 DEF Until
<1>3. m.prev \in Int /\ m.prev >= -1 /\ logs[m.to] \in Seq(Entries)
  BY OrderTypes, LogTypes DEF Index
<1>4. LastIndexOf(logs[m.to]) \in Int /\ i \in Int /\ kept \in Int
  BY <1>3, LogType DEF Index
<1>5. m.prev >= 0 /\ m.prev \in 0 .. LastIndexOf(logs[m.to])
  <2>1. m.prev > -1
    BY <1>3 DEF Conflicts, BaseIndexOf
  <2> QED BY <1>3, <1>4, <2>1
<1>6. SUFFICES ASSUME i > kept PROVE FALSE
  BY <1>4
<1>7. \A q \in 0 .. LastIndexOf(logs[m.to]) :
        TermAt(logs[m.to], q) = m.term => q < m.prev \/ ~(m.prev <= b)
  <2> SUFFICES ASSUME NEW q \in 0 .. LastIndexOf(logs[m.to]), TermAt(logs[m.to], q) = m.term,
                      q >= m.prev, m.prev <= b
               PROVE  FALSE
    BY <1>3, <1>4
  <2>1. m.prev \in 0 .. q
    BY <1>4, <1>5
  <2>2. TermAt(logs[m.to], m.prev) = TermAt(logs[m.from], m.prev)
    BY <2>1, SenderAgrees DEF OrderInv
  <2>3. TermAt(logs[m.from], m.prev) = m.prevTerm
    BY <1>2, <1>3, <1>5 DEF Shows
  <2> QED BY <2>2, <2>3 DEF Conflicts
<1>8. i < m.prev
  BY <1>2, <1>3, <1>4, <1>7
<1>9. TermAt(logs[m.to], m.prev) = m.term
  <2>1. i \in kept + 1 .. m.prev - 1
    BY <1>3, <1>4, <1>6, <1>8
  <2> QED BY <2>1 DEF KeptUpTo
<1>10. m.prev <= b
  BY <1>1, <1>5, <1>9 DEF Until
<1> QED BY <1>3, <1>5, <1>7, <1>9, <1>10

LEMMA AcceptKeeps ==
  ASSUME TypeOK, LogInv, OrderInv, NEW m \in CurrentRequests, m.term >= currentTerm[m.to],
         m.prev <= LastIndexOf(logs[m.to])
  PROVE  Kept(AfterAppend(m, logs[m.to]), logs[m.to], m.term)
<1>1. /\ logs[m.to] \in Seq(Entries) /\ m.prev \in Index /\ m.entries \in Seq(Entries)
      /\ Part(m).prev = m.prev /\ Part(m).entries = m.entries
  BY OrderTypes, LogTypes, PartType
<1>2. CASE m.prev < BaseIndexOf(logs[m.to])
  <2>1. AfterAppend(m, logs[m.to]) = logs[m.to]
    BY <1>1, <1>2 DEF AfterAppend, BaseIndexOf, Index
  <2> QED BY <1>1, <2>1, LogType DEF Kept, Index
<1>3. CASE m.prev >= BaseIndexOf(logs[m.to])
  <2>l. PICK log : log = AfterAppend(m, logs[m.to])
    OBVIOUS
  <2>p. PICK p \in Index : p = m.prev
    BY <1>1
  <2>e. PICK e \in Seq(Entries) : e = m.entries
    BY <1>1
  <2>1. log = Spliced(logs[m.to], p, e)
    BY <1>3, <2>l, <2>p, <2>e DEF AfterAppend, Spliced
  <2>2. /\ LastIndexOf(log) = p + Len(e)
        /\ \A i \in 0 .. p : log[i + 1] = logs[m.to][i + 1]
        /\ \A i \in p + 1 .. p + Len(e) : log[i + 1] = e[i - p]
    BY <1>1, <2>p, <2>1, SplicedType, SMTT(30)
  <2>3. p \in Int /\ p >= -1 /\ Len(e) \in Nat /\ LastIndexOf(logs[m.to]) \in Int
    BY <1>1, LenProperties, LogType DEF Index
  <2>b. PICK b \in Int : Until(m, b)
    BY DEF OrderInv, RequestsHold
  <2>4. /\ (e = <<>> /\ b < p) \/ (p <= b /\ b = p + Len(e) /\ Shows(m, logs[m.from]))
        /\ \A i \in 0 .. LastIndexOf(logs[m.to]) : TermAt(logs[m.to], i) = m.term => i <= b
    BY <1>1, <2>b, <2>p, <2>e DEF Until, End
  <2>5. ASSUME NEW i \in 0 .. LastIndexOf(logs[m.to]), TermAt(logs[m.to], i) = m.term
        PROVE  i <= LastIndexOf(log) /\ log[i + 1] = logs[m.to][i + 1]
    <3>1. i \in Int /\ i >= 0 /\ i <= b
      BY <2>3, <2>4, <2>5
    <3>2. CASE i <= p
      <4>1. i \in 0 .. p /\ i <= p + Len(e)
        BY <2>3, <3>1, <3>2
      <4> QED BY <2>2, <4>1
    <3>3. CASE i > p
      <4>1. p <= b /\ b = p + Len(e) /\ Shows(m, logs[m.from])
        BY <2>3, <2>4, <3>1, <3>3
      <4>2. i \in p + 1 .. p + Len(e) /\ i <= p + Len(e)
        BY <2>3, <3>1, <3>3, <4>1
      <4>3. i \in Covered(Part(m)) /\ EntryIn(Part(m), i) = e[i - p]
        BY <1>1, <2>p, <2>e, <4>2 DEF Covered, End, EntryIn
      <4>4. e[i - p] = logs[m.from][i + 1]
        BY <4>1, <4>3 DEF Shows
      <4>5. logs[m.from][i + 1] = logs[m.to][i + 1]
        BY <2>5, SenderHas DEF OrderInv
      <4> QED BY <2>2, <4>2, <4>4, <4>5
    <3> QED BY <2>3, <3>1, <3>2, <3>3
  <2> QED BY <2>5, <2>l DEF Kept
<1> QED BY <1>1, <1>2, <1>3 DEF Index, BaseIndexOf

LEMMA SameLogsKept ==
  ASSUME TypeOK, logs' = logs
  PROVE  OwnKept
<1> SUFFICES ASSUME NEW n \in Node PROVE Kept(logs[n], logs[n], currentTerm'[n])
  BY DEF OwnKept
<1>1. LastIndexOf(logs[n]) \in Int
  BY LogTypes, LogType DEF Index
<1> QED BY <1>1 DEF Kept

LEMMA SendKept ==
  ASSUME TypeOK, NEW n \in Node, NEW log, SendStep(n, log)
  PROVE  OwnKept
<1> SUFFICES ASSUME NEW k \in Node PROVE Kept(logs'[k], logs[k], currentTerm'[k])
  BY DEF OwnKept
<1>1. Extends(logs'[k], logs[k])
  <2>1. CASE k = n
    BY <2>1, SendGrows DEF SendStep
  <2>2. CASE k # n
    BY <2>2, LogTypes, SameExtends DEF SendStep
  <2> QED BY <2>1, <2>2
<1>2. LastIndexOf(logs[k]) \in Int /\ LastIndexOf(logs'[k]) \in Int
  <2>1. CASE k = n
    <3>1. logs'[k] = log /\ LastIndexOf(log) \in Int
      BY <2>1, SendGrows DEF SendStep
    <3>2. LastIndexOf(logs[k]) \in Int
      BY LogTypes, LogType DEF Index
    <3> QED BY <3>1, <3>2
  <2>2. CASE k # n
    BY <2>2, LogTypes, LogType DEF SendStep, Index
  <2> QED BY <2>1, <2>2
<1> QED BY <1>1, <1>2 DEF Kept, Extends

LEMMA AppendOrder ==
  ASSUME TypeOK, TypeOK', ElectionInv, LeadersWon, RequestsByWinners, ElectionSafety, Timely,
         LogInv, OrderInv, NEW m \in msgs, OnAppendEntriesRequest(m)
  PROVE  OrderInv' /\ OwnKept
<1> DEFINE n == m.to
<1>1. /\ n \in Node /\ m \in AppendRequests /\ m.type = "AppendRequest" /\ m \in CurrentRequests
      /\ logs[n] \in Seq(Entries) /\ logs \in [Node -> Seq(Entries)] /\ m.term \in Nat
  <2>1. n \in Node /\ m \in AppendRequests /\ m.type = "AppendRequest" /\ m.term \in Nat
    BY NameTypes DEF OnAppendEntriesRequest, AppendRequests
  <2>2. m \in CurrentRequests
    BY <2>1 DEF OnAppendEntriesRequest, Deliverable, IsRequest, CurrentRequests
  <2> QED BY <2>1, <2>2, LogTypes DEF TypeOK, LogTypeOK
<1>2. ASSUME NEW log \in Seq(Entries), TakenFrom(m, log), Kept(log, logs[n], m.term),
             logs' = [logs EXCEPT ![n] = log], Dump(n), HandleRequestRoutine(m),
             \E success, last : Reply(m, AppendResponse(m, m.term, success, last))
      PROVE  OrderInv' /\ OwnKept
  <2>1. TakeStep(m, log)
    BY <1>1, <1>2, TakenStep
  <2>2. OrderInv'
    BY <2>1, TakeOrder
  <2>3. ASSUME NEW k \in Node PROVE Kept(logs'[k], logs[k], currentTerm'[k])
    <3>1. CASE k = n
      BY <1>2, <2>1, <3>1 DEF TakeStep
    <3>2. CASE k # n
      <4>1. logs'[k] = logs[k] /\ LastIndexOf(logs[k]) \in Int
        BY <2>1, <3>2, LogTypes, LogType DEF TakeStep, Index
      <4> QED BY <4>1 DEF Kept
    <3> QED BY <3>1, <3>2
  <2> QED BY <2>2, <2>3 DEF OwnKept
<1>3. CASE AppendOldTerm(m) \/ AppendOutOfOrder(m) \/ AppendMissing(m)
  <2>1. logs' = logs
    BY <1>3 DEF AppendOldTerm, AppendOutOfOrder, AppendMissing, logVars
  <2> QED BY <1>3, <2>1, RefusedOrder, SameLogsKept
<1>4. CASE AppendConflict(m)
  <2>1. PICK kept \in -1 .. m.prev - 1 :
          /\ KeptUpTo(logs[n], m.prev, kept)
          /\ logs' = [logs EXCEPT ![n] = SubSeq(logs[n], 1, kept + 1)] /\ Dump(n)
          /\ Reply(m, AppendResponse(m, m.term, FALSE, kept))
    BY <1>1, <1>4 DEF AppendConflict
  <2>2. /\ HandleRequestRoutine(m) /\ m.prev <= LastIndexOf(logs[n]) /\ Conflicts(m, logs[n])
        /\ m.term >= currentTerm[n]
    BY <1>4 DEF AppendConflict, HandleRequestRoutine
  <2>3. PICK log : log = SubSeq(logs[n], 1, kept + 1)
    OBVIOUS
  <2>4. log \in Seq(Entries)
    BY <1>1, <2>2, <2>3, ConflictLog
  <2>5. /\ TakenFrom(m, log) /\ LastIndexOf(log) = kept
        /\ \A i \in 0 .. kept : log[i + 1] = logs[n][i + 1]
    BY <1>1, <2>2, <2>3, ConflictSource
  <2>6. Kept(log, logs[n], m.term)
    <3> SUFFICES ASSUME NEW i \in 0 .. LastIndexOf(logs[n]), TermAt(logs[n], i) = m.term
                 PROVE  i <= kept /\ log[i + 1] = logs[n][i + 1]
      BY <2>5 DEF Kept
    <3>1. i <= kept
      BY <1>1, <2>1, <2>2, ConflictKeeps
    <3>2. kept \in Int /\ i \in 0 .. kept
      <4>1. m.prev \in Int /\ LastIndexOf(logs[n]) \in Int
        BY <1>1, LogTypes, LogType DEF Index
      <4> QED BY <3>1, <4>1
    <3> QED BY <2>5, <3>1, <3>2
  <2>7. \E success, last : Reply(m, AppendResponse(m, m.term, success, last))
    BY <2>1
  <2>8. logs' = [logs EXCEPT ![n] = log] /\ Dump(n)
    BY <2>1, <2>3
  <2> QED BY <1>2, <2>2, <2>4, <2>5, <2>6, <2>7, <2>8
<1>5. CASE AppendAccept(m)
  <2>1. PICK log : log = AfterAppend(m, logs[n])
    OBVIOUS
  <2>2. /\ HandleRequestRoutine(m) /\ m.prev <= LastIndexOf(logs[n]) /\ m.term >= currentTerm[n]
        /\ logs' = [logs EXCEPT ![n] = log] /\ Dump(n)
    BY <1>5, <2>1 DEF AppendAccept, HandleRequestRoutine
  <2>3. \E success, last : Reply(m, AppendResponse(m, m.term, success, last))
    BY <1>5, Zenon DEF AppendAccept
  <2>4. log \in Seq(Entries)
    <3>1. logs'[n] = log
      BY <1>1, <2>2
    <3> QED BY <1>1, <3>1 DEF TypeOK, LogTypeOK
  <2>5. TakenFrom(m, log)
    BY <1>1, <2>1, <2>2, AcceptSource
  <2>6. Kept(log, logs[n], m.term)
    BY <1>1, <2>1, <2>2, AcceptKeeps
  <2> QED BY <1>2, <2>2, <2>3, <2>4, <2>5, <2>6
<1> QED BY <1>3, <1>4, <1>5 DEF OnAppendEntriesRequest

LEMMA OrderInit == Init => OrderInv
<1> SUFFICES ASSUME Init PROVE OrderInv
  OBVIOUS
<1>1. logs = [n \in Node |-> <<>>] /\ msgs = {}
  BY DEF Init, Start
<1>2. LogTerms
  BY <1>1 DEF LogTerms, LastIndexOf
<1> QED BY <1>1, <1>2 DEF OrderInv, RequestTerms, SendersLead, RequestsHold, CurrentRequests,
     AppendRequests

LEMMA OrderNext ==
  ASSUME TypeOK, TypeOK', ElectionInv, LeadersWon, RequestsByWinners, ElectionSafety, Timely,
         LogInv, LogInv', OrderInv, Next
  PROVE  OrderInv' /\ OwnKept
<1>1. ASSUME NEW n \in Node, Timer(n) \/ DoLog(n) \/ Fault(n) PROVE OrderInv' /\ OwnKept
  <2>1. CASE OnTimerElection(n) \/ OnTimerElectionFail(n)
    <3>1. logs' = logs
      BY <2>1 DEF OnTimerElection, OnTimerElectionFail, logVars
    <3> QED BY <2>1, <3>1, StartOrder, ElectionFailOrder, SameLogsKept
  <2>2. CASE OnTimerHeartbeat(n)
    <3>1. logs' = logs
      BY <2>2 DEF OnTimerHeartbeat, logVars
    <3> QED BY <2>2, <3>1, HeartbeatOrder, SameLogsKept DEF LogInv
  <2>3. CASE DoLog(n)
    BY <2>3, DoLogOrder, DoLogSends, SendKept DEF LogInv
  <2>4. CASE Fault(n)
    <3>1. logs' = logs
      <4>1. CASE Crash(n)
        <5>1. logs' = [logs EXCEPT ![n] = disk[n].logs]
          BY <4>1 DEF Crash
        <5> QED BY <5>1 DEF LogInv, DiskLogs, TypeOK, LogTypeOK
      <4>2. CASE ~Crash(n)
        BY <2>4, <4>2 DEF Fault, Restart, Pause, Resume, DisableSend, EnableSend, logVars
      <4> QED BY <4>1, <4>2
    <3> QED BY <2>4, <3>1, FaultOrder, SameLogsKept DEF LogInv
  <2> QED BY <1>1, <2>1, <2>2, <2>3, <2>4 DEF Timer
<1>2. ASSUME NEW m \in msgs, Handle(m) PROVE OrderInv' /\ OwnKept
  <2>1. CASE OnAppendEntriesRequest(m)
    BY <2>1, AppendOrder
  <2>2. CASE ~OnAppendEntriesRequest(m)
    <3>1. logs' = logs
      BY <1>2, <2>2 DEF Handle, OnVoteRequest, OnVoteResponseNewer, OnVoteResponseCounted,
         OnAppendEntriesResponseNewer, OnAppendEntriesResponseFailed,
         OnAppendEntriesResponseSuccess, logVars
    <3>2. OrderInv'
      BY <1>2, <2>2, VoteRequestOrder, VoteCountedOrder, ResponseOrder DEF Handle
    <3> QED BY <3>1, <3>2, SameLogsKept
  <2> QED BY <2>1, <2>2
<1> QED BY <1>1, <1>2 DEF Next

LEMMA OrderStep ==
  ASSUME TypeOK, TypeOK', ElectionInv, LeadersWon, RequestsByWinners, ElectionSafety, Timely,
         LogInv, LogInv', OrderInv, [Next]_vars
  PROVE  OrderInv' /\ OwnKept
<1>1. CASE UNCHANGED vars
  <2>1. logs' = logs
    BY <1>1 DEF vars
  <2>2. OrderInv'
    BY <1>1 DEF vars, OrderInv, LogTerms, RequestTerms, SendersLead, RequestsHold, Until,
       CurrentRequests, Earlier, AppendRequests
  <2> QED BY <2>1, <2>2, SameLogsKept
<1> QED BY <1>1, OrderNext

LEMMA KeptOnDisk ==
  ASSUME TypeOK, TypeOK', DiskLogs, DiskLogs', OwnKept
  PROVE  \A n \in Node : \A i \in DOMAIN disk[n].logs :
           disk[n].logs[i].term = currentTerm'[n] =>
             i <= Len(disk'[n].logs) /\ disk'[n].logs[i] = disk[n].logs[i]
<1> SUFFICES ASSUME NEW n \in Node, NEW i \in DOMAIN logs[n],
                    logs[n][i].term = currentTerm'[n]
             PROVE  i <= Len(logs'[n]) /\ logs'[n][i] = logs[n][i]
  BY DEF DiskLogs
<1>1. logs[n] \in Seq(Entries) /\ logs'[n] \in Seq(Entries)
  BY DEF TypeOK, LogTypeOK
<1>2. PICK k \in Nat : k = Len(logs[n]) /\ LastIndexOf(logs[n]) = k - 1
  BY <1>1, LenProperties DEF LastIndexOf
<1>3. PICK l \in Nat : l = Len(logs'[n]) /\ LastIndexOf(logs'[n]) = l - 1
  BY <1>1, LenProperties DEF LastIndexOf
<1>4. i \in 1 .. k
  BY <1>1, <1>2, LenProperties
<1>5. i - 1 \in 0 .. k - 1 /\ i - 1 + 1 = i
  BY <1>4
<1>6. TermAt(logs[n], i - 1) = currentTerm'[n]
  BY <1>5 DEF TermAt
<1>7. Kept(logs'[n], logs[n], currentTerm'[n])
  BY DEF OwnKept
<1>8. i - 1 <= l - 1 /\ logs'[n][i - 1 + 1] = logs[n][i - 1 + 1]
  BY <1>2, <1>3, <1>5, <1>6, <1>7 DEF Kept
<1> QED BY <1>3, <1>4, <1>5, <1>8

(* A leader never takes back what it has got a follower to write in its term, *)
(* if RPCs that were overtaken are lost.  This rests on what every request   *)
(* under way shows: the sender's log, no less than any earlier one did.      *)
THEOREM LeadersEraseNothing ==
  ASSUME Timely
  PROVE  Spec /\ []ElectionSafety /\ []FirstCompared => SameLeaderErasesNothing
<1>1. /\ TypeOK /\ TypeOK' /\ ElectionInv /\ LeadersWon /\ RequestsByWinners
      /\ ElectionSafety /\ ElectionSafety' /\ FirstCompared /\ LogInv /\ [Next]_vars
      => LogInv'
  BY LogNext
<1>2. /\ TypeOK /\ TypeOK' /\ ElectionInv /\ LeadersWon /\ RequestsByWinners /\ ElectionSafety
      /\ LogInv /\ LogInv' /\ OrderInv /\ [Next]_vars
      => /\ OrderInv'
         /\ [\A n \in Node : \A i \in DOMAIN disk[n].logs :
               disk[n].logs[i].term = currentTerm'[n] =>
                 i <= Len(disk'[n].logs) /\ disk'[n].logs[i] = disk[n].logs[i]]_vars
  BY OrderStep, KeptOnDisk DEF LogInv
<1> QED BY <1>1, <1>2, LogInit, OrderInit, TypeCorrect, ElectionInvariant, RequestsWon, PTL
    DEF Spec, SameLeaderErasesNothing

(* And with no link cut, when two leaders cannot be elected in a term.       *)
THEOREM TimelyLeadersEraseNothing ==
  ASSUME Timely, MaxCut = 0
  PROVE  Spec /\ []FirstCompared => SameLeaderErasesNothing
BY LeadersEraseNothing, TimelyElectionsSafe, PTL
=============================================================================
