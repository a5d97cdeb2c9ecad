------------------------- MODULE ReportHistoryProofs -------------------------
(***************************************************************************)
(* Proofs about the audited history of reports, for any number of commits, *)
(* merges and pull requests: what the audit looks at edge by edge holds of *)
(* every commit that descends from the base, and a report that main has    *)
(* shown is never changed or taken out.                                    *)
(***************************************************************************)
EXTENDS ReportHistory, SequenceTheorems, FiniteSetTheorems, TLAPS

---------------------------------------------------------------------------
(* Commits.                                                                *)

LEMMA MainCommit ==
  ASSUME NEW i
  PROVE  /\ ReportsOf(Main(i)) = line[i]
         /\ HistoryOf(Main(i)) = {Main(k) : k \in 1 .. i}
         /\ \A k : Main(k) = Main(i) => k = i
         /\ \A j : Main(i) # Topic(j)
BY DEF ReportsOf, HistoryOf, Main, Topic

LEMMA TopicCommitIs ==
  ASSUME NEW j
  PROVE  /\ ReportsOf(Topic(j)) = topic[j].reports
         /\ HistoryOf(Topic(j)) = topic[j].history
         /\ ParentsOf(Topic(j)) = topic[j].parents
         /\ \A k : Topic(k) = Topic(j) => k = j
BY DEF ReportsOf, HistoryOf, ParentsOf, Main, Topic

\* The merge that the host makes has the tree of an up-to-date branch, and
\* is one more commit that the head of main does not have.
LEMMA MergeCommit ==
  ASSUME NEW j
  PROVE  /\ ReportsOf(MergeRef(j)) = topic[j].reports
         /\ ParentsOf(MergeRef(j)) = {Tip, Topic(j)}
         /\ HistoryOf(MergeRef(j)) = {MergeRef(j)} \cup HistoryOf(Tip) \cup HistoryOf(Topic(j))
         /\ \A i : MergeRef(j) # Main(i) /\ MergeRef(j) # Topic(i)
BY DEF ReportsOf, ParentsOf, HistoryOf, Main, Topic, MergeRef, Tip

LEMMA MergeIntroduces ==
  ASSUME NEW h
  PROVE  /\ Introduced(Tip, MergeRef(h)) = {MergeRef(h)} \cup Introduced(Tip, Topic(h))
         /\ Edges(Tip, Topic(h)) \subseteq Edges(Tip, MergeRef(h))
<1>1. MergeRef(h) \notin HistoryOf(Tip)
  BY MergeCommit, MainCommit DEF Tip
<1>2. Introduced(Tip, MergeRef(h)) = {MergeRef(h)} \cup Introduced(Tip, Topic(h))
  BY <1>1, MergeCommit DEF Introduced
<1> QED  BY <1>2 DEF Edges

LEMMA TopicReports ==
  ASSUME TypeOK, NEW j \in 1 .. Len(topic)
  PROVE  topic[j].reports \in Reports
<1>1. topic[j] \in TopicCommit
  BY DEF TypeOK
<1> QED  BY <1>1 DEF TopicCommit

LEMMA KeepsTransitive ==
  ASSUME NEW a, NEW b, NEW c, Keeps(a, b), Keeps(b, c)
  PROVE  Keeps(a, c)
BY DEF Keeps

LEMMA KeepsReflexive == ASSUME NEW a PROVE Keeps(a, a)
BY DEF Keeps

---------------------------------------------------------------------------
(* The inductive invariant.                                                *)

\* A commit is made of earlier ones, and its history is theirs and itself.
Grown(j) ==
  /\ \A c \in topic[j].parents :
       \/ \E i \in 1 .. Len(line) : c = Main(i)
       \/ \E k \in 1 .. j - 1 : c = Topic(k)
  /\ topic[j].history = {Topic(j)} \cup UNION {HistoryOf(c) : c \in topic[j].parents}
  /\ \A c \in topic[j].history : HistoryOf(c) \subseteq topic[j].history

AllGrown == \A j \in 1 .. Len(topic) : Grown(j)

\* Commits are counted: of any of them there is a first.
HasFirst ==
  \A S \in SUBSET (1 .. Len(topic)) : S # {} => \E m \in S : \A k \in S : m <= k

\* A check was made against the head of its time, the newest commit of main
\* that the target can have seen.
ChecksAreOfHead ==
  \A check \in checked : \A i \in Nat :
    Main(i) \in topic[check.target].history => i <= check.base

IInv == TypeOK /\ AllGrown /\ HasFirst /\ ChecksAreOfHead /\ CheckedHistoryKeeps /\ HeadsAreKept

THEOREM InitIInv == Init => IInv
<1> SUFFICES ASSUME Init PROVE IInv
  OBVIOUS
<1> NoReports \in Reports
  BY DEF NoReports, Reports
<1>1. TypeOK
  BY DEF Init, TypeOK
<1>2. AllGrown /\ HasFirst
  <2>1. 1 .. Len(topic) = {}
    BY DEF Init
  <2> QED  BY <2>1 DEF AllGrown, HasFirst
<1>4. ChecksAreOfHead /\ CheckedHistoryKeeps
  <2>1. checked = {}
    BY DEF Init
  <2> QED  BY <2>1 DEF ChecksAreOfHead, CheckedHistoryKeeps
<1>3. HeadsAreKept
  BY KeepsReflexive DEF Init, HeadsAreKept
<1> QED  BY <1>1, <1>2, <1>3, <1>4 DEF IInv

---------------------------------------------------------------------------
(* What a passed audit means: of the commits of the target's history that  *)
(* descend from the head, take the first that lacks one of its reports;    *)
(* the edge to the parent through which it descends has been checked.      *)

LEMMA AuditKeepsHistory ==
  ASSUME IInv, NEW h \in 1 .. Len(topic), AppendOnly(Tip, MergeRef(h)),
         NEW c \in HistoryOf(Topic(h)), Tip \in HistoryOf(c)
  PROVE  Keeps(line[Len(line)], ReportsOf(c))
<1> DEFINE L == Len(line)
           Bad == {j \in 1 .. Len(topic) :
                     /\ Topic(j) \in topic[h].history
                     /\ Main(L) \in topic[j].history
                     /\ ~ Keeps(line[L], topic[j].reports)}
<1>0. L \in Nat \ {0} /\ Len(topic) \in Nat
  BY DEF IInv, TypeOK
<1>1. \A j \in Bad : \E k \in Bad : k < j
  <2> SUFFICES ASSUME NEW j \in Bad PROVE \E k \in Bad : k < j
    OBVIOUS
  <2>1. Grown(j) /\ Grown(h)
    BY DEF IInv, AllGrown
  <2>2. PICK p \in topic[j].parents : Main(L) \in HistoryOf(p)
    BY <2>1, MainCommit DEF Grown
  <2>3. <<Topic(j), p>> \in Edges(Tip, Topic(h))
    <3>1. Topic(j) \notin HistoryOf(Tip)
      BY MainCommit DEF Tip
    <3> QED  BY <3>1, TopicCommitIs DEF Edges, Introduced
  <2>4. KeepsTrusted(line[L], ReportsOf(p), topic[j].reports)
    <3>1. <<Topic(j), p>> \in Edges(Tip, MergeRef(h))
      BY <2>3, MergeIntroduces
    <3> QED  BY <3>1, MainCommit, TopicCommitIs DEF AppendOnly, PreservesBase, Tip
  <2>5. ~ Keeps(line[L], ReportsOf(p))
    BY <2>4 DEF KeepsTrusted, Keeps
  <2>6. CASE \E i \in 1 .. L : p = Main(i)
    <3>1. PICK i \in 1 .. L : p = Main(i)
      BY <2>6
    <3>2. i = L
      BY <1>0, <2>2, <3>1, MainCommit
    <3> QED  BY <2>5, <3>1, <3>2, MainCommit, KeepsReflexive
  <2>7. CASE \E k \in 1 .. j - 1 : p = Topic(k)
    <3>1. PICK k \in 1 .. j - 1 : p = Topic(k)
      BY <2>7
    <3>2. k \in 1 .. Len(topic) /\ k < j
      BY <1>0, <3>1
    <3>3. Topic(k) \in topic[k].history
      BY <3>2 DEF IInv, AllGrown, Grown
    <3>4. Topic(k) \in topic[j].history
      BY <2>1, <3>1, <3>3, TopicCommitIs DEF Grown
    <3>5. Topic(k) \in topic[h].history
      BY <2>1, <3>4, TopicCommitIs DEF Grown
    <3> QED  BY <2>2, <2>5, <3>1, <3>2, <3>5, TopicCommitIs
  <2> QED  BY <2>1, <2>6, <2>7 DEF Grown
<1>2. Bad = {}
  <2> SUFFICES ASSUME Bad # {} PROVE FALSE
    OBVIOUS
  <2>1. Bad \in SUBSET (1 .. Len(topic))
    OBVIOUS
  <2>2. PICK m \in Bad : \A k \in Bad : m <= k
    BY <2>1 DEF IInv, HasFirst
  <2>3. PICK k \in Bad : k < m
    BY <1>1, <2>2
  <2> QED  BY <1>0, <2>2, <2>3
<1>3. CASE \E i \in 1 .. L : c = Main(i)
  <2>1. PICK i \in 1 .. L : c = Main(i)
    BY <1>3
  <2>2. i = L
    BY <1>0, <2>1, MainCommit DEF Tip
  <2> QED  BY <2>1, <2>2, MainCommit, KeepsReflexive
<1>4. CASE \E j \in 1 .. Len(topic) : c = Topic(j)
  BY <1>2, <1>4, TopicCommitIs DEF Tip
<1>5. c \in Commits
  BY TopicCommitIs DEF IInv, TypeOK
<1> QED  BY <1>3, <1>4, <1>5 DEF Commits

---------------------------------------------------------------------------
(* The steps.                                                              *)

\* A commit of a topic changes nothing of the earlier ones.
LEMMA CommitKeepsEarlier ==
  ASSUME IInv, NEW parents, NEW reports, MakeCommit(parents, reports)
  PROVE  /\ Len(topic') = Len(topic) + 1
         /\ \A j \in 1 .. Len(topic) : topic'[j] = topic[j]
         /\ topic'[Len(topic) + 1] =
              [parents |-> parents, reports |-> reports,
               history |-> {Topic(Len(topic) + 1)} \cup UNION {HistoryOf(c) : c \in parents}]
         /\ \A c \in Commits : HistoryOf(c)' = HistoryOf(c) /\ ReportsOf(c)' = ReportsOf(c)
<1>1. /\ Len(topic') = Len(topic) + 1
      /\ \A j \in 1 .. Len(topic) : topic'[j] = topic[j]
      /\ topic'[Len(topic) + 1] =
              [parents |-> parents, reports |-> reports,
               history |-> {Topic(Len(topic) + 1)} \cup UNION {HistoryOf(c) : c \in parents}]
  BY DEF MakeCommit, IInv, TypeOK
<1>2. line' = line
  BY DEF MakeCommit
<1>3. \A c \in Commits : HistoryOf(c)' = HistoryOf(c) /\ ReportsOf(c)' = ReportsOf(c)
  BY <1>1, <1>2 DEF Commits, HistoryOf, ReportsOf, Main, Topic
<1> QED  BY <1>1, <1>3

LEMMA CommitStep ==
  ASSUME IInv, NEW parents \in SUBSET Commits, NEW reports \in Reports,
         MakeCommit(parents, reports)
  PROVE  IInv'
<1> DEFINE N == Len(topic)
<1>0. N \in Nat /\ line' = line /\ checked' = checked /\ heads' = heads
  BY DEF IInv, TypeOK, MakeCommit
<1> DEFINE new == [parents |-> parents, reports |-> reports,
                   history |-> {Topic(N + 1)} \cup UNION {HistoryOf(c) : c \in parents}]
<1>a. /\ Len(topic') = N + 1
      /\ \A j \in 1 .. N : topic'[j] = topic[j]
      /\ topic'[N + 1] = new
      /\ topic' = Append(topic, new)
  BY CommitKeepsEarlier DEF MakeCommit
<1>b. \A c \in Commits : HistoryOf(c)' = HistoryOf(c) /\ ReportsOf(c)' = ReportsOf(c)
  BY CommitKeepsEarlier
<1> HIDE DEF new
<1>1. \A c \in Commits : c \in Commits' /\ HistoryOf(c) \in SUBSET Commits
  <2> TAKE c \in Commits
  <2>1. c \in Commits'
    BY <1>0, <1>a DEF Commits
  <2>2. CASE \E i \in 1 .. Len(line) : c = Main(i)
    BY <1>0, <2>2, MainCommit DEF Commits, IInv, TypeOK
  <2>3. CASE \E j \in 1 .. N : c = Topic(j)
    <3>1. PICK j \in 1 .. N : c = Topic(j)
      BY <2>3
    <3>2. HistoryOf(c) = topic[j].history /\ topic[j].history \subseteq Commits
      BY <3>1, TopicCommitIs DEF IInv, TypeOK
    <3> QED  BY <2>1, <3>2
  <2> QED  BY <2>1, <2>2, <2>3 DEF Commits
<1>2. TypeOK'
  <2>1. Commits \subseteq AnyCommit
    BY <1>0 DEF Commits, AnyCommit, Main, Topic, IInv, TypeOK
  <2>2. Topic(N + 1) \in AnyCommit /\ Topic(N + 1) \in Commits'
    BY <1>0, <1>a DEF Topic, AnyCommit, Commits
  <2>3. UNION {HistoryOf(c) : c \in parents} \subseteq Commits
    BY <1>1
  <2>4. topic'[N + 1] \in TopicCommit
    BY <1>a, <2>1, <2>2, <2>3 DEF TopicCommit, new
  <2>5. topic' \in Seq(TopicCommit)
    BY <1>a, <2>4 DEF IInv, TypeOK
  <2>6. \A j \in 1 .. Len(topic') :
          topic'[j].parents \subseteq Commits' /\ topic'[j].history \subseteq Commits'
    <3> TAKE j \in 1 .. Len(topic')
    <3>1. CASE j \in 1 .. N
      BY <1>a, <1>1, <3>1 DEF IInv, TypeOK
    <3>2. CASE j = N + 1
      BY <1>a, <1>1, <2>2, <2>3, <3>2 DEF new
    <3> QED  BY <1>0, <1>a, <3>1, <3>2
  <2>7. checked' \subseteq [base : 1 .. Len(line'), target : 1 .. Len(topic')]
    BY <1>0, <1>a DEF IInv, TypeOK
  <2> QED  BY <1>0, <2>5, <2>6, <2>7 DEF IInv, TypeOK
<1>3. AllGrown'
  <2> SUFFICES ASSUME NEW j \in 1 .. Len(topic') PROVE Grown(j)'
    BY DEF AllGrown
  <2>1. CASE j \in 1 .. N
    <3>1. /\ Grown(j) /\ topic'[j] = topic[j]
          /\ topic[j].parents \subseteq Commits /\ topic[j].history \subseteq Commits
      BY <1>a, <2>1 DEF IInv, TypeOK, AllGrown
    <3>2. HistoryOf(Topic(j))' = HistoryOf(Topic(j))
      BY <3>1 DEF HistoryOf, Topic
    <3>3. /\ UNION {HistoryOf(c)' : c \in topic[j].parents}
              = UNION {HistoryOf(c) : c \in topic[j].parents}
          /\ \A c \in topic[j].history : HistoryOf(c)' = HistoryOf(c)
      BY <1>b, <3>1
    <3> QED  BY <1>0, <3>1, <3>3 DEF Grown
  <2>2. CASE j = N + 1
    <3>1. topic'[j].parents = parents
      BY <1>a, <2>2 DEF new
    <3>2. topic'[j].history = {Topic(j)} \cup UNION {HistoryOf(c)' : c \in parents}
      <4>1. topic'[j].history = {Topic(j)} \cup UNION {HistoryOf(c) : c \in parents}
        BY <1>a, <2>2 DEF new
      <4> QED  BY <1>b, <4>1
    <3>3. \A c \in Commits : \A d \in HistoryOf(c) : HistoryOf(d) \subseteq HistoryOf(c)
      <4> TAKE c \in Commits
      <4>1. CASE \E i \in 1 .. Len(line) : c = Main(i)
        <5>1. PICK i \in 1 .. Len(line) : c = Main(i)
          BY <4>1
        <5> SUFFICES ASSUME NEW d \in HistoryOf(c) PROVE HistoryOf(d) \subseteq HistoryOf(c)
          OBVIOUS
        <5>2. PICK k \in 1 .. i : d = Main(k)
          BY <5>1, MainCommit
        <5>3. 1 .. k \subseteq 1 .. i
          BY DEF IInv, TypeOK
        <5> QED  BY <5>1, <5>2, <5>3, MainCommit
      <4>2. CASE \E k \in 1 .. N : c = Topic(k)
        BY <4>2, TopicCommitIs DEF IInv, AllGrown, Grown
      <4> QED  BY <4>1, <4>2 DEF Commits
    <3>4. \A c \in topic'[j].history : HistoryOf(c)' \subseteq topic'[j].history
      <4> TAKE c \in topic'[j].history
      <4>1. CASE c = Topic(j)
        BY <4>1 DEF HistoryOf, Topic
      <4>2. CASE \E d \in parents : c \in HistoryOf(d)'
        BY <1>b, <1>1, <3>2, <3>3, <4>2
      <4> QED  BY <3>2, <4>1, <4>2
    <3>5. \A c \in parents :
            \/ \E i \in 1 .. Len(line') : c = Main(i)
            \/ \E k \in 1 .. j - 1 : c = Topic(k)
      BY <1>0, <2>2 DEF Commits
    <3> QED  BY <3>1, <3>2, <3>4, <3>5 DEF Grown
  <2> QED  BY <1>0, <1>a, <2>1, <2>2
<1>4. HasFirst'
  <2> SUFFICES ASSUME NEW S \in SUBSET (1 .. N + 1), S # {}
               PROVE  \E m \in S : \A k \in S : m <= k
    BY <1>a DEF HasFirst
  <2> DEFINE R == S \cap (1 .. N)
  <2>1. CASE R = {}
    <3>1. \A k \in S : k = N + 1
      BY <1>0, <2>1
    <3>2. PICK m \in S : TRUE
      OBVIOUS
    <3>3. \A k \in S : m <= k
      BY <1>0, <3>1
    <3> QED  BY <3>3
  <2>2. CASE R # {}
    <3>1. PICK m \in R : \A k \in R : m <= k
      <4>1. R \in SUBSET (1 .. Len(topic))
        OBVIOUS
      <4> QED  BY <2>2, <4>1 DEF IInv, HasFirst
    <3>2. \A k \in S : m <= k
      BY <1>0, <3>1
    <3> QED  BY <3>1, <3>2
  <2> QED  BY <2>1, <2>2
<1>5. \A check \in checked : check.target \in 1 .. N /\ check.base \in 1 .. Len(line)
  BY DEF IInv, TypeOK
<1>6. ChecksAreOfHead'
  BY <1>0, <1>a, <1>5 DEF IInv, ChecksAreOfHead
<1>7. CheckedHistoryKeeps'
  <2>1. \A check \in checked :
          HistoryOf(Topic(check.target))' = HistoryOf(Topic(check.target))
    BY <1>0, <1>b, <1>5 DEF Commits
  <2>2. \A check \in checked : HistoryOf(Topic(check.target)) \subseteq Commits
    BY <1>5, TopicCommitIs DEF IInv, TypeOK
  <2> SUFFICES ASSUME NEW check \in checked, NEW c \in HistoryOf(Topic(check.target)),
                      Main(check.base) \in HistoryOf(c)'
               PROVE  Keeps(line[check.base], ReportsOf(c)')
    BY <1>0, <2>1 DEF CheckedHistoryKeeps
  <2>3. HistoryOf(c)' = HistoryOf(c) /\ ReportsOf(c)' = ReportsOf(c)
    BY <1>b, <2>2
  <2> QED  BY <2>3 DEF IInv, CheckedHistoryKeeps
<1>8. HeadsAreKept'
  BY <1>0 DEF IInv, HeadsAreKept
<1> QED  BY <1>2, <1>3, <1>4, <1>6, <1>7, <1>8 DEF IInv

\* A check is of a head, and its target's history was known by then.
LEMMA CheckStep ==
  ASSUME IInv, NEW h \in 1 .. Len(topic), CheckPull(h)
  PROVE  IInv'
<1> DEFINE new == [base |-> Len(line), target |-> h]
<1>0. /\ line' = line /\ topic' = topic /\ heads' = heads
      /\ checked' = checked \cup {new} /\ Len(line) \in Nat
      /\ AppendOnly(Tip, MergeRef(h))
  BY DEF CheckPull, IInv, TypeOK
<1>1. \A c : HistoryOf(c)' = HistoryOf(c) /\ ReportsOf(c)' = ReportsOf(c)
  BY <1>0 DEF HistoryOf, ReportsOf
<1>2. TypeOK'
  <2>1. Commits' = Commits
    BY <1>0 DEF Commits
  <2>2. new \in [base : 1 .. Len(line), target : 1 .. Len(topic)]
    BY DEF IInv, TypeOK
  <2> QED  BY <1>0, <2>1, <2>2 DEF IInv, TypeOK
<1>3. AllGrown' /\ HasFirst' /\ HeadsAreKept'
  BY <1>0, <1>1 DEF IInv, AllGrown, Grown, HasFirst, HeadsAreKept
<1>4. ChecksAreOfHead'
  <2>1. \A i \in Nat : Main(i) \in topic[h].history => i <= Len(line)
    <3> TAKE i \in Nat
    <3> HAVE Main(i) \in topic[h].history
    <3>1. Main(i) \in Commits
      BY DEF IInv, TypeOK
    <3> QED  BY <1>0, <3>1, MainCommit DEF Commits
  <2> QED  BY <1>0, <2>1 DEF IInv, ChecksAreOfHead
<1>5. CheckedHistoryKeeps'
  <2>1. \A c \in HistoryOf(Topic(h)) :
          Main(Len(line)) \in HistoryOf(c) => Keeps(line[Len(line)], ReportsOf(c))
    BY <1>0, AuditKeepsHistory DEF Tip
  <2> QED  BY <1>0, <1>1, <2>1 DEF IInv, CheckedHistoryKeeps
<1> QED  BY <1>2, <1>3, <1>4, <1>5 DEF IInv

\* Commits that all keep the head's reports can be put on main.
LEMMA LandStep ==
  ASSUME IInv, NEW commits \in Seq(Reports), Len(commits) >= 1,
         \A i \in 1 .. Len(commits) : Keeps(line[Len(line)], commits[i]),
         LandOn(commits)
  PROVE  IInv'
<1> DEFINE L == Len(line)
           n == Len(commits)
<1>0. /\ L \in Nat /\ L >= 1 /\ n \in Nat /\ n >= 1
      /\ topic' = topic /\ checked' = checked /\ heads' = heads \cup {L + n}
      /\ line \in Seq(Reports) /\ L \in heads
      /\ heads \subseteq 1 .. L
  BY DEF LandOn, IInv, TypeOK
<1>1. /\ line' \in Seq(Reports) /\ Len(line') = L + n
      /\ \A i \in 1 .. L : line'[i] = line[i]
      /\ \A i \in L + 1 .. L + n : line'[i] = commits[i - L]
  BY <1>0 DEF LandOn
<1>2. \A c \in Commits : /\ c \in Commits'
                         /\ HistoryOf(c)' = HistoryOf(c) /\ ReportsOf(c)' = ReportsOf(c)
  BY <1>0, <1>1 DEF Commits, HistoryOf, ReportsOf, Main, Topic
<1>3. TypeOK'
  <2>1. checked' \subseteq [base : 1 .. Len(line'), target : 1 .. Len(topic')]
    <3>1. 1 .. L \subseteq 1 .. L + n
      BY <1>0
    <3>2. checked \subseteq [base : 1 .. L, target : 1 .. Len(topic)]
      BY DEF IInv, TypeOK
    <3> QED  BY <1>0, <1>1, <3>1, <3>2
  <2>2. heads' \subseteq 1 .. Len(line') /\ Len(line') \in heads'
    <3>1. 1 .. L \subseteq 1 .. L + n /\ L + n \in 1 .. L + n
      BY <1>0
    <3> QED  BY <1>0, <1>1, <3>1
  <2> QED  BY <1>0, <1>1, <1>2, <2>1, <2>2 DEF IInv, TypeOK
<1>4. AllGrown'
  <2> SUFFICES ASSUME NEW j \in 1 .. Len(topic) PROVE Grown(j)'
    BY <1>0 DEF AllGrown
  <2>1. /\ Grown(j)
        /\ topic[j].parents \subseteq Commits /\ topic[j].history \subseteq Commits
    BY DEF IInv, TypeOK, AllGrown
  <2>2. \A i \in 1 .. L : i \in 1 .. Len(line')
    BY <1>0, <1>1
  <2>3. HistoryOf(Topic(j))' = HistoryOf(Topic(j))
    BY <1>0 DEF HistoryOf, Topic
  <2>4. /\ UNION {HistoryOf(c)' : c \in topic[j].parents}
            = UNION {HistoryOf(c) : c \in topic[j].parents}
        /\ \A c \in topic[j].history : HistoryOf(c)' = HistoryOf(c)
    BY <1>2, <2>1
  <2> QED  BY <1>0, <2>1, <2>2, <2>4 DEF Grown
<1>5. HasFirst' /\ ChecksAreOfHead'
  BY <1>0 DEF IInv, HasFirst, ChecksAreOfHead
<1>6. CheckedHistoryKeeps'
  <2>1. \A check \in checked : /\ check.base \in 1 .. L
                               /\ HistoryOf(Topic(check.target)) \subseteq Commits
                               /\ Topic(check.target) \in Commits
    <3> TAKE check \in checked
    <3>1. check.base \in 1 .. L /\ check.target \in 1 .. Len(topic)
      BY DEF IInv, TypeOK
    <3>2. topic[check.target].history \subseteq Commits
      BY <3>1 DEF IInv, TypeOK
    <3>3. HistoryOf(Topic(check.target)) = topic[check.target].history
      BY TopicCommitIs
    <3> QED  BY <3>1, <3>2, <3>3 DEF Commits
  <2>2. ASSUME NEW check \in checked, NEW c \in HistoryOf(Topic(check.target)),
               Main(check.base) \in HistoryOf(c)
        PROVE  Keeps(line[check.base], ReportsOf(c))
    BY <2>2 DEF IInv, CheckedHistoryKeeps
  <2>3. ASSUME NEW check \in checked, NEW c \in HistoryOf(Topic(check.target))',
               Main(check.base) \in HistoryOf(c)'
        PROVE  Keeps(line'[check.base], ReportsOf(c)')
    <3>1. HistoryOf(Topic(check.target))' = HistoryOf(Topic(check.target))
      BY <1>2, <2>1
    <3>2. c \in HistoryOf(Topic(check.target)) /\ c \in Commits
      BY <2>1, <2>3, <3>1
    <3>3. HistoryOf(c)' = HistoryOf(c) /\ ReportsOf(c)' = ReportsOf(c)
      BY <1>2, <3>2
    <3>4. line'[check.base] = line[check.base]
      BY <1>1, <2>1
    <3> QED  BY <2>2, <2>3, <3>2, <3>3, <3>4
  <2> QED  BY <1>0, <2>3 DEF CheckedHistoryKeeps, Keeps, Main
<1>7. HeadsAreKept'
  <2> SUFFICES ASSUME NEW b \in heads', NEW k \in b .. L + n
               PROVE  Keeps(line'[b], line'[k])
    BY <1>1 DEF HeadsAreKept
  <2>1. CASE b \in heads /\ k <= L
    <3>1. b \in 1 .. L /\ k \in 1 .. L /\ k \in b .. L
      BY <1>0, <2>1
    <3> QED  BY <1>1, <2>1, <3>1 DEF IInv, HeadsAreKept
  <2>2. CASE b \in heads /\ k > L
    <3>1. b \in 1 .. L /\ L \in b .. L /\ k \in L + 1 .. L + n /\ k - L \in 1 .. n
      BY <1>0, <2>2
    <3>2. Keeps(line[b], line[L])
      BY <2>2, <3>1 DEF IInv, HeadsAreKept
    <3>3. Keeps(line[L], commits[k - L])
      BY <3>1
    <3> QED  BY <1>1, <3>1, <3>2, <3>3, KeepsTransitive
  <2>3. CASE b = L + n
    BY <1>0, <2>3, KeepsReflexive
  <2>4. k \in Int
    BY <1>0
  <2> QED  BY <1>0, <2>1, <2>2, <2>3, <2>4
<1> QED  BY <1>3, <1>4, <1>5, <1>6, <1>7 DEF IInv

\* A branch that may land was checked against this very head.
LEMMA LandableKeeps ==
  ASSUME IInv, NEW h \in 1 .. Len(topic), Landable(h),
         NEW c \in HistoryOf(Topic(h)), Tip \in HistoryOf(c)
  PROVE  Keeps(line[Len(line)], ReportsOf(c))
<1>1. PICK check \in checked : check.target = h
  BY DEF Landable, UpToDate
<1>2. check.base \in 1 .. Len(line) /\ Len(line) \in Nat
  BY DEF IInv, TypeOK
<1>3. Len(line) <= check.base
  BY <1>1, <1>2, TopicCommitIs DEF IInv, ChecksAreOfHead, Landable, UpToDate, Tip
<1>4. check.base = Len(line)
  BY <1>2, <1>3
<1> QED  BY <1>1, <1>4 DEF IInv, CheckedHistoryKeeps, Tip

LEMMA SquashStep ==
  ASSUME IInv, NEW h \in 1 .. Len(topic), LandSquashed(h)
  PROVE  IInv'
<1> DEFINE commits == <<topic[h].reports>>
<1>1. commits \in Seq(Reports) /\ Len(commits) = 1 /\ commits[1] = topic[h].reports
  <2>1. topic[h].reports \in Reports
    BY TopicReports DEF IInv
  <2> QED  BY <2>1
<1>2. Topic(h) \in HistoryOf(Topic(h))
  BY TopicCommitIs DEF IInv, AllGrown, Grown
<1>3. Keeps(line[Len(line)], topic[h].reports)
  BY <1>2, LandableKeeps, TopicCommitIs DEF LandSquashed, Landable, UpToDate
<1>4. \A i \in 1 .. Len(commits) : Keeps(line[Len(line)], commits[i])
  BY <1>1, <1>3
<1>5. LandOn(commits)
  BY DEF LandSquashed
<1> HIDE DEF commits
<1> QED  BY <1>1, <1>4, <1>5, LandStep

LEMMA MetadataStep == ASSUME IInv, LandMetadata PROVE IInv'
<1> DEFINE commits == <<line[Len(line)]>>
<1>1. commits \in Seq(Reports) /\ Len(commits) = 1 /\ commits[1] = line[Len(line)]
  BY DEF IInv, TypeOK
<1>2. \A i \in 1 .. Len(commits) : Keeps(line[Len(line)], commits[i])
  BY <1>1, KeepsReflexive
<1>3. LandOn(commits)
  BY DEF LandMetadata
<1>4. Len(commits) >= 1
  BY <1>1
<1> HIDE DEF commits
<1> QED  BY <1>1, <1>2, <1>3, <1>4, LandStep

\* Every commit of a chain that starts at the head descends from it.
LEMMA ChainDescends ==
  ASSUME IInv, NEW h \in 1 .. Len(topic), NEW n \in Nat,
         NEW chain \in [1 .. n -> 1 .. Len(topic)], Chain(h, chain)
  PROVE  \A i \in 1 .. n : Tip \in HistoryOf(Topic(chain[i]))
<1> DEFINE Bad == {j \in 1 .. Len(topic) :
                     \E i \in 1 .. n : chain[i] = j /\ Tip \notin topic[j].history}
<1>0. Len(chain) = n /\ Len(topic) \in Nat /\ Len(line) \in Nat /\ Len(line) >= 1
  BY LenProperties DEF IInv, TypeOK
<1>1. \A j \in Bad : \E k \in Bad : k < j
  <2> TAKE j \in Bad
  <2>1. PICK i \in 1 .. n : chain[i] = j /\ Tip \notin topic[j].history
    OBVIOUS
  <2>2. Grown(j)
    BY DEF IInv, AllGrown
  <2>3. topic[j].parents = {IF i = 1 THEN Tip ELSE Topic(chain[i - 1])}
    BY <1>0, <2>1, TopicCommitIs DEF Chain
  <2>4. Tip \in HistoryOf(Tip)
    BY <1>0, MainCommit DEF Tip
  <2>5. i # 1
    BY <2>1, <2>2, <2>3, <2>4 DEF Grown
  <2>6. i - 1 \in 1 .. n /\ topic[j].parents = {Topic(chain[i - 1])}
    BY <2>3, <2>5
  <2>7. Tip \notin topic[chain[i - 1]].history
    BY <2>1, <2>2, <2>6, TopicCommitIs DEF Grown
  <2>8. chain[i - 1] \in 1 .. j - 1
    BY <2>2, <2>6, MainCommit, TopicCommitIs DEF Grown
  <2>9. chain[i - 1] \in Bad
    BY <2>6, <2>7
  <2> QED  BY <2>8, <2>9, SMTT(30)
<1>2. Bad = {}
  <2> SUFFICES ASSUME Bad # {} PROVE FALSE
    OBVIOUS
  <2>1. PICK m \in Bad : \A k \in Bad : m <= k
    BY DEF IInv, HasFirst
  <2>2. PICK k \in Bad : k < m
    BY <1>1, <2>1
  <2> QED  BY <1>0, <2>1, <2>2
<1> QED  BY <1>2, TopicCommitIs

\* So a rebase puts commits on main that keep the head's reports.
LEMMA RebaseChain ==
  ASSUME IInv, NEW h \in 1 .. Len(topic), LandRebased(h)
  PROVE  \E commits \in Seq(Reports) :
           /\ Len(commits) >= 1 /\ LandOn(commits)
           /\ \A i \in 1 .. Len(commits) : Keeps(line[Len(line)], commits[i])
           /\ \A i \in 1 .. Len(commits) :
                \E k \in 1 .. Len(topic) :
                  Topic(k) \in topic[h].history /\ commits[i] = topic[k].reports
<1> DEFINE own == {j \in 1 .. Len(topic) : Topic(j) \in Introduced(Tip, Topic(h))}
           n == Cardinality(own)
<1>1. n \in Nat
  <2>1. Len(topic) \in Nat
    BY DEF IInv, TypeOK
  <2>2. IsFiniteSet(1 .. Len(topic))
    BY <2>1, FS_Interval
  <2> QED  BY <2>2, FS_Subset, FS_CardinalityType
<1>2. PICK chain \in [1 .. n -> own] :
        Chain(h, chain) /\ LandOn([i \in 1 .. n |-> topic[chain[i]].reports])
  BY DEF LandRebased
<1> DEFINE commits == [i \in 1 .. n |-> topic[chain[i]].reports]
<1>3. Len(chain) = n /\ chain \in [1 .. n -> 1 .. Len(topic)]
  BY <1>1, LenProperties
<1>4. n >= 1
  <2>1. Topic(h) \in Introduced(Tip, Topic(h))
    BY TopicCommitIs, MainCommit DEF Introduced, Tip, IInv, AllGrown, Grown
  <2>2. 1 .. n # {}
    BY <1>2, <1>3, <2>1 DEF Chain
  <2> QED  BY <1>1, <2>2
<1>5. commits \in Seq(Reports) /\ Len(commits) = n
  <2>1. \A j \in 1 .. Len(topic) : topic[j].reports \in Reports
    BY TopicReports DEF IInv
  <2>2. commits \in [1 .. n -> Reports]
    BY <1>3, <2>1
  <2> HIDE DEF commits, n
  <2> QED  BY <1>1, <2>2, LenProperties, SeqDef
<1>6. \A i \in 1 .. n : Keeps(line[Len(line)], commits[i])
  <2> TAKE i \in 1 .. n
  <2>1. Tip \in HistoryOf(Topic(chain[i]))
    BY <1>1, <1>2, <1>3, ChainDescends
  <2>2. Topic(chain[i]) \in HistoryOf(Topic(h))
    BY DEF Introduced
  <2> QED  BY <2>1, <2>2, LandableKeeps, TopicCommitIs DEF LandRebased
<1>7. LandOn(commits) /\ Len(commits) >= 1
  BY <1>2, <1>4, <1>5
<1>8. \A i \in 1 .. n : /\ chain[i] \in 1 .. Len(topic)
                        /\ Topic(chain[i]) \in topic[h].history
                        /\ commits[i] = topic[chain[i]].reports
  BY TopicCommitIs DEF Introduced
<1>9. \A i \in 1 .. n : \E k \in 1 .. Len(topic) :
        Topic(k) \in topic[h].history /\ commits[i] = topic[k].reports
  BY <1>8
<1> HIDE DEF commits, n
<1> QED  BY <1>5, <1>6, <1>7, <1>9

LEMMA RebaseStep ==
  ASSUME IInv, NEW h \in 1 .. Len(topic), LandRebased(h)
  PROVE  IInv'
BY RebaseChain, LandStep

---------------------------------------------------------------------------
(* The theorems.                                                           *)

THEOREM StepIInv == IInv /\ [Next]_vars => IInv'
<1> SUFFICES ASSUME IInv, [Next]_vars PROVE IInv'
  OBVIOUS
<1>1. ASSUME NEW c \in Commits, Author(c) PROVE IInv'
  <2>1. PICK p \in Paths, e \in Entries \cup {Absent} :
          MakeCommit({c}, [ReportsOf(c) EXCEPT ![p] = e])
    BY <1>1 DEF Author
  <2>2. ReportsOf(c) \in Reports
    <3>1. CASE \E i \in 1 .. Len(line) : c = Main(i)
      BY <3>1, MainCommit DEF IInv, TypeOK
    <3>2. CASE \E j \in 1 .. Len(topic) : c = Topic(j)
      BY <3>2, TopicReports, TopicCommitIs DEF IInv
    <3> QED  BY <3>1, <3>2 DEF Commits
  <2>3. [ReportsOf(c) EXCEPT ![p] = e] \in Reports
    BY <2>2 DEF Reports
  <2>4. {c} \in SUBSET Commits
    OBVIOUS
  <2> QED  BY <2>1, <2>3, <2>4, CommitStep
<1>2. ASSUME NEW c \in Commits, NEW d \in Commits, MergeTopics(c, d) PROVE IInv'
  <2>1. PICK reports \in Reports : MakeCommit({c, d}, reports)
    BY <1>2 DEF MergeTopics
  <2>2. {c, d} \in SUBSET Commits
    OBVIOUS
  <2> QED  BY <2>1, <2>2, CommitStep
<1>3. ASSUME NEW h \in 1 .. Len(topic), CheckPull(h) \/ LandSquashed(h) \/ LandRebased(h)
      PROVE  IInv'
  BY <1>3, CheckStep, SquashStep, RebaseStep
<1>4. CASE LandMetadata
  BY <1>4, MetadataStep
<1>5. CASE UNCHANGED vars
  <2>1. /\ line' = line /\ topic' = topic /\ checked' = checked /\ heads' = heads
    BY <1>5 DEF vars
  <2>2. TypeOK'
    BY <2>1 DEF IInv, TypeOK, Commits
  <2>3. \A c : HistoryOf(c)' = HistoryOf(c) /\ ReportsOf(c)' = ReportsOf(c)
    BY <2>1 DEF HistoryOf, ReportsOf
  <2>4. AllGrown' /\ HasFirst' /\ ChecksAreOfHead'
    BY <2>1, <2>3 DEF IInv, AllGrown, Grown, HasFirst, ChecksAreOfHead
  <2>5. CheckedHistoryKeeps' /\ HeadsAreKept'
    BY <2>1, <2>3 DEF IInv, CheckedHistoryKeeps, HeadsAreKept
  <2> QED  BY <2>2, <2>4, <2>5 DEF IInv
<1> QED  BY <1>1, <1>2, <1>3, <1>4, <1>5 DEF Next

THEOREM Invariance == Spec => []IInv
BY InitIInv, StepIInv, PTL DEF Spec

\* The variables keep their types: the checks name commits there are, and
\* main points to its newest.
THEOREM HistoryTypeCorrect == Spec => []TypeOK
<1>1. IInv => TypeOK
  BY DEF IInv
<1> QED  BY <1>1, Invariance, PTL

\* What the audit has looked at edge by edge holds on every path.
THEOREM CheckedKeeps == Spec => []CheckedHistoryKeeps
<1>1. IInv => CheckedHistoryKeeps
  BY DEF IInv
<1> QED  BY <1>1, Invariance, PTL

\* Main never loses or changes a report that it has shown.
THEOREM HeadsStay == Spec => []HeadsAreKept
<1>1. IInv => HeadsAreKept
  BY DEF IInv
<1> QED  BY <1>1, Invariance, PTL

---------------------------------------------------------------------------
(* Branches that only add are accepted.                                    *)

\* What parseTree asks of the reports of one tree.
RegularTree(reports) == \A p \in Paths : reports[p] \in Regular \cup {Absent}

\* No commit of a topic is a root; and the trees of main, as those of the
\* branches that were checked, are ones that the audit can read.
ParsedInv ==
  /\ \A j \in 1 .. Len(topic) : topic[j].parents # {}
  /\ \A i \in 1 .. Len(line) : RegularTree(line[i])
  /\ \A check \in checked : \A k \in 1 .. Len(topic) :
       Topic(k) \in topic[check.target].history => RegularTree(topic[k].reports)

LEMMA CommitParsed ==
  ASSUME IInv, ParsedInv, NEW parents, parents # {}, NEW reports, MakeCommit(parents, reports)
  PROVE  ParsedInv'
<1>1. /\ Len(topic') = Len(topic) + 1 /\ Len(topic) \in Nat
      /\ \A j \in 1 .. Len(topic) : topic'[j] = topic[j]
      /\ topic'[Len(topic) + 1].parents = parents
      /\ line' = line /\ checked' = checked
  BY CommitKeepsEarlier DEF MakeCommit, IInv, TypeOK
<1>2. \A j \in 1 .. Len(topic') : topic'[j].parents # {}
  BY <1>1 DEF ParsedInv
<1>3. ASSUME NEW check \in checked, NEW k \in 1 .. Len(topic'),
             Topic(k) \in topic'[check.target].history
      PROVE  RegularTree(topic'[k].reports)
  <2>1. check.target \in 1 .. Len(topic)
    BY DEF IInv, TypeOK
  <2>2. Topic(k) \in topic[check.target].history
    BY <1>1, <1>3, <2>1
  <2>3. Topic(k) \in Commits
    BY <2>1, <2>2 DEF IInv, TypeOK
  <2>4. k \in 1 .. Len(topic)
    BY <2>3, MainCommit, TopicCommitIs DEF Commits
  <2> QED  BY <1>1, <2>2, <2>4 DEF ParsedInv
<1> QED  BY <1>1, <1>2, <1>3 DEF ParsedInv

LEMMA CheckParsed ==
  ASSUME IInv, ParsedInv, NEW h \in 1 .. Len(topic), CheckPull(h)
  PROVE  ParsedInv'
<1>1. /\ line' = line /\ topic' = topic
      /\ checked' = checked \cup {[base |-> Len(line), target |-> h]}
      /\ AppendOnly(Tip, MergeRef(h))
  BY DEF CheckPull
<1>2. ASSUME NEW k \in 1 .. Len(topic), Topic(k) \in topic[h].history
      PROVE  RegularTree(topic[k].reports)
  <2>1. PICK p : p \in topic[k].parents
    BY DEF ParsedInv
  <2>2. Topic(k) \in Introduced(Tip, Topic(h))
    BY <1>2, MainCommit, TopicCommitIs DEF Introduced, Tip
  <2>3. <<Topic(k), p>> \in Edges(Tip, Topic(h))
    BY <2>1, <2>2, TopicCommitIs DEF Edges
  <2>4. ParseTree(Topic(k))
    BY <1>1, <2>3, MergeIntroduces DEF AppendOnly, PreservesBase
  <2> QED  BY <2>4, TopicCommitIs DEF ParseTree, RegularTree
<1> QED  BY <1>1, <1>2 DEF ParsedInv

LEMMA LandParsed ==
  ASSUME IInv, ParsedInv, NEW commits \in Seq(Reports), LandOn(commits),
         \A i \in 1 .. Len(commits) : RegularTree(commits[i])
  PROVE  ParsedInv'
<1>1. line \in Seq(Reports) /\ line' = line \o commits /\ topic' = topic /\ checked' = checked
  BY DEF LandOn, IInv, TypeOK
<1>2. \A i \in 1 .. Len(line') : RegularTree(line'[i])
  <2> TAKE i \in 1 .. Len(line')
  <2>1. CASE i \in 1 .. Len(line)
    BY <1>1, <2>1 DEF ParsedInv
  <2>2. CASE i \notin 1 .. Len(line)
    <3>1. i - Len(line) \in 1 .. Len(commits) /\ line'[i] = commits[i - Len(line)]
      BY <1>1, <2>2
    <3> QED  BY <3>1
  <2> QED  BY <2>1, <2>2
<1> QED  BY <1>1, <1>2 DEF ParsedInv

LEMMA NextParsed == ASSUME IInv, ParsedInv, [Next]_vars PROVE ParsedInv'
<1>1. ASSUME NEW c \in Commits, Author(c) \/ (\E d \in Commits : MergeTopics(c, d))
      PROVE  ParsedInv'
  <2>1. PICK d, reports : MakeCommit({c}, reports) \/ MakeCommit({c, d}, reports)
    BY <1>1 DEF Author, MergeTopics
  <2>2. {c} # {} /\ {c, d} # {}
    OBVIOUS
  <2> QED  BY <2>1, <2>2, CommitParsed
<1>2. ASSUME NEW h \in 1 .. Len(topic), LandSquashed(h) PROVE ParsedInv'
  <2>1. PICK check \in checked : check.target = h
    BY <1>2 DEF LandSquashed, Landable
  <2>2. Topic(h) \in topic[h].history
    BY DEF IInv, AllGrown, Grown
  <2>3. RegularTree(topic[h].reports) /\ topic[h].reports \in Reports
    BY <2>1, <2>2, TopicReports DEF ParsedInv, IInv
  <2> DEFINE commits == <<topic[h].reports>>
  <2>4. commits \in Seq(Reports) /\ \A i \in 1 .. Len(commits) : RegularTree(commits[i])
    BY <2>3
  <2>5. LandOn(commits)
    BY <1>2 DEF LandSquashed
  <2> HIDE DEF commits
  <2> QED  BY <2>4, <2>5, LandParsed
<1>3. ASSUME NEW h \in 1 .. Len(topic), LandRebased(h) PROVE ParsedInv'
  <2>1. PICK check \in checked : check.target = h
    BY <1>3 DEF LandRebased, Landable
  <2>2. PICK commits \in Seq(Reports) :
          /\ LandOn(commits)
          /\ \A i \in 1 .. Len(commits) : \E k \in 1 .. Len(topic) :
               Topic(k) \in topic[h].history /\ commits[i] = topic[k].reports
    BY <1>3, RebaseChain
  <2>3. \A i \in 1 .. Len(commits) : RegularTree(commits[i])
    BY <2>1, <2>2 DEF ParsedInv
  <2> QED  BY <2>2, <2>3, LandParsed
<1>4. CASE LandMetadata
  <2>1. line[Len(line)] \in Reports /\ RegularTree(line[Len(line)])
    BY DEF IInv, TypeOK, ParsedInv
  <2> DEFINE commits == <<line[Len(line)]>>
  <2>2. commits \in Seq(Reports) /\ \A i \in 1 .. Len(commits) : RegularTree(commits[i])
    BY <2>1
  <2>3. LandOn(commits)
    BY <1>4 DEF LandMetadata
  <2> HIDE DEF commits
  <2> QED  BY <2>2, <2>3, LandParsed
<1>5. CASE UNCHANGED vars
  BY <1>5 DEF vars, ParsedInv
<1> QED  BY <1>1, <1>2, <1>3, <1>4, <1>5, CheckParsed DEF Next

LEMMA ParsedHolds == Spec => []ParsedInv
<1>1. Init => ParsedInv
  <2> SUFFICES ASSUME Init PROVE ParsedInv
    OBVIOUS
  <2>1. Len(topic) = 0 /\ Len(line) = 1 /\ line[1] = NoReports /\ checked = {}
    BY DEF Init
  <2>2. RegularTree(NoReports)
    BY DEF RegularTree, NoReports
  <2> QED  BY <2>1, <2>2 DEF ParsedInv
<1>2. IInv /\ ParsedInv /\ [Next]_vars => ParsedInv'
  BY NextParsed
<1> QED  BY <1>1, <1>2, Invariance, PTL DEF Spec

\* A branch that only adds keeps the head's reports all along its history:
\* take the first of its commits that descends from the head and does not.
LEMMA AdditiveKeeps ==
  ASSUME IInv, NEW h \in 1 .. Len(topic), Additive(h), Tip \in HistoryOf(Topic(h))
  PROVE  Keeps(line[Len(line)], topic[h].reports)
<1> DEFINE L == Len(line)
           Bad == {j \in 1 .. Len(topic) :
                     /\ Topic(j) \in topic[h].history
                     /\ Main(L) \in topic[j].history
                     /\ ~ Keeps(line[L], topic[j].reports)}
<1>0. L \in Nat \ {0} /\ Len(topic) \in Nat
  BY DEF IInv, TypeOK
<1>1. \A j \in Bad : \E k \in Bad : k < j
  <2> SUFFICES ASSUME NEW j \in Bad PROVE \E k \in Bad : k < j
    OBVIOUS
  <2>1. Grown(j) /\ Grown(h)
    BY DEF IInv, AllGrown
  <2>2. PICK p \in topic[j].parents : Main(L) \in HistoryOf(p)
    BY <2>1, MainCommit DEF Grown
  <2>3. Topic(j) \in Introduced(Tip, Topic(h))
    BY MainCommit, TopicCommitIs DEF Introduced, Tip
  <2>4. Keeps(ReportsOf(p), topic[j].reports)
    BY <2>2, <2>3, TopicCommitIs DEF Additive
  <2>5. ~ Keeps(line[L], ReportsOf(p))
    BY <2>4, KeepsTransitive
  <2>6. CASE \E i \in 1 .. L : p = Main(i)
    <3>1. PICK i \in 1 .. L : p = Main(i)
      BY <2>6
    <3>2. i = L
      BY <1>0, <2>2, <3>1, MainCommit
    <3> QED  BY <2>5, <3>1, <3>2, MainCommit, KeepsReflexive
  <2>7. CASE \E k \in 1 .. j - 1 : p = Topic(k)
    <3>1. PICK k \in 1 .. j - 1 : p = Topic(k)
      BY <2>7
    <3>2. k \in 1 .. Len(topic) /\ k < j
      BY <1>0, <3>1
    <3>3. Topic(k) \in topic[k].history
      BY <3>2 DEF IInv, AllGrown, Grown
    <3>4. Topic(k) \in topic[j].history
      BY <2>1, <3>1, <3>3, TopicCommitIs DEF Grown
    <3>5. Topic(k) \in topic[h].history
      BY <2>1, <3>4, TopicCommitIs DEF Grown
    <3> QED  BY <2>2, <2>5, <3>1, <3>2, <3>5, TopicCommitIs
  <2> QED  BY <2>1, <2>6, <2>7 DEF Grown
<1>2. Bad = {}
  <2> SUFFICES ASSUME Bad # {} PROVE FALSE
    OBVIOUS
  <2>1. PICK m \in Bad : \A k \in Bad : m <= k
    BY DEF IInv, HasFirst
  <2>2. PICK k \in Bad : k < m
    BY <1>1, <2>1
  <2> QED  BY <1>0, <2>1, <2>2
<1>3. Topic(h) \in topic[h].history
  BY DEF IInv, AllGrown, Grown
<1> QED  BY <1>2, <1>3, TopicCommitIs DEF Tip

\* A history is finite: it is among the commits there are.
LEMMA FiniteHistory ==
  ASSUME IInv, NEW h \in 1 .. Len(topic)
  PROVE  IsFiniteSet(Introduced(Tip, Topic(h)))
<1> DEFINE mains == {Main(i) : i \in 1 .. Len(line)}
           topics == {Topic(j) : j \in 1 .. Len(topic)}
<1>0. Len(line) \in Nat /\ Len(topic) \in Nat
  BY DEF IInv, TypeOK
<1>1. IsFiniteSet(1 .. Len(line)) /\ IsFiniteSet(1 .. Len(topic))
  BY <1>0, FS_Interval
<1>2. IsFiniteSet(mains)
  <2> DEFINE f == [i \in 1 .. Len(line) |-> Main(i)]
  <2>1. f \in Surjection(1 .. Len(line), mains)
    BY DEF Surjection
  <2> HIDE DEF f, mains
  <2> QED  BY <1>1, <2>1, FS_Surjection
<1>3. IsFiniteSet(topics)
  <2> DEFINE f == [j \in 1 .. Len(topic) |-> Topic(j)]
  <2>1. f \in Surjection(1 .. Len(topic), topics)
    BY DEF Surjection
  <2> HIDE DEF f, topics
  <2> QED  BY <1>1, <2>1, FS_Surjection
<1>4. IsFiniteSet(mains \cup topics)
  <2> HIDE DEF mains, topics
  <2> QED  BY <1>2, <1>3, FS_Union
<1>5. Introduced(Tip, Topic(h)) \subseteq mains \cup topics
  BY TopicCommitIs DEF Introduced, IInv, TypeOK, Commits
<1> QED
  <2> HIDE DEF mains, topics
  <2> QED  BY <1>4, <1>5, FS_Subset

LEMMA AdditivePasses ==
  ASSUME IInv, ParsedInv, NEW h \in 1 .. Len(topic), UpToDate(h), Additive(h),
         Cardinality(Introduced(Tip, Topic(h))) < MaxIntroduced
  PROVE  AppendOnly(Tip, MergeRef(h))
<1>1. Len(line) \in 1 .. Len(line)
  BY DEF IInv, TypeOK
<1>2. ParseTree(Tip)
  BY <1>1, MainCommit DEF ParsedInv, ParseTree, RegularTree, Tip
<1>3. ParseTree(Topic(h))
  BY MainCommit, TopicCommitIs DEF Additive, Introduced, Tip, IInv, AllGrown, Grown
<1>4. KeepsTrusted(ReportsOf(Tip), ReportsOf(Tip), ReportsOf(Topic(h)))
  BY AdditiveKeeps, MainCommit, TopicCommitIs DEF KeepsTrusted, Keeps, Tip, UpToDate
<1>5. ASSUME NEW c \in Introduced(Tip, Topic(h)), NEW p \in ParentsOf(c)
      PROVE  /\ ParseTree(c) /\ ParseTree(p)
             /\ KeepsTrusted(ReportsOf(Tip), ReportsOf(p), ReportsOf(c))
  <2>1. ParseTree(c) /\ Keeps(ReportsOf(p), ReportsOf(c))
    BY <1>5 DEF Additive
  <2>2. KeepsTrusted(ReportsOf(Tip), ReportsOf(p), ReportsOf(c))
    BY <2>1 DEF KeepsTrusted, Keeps
  <2>3. PICK j \in 1 .. Len(topic) : c = Topic(j)
    <3>1. c \in Commits
      BY TopicCommitIs DEF Introduced, IInv, TypeOK
    <3>2. ASSUME NEW i \in 1 .. Len(line), c = Main(i) PROVE FALSE
      BY <3>2, MainCommit DEF Introduced, Tip
    <3> QED  BY <3>1, <3>2 DEF Commits
  <2>4. p \in topic[j].parents /\ Grown(j) /\ Grown(h) /\ Topic(j) \in topic[h].history
    BY <2>3, TopicCommitIs DEF IInv, AllGrown, Introduced
  <2>5. CASE \E i \in 1 .. Len(line) : p = Main(i)
    BY <2>1, <2>2, <2>5, MainCommit DEF ParsedInv, ParseTree, RegularTree
  <2>6. CASE \E k \in 1 .. j - 1 : p = Topic(k)
    <3>1. PICK k \in 1 .. j - 1 : p = Topic(k)
      BY <2>6
    <3>2. k \in 1 .. Len(topic)
      BY <3>1 DEF IInv, TypeOK
    <3>3. Topic(k) \in topic[k].history
      BY <3>2 DEF IInv, AllGrown, Grown
    <3>4. Topic(k) \in topic[j].history
      BY <2>4, <3>1, <3>3, TopicCommitIs DEF Grown
    <3>5. Topic(k) \in topic[h].history
      BY <2>4, <3>4, TopicCommitIs DEF Grown
    <3>6. p \in Introduced(Tip, Topic(h))
      BY <3>1, <3>5, MainCommit, TopicCommitIs DEF Introduced, Tip
    <3> QED  BY <2>1, <2>2, <3>6 DEF Additive
  <2> QED  BY <2>4, <2>5, <2>6 DEF Grown
<1>6. ASSUME NEW p \in ParentsOf(MergeRef(h))
      PROVE  /\ ParseTree(MergeRef(h)) /\ ParseTree(p)
             /\ KeepsTrusted(ReportsOf(Tip), ReportsOf(p), ReportsOf(MergeRef(h)))
  <2>1. ReportsOf(MergeRef(h)) = ReportsOf(Topic(h)) /\ p \in {Tip, Topic(h)}
    BY <1>6, MergeCommit, TopicCommitIs
  <2>2. KeepsTrusted(ReportsOf(Tip), ReportsOf(Topic(h)), ReportsOf(Topic(h)))
    BY DEF KeepsTrusted
  <2> QED  BY <1>2, <1>3, <1>4, <2>1, <2>2 DEF ParseTree
<1>7. PreservesBase(Tip, MergeRef(h))
  BY <1>5, <1>6, MergeIntroduces DEF PreservesBase, Edges
<1>8. Cardinality(Introduced(Tip, MergeRef(h))) <= MaxIntroduced
  <2> DEFINE own == Introduced(Tip, Topic(h))
  <2>1. IsFiniteSet(own)
    BY FiniteHistory
  <2>2. MergeRef(h) \notin own
    BY MergeCommit, TopicCommitIs DEF Introduced, IInv, TypeOK, Commits
  <2>3. Cardinality(own \cup {MergeRef(h)}) = Cardinality(own) + 1 /\ Cardinality(own) \in Nat
    BY <2>1, <2>2, FS_AddElement, FS_CardinalityType
  <2>4. Introduced(Tip, MergeRef(h)) = own \cup {MergeRef(h)}
    BY MergeIntroduces
  <2> HIDE DEF own
  <2>5. Cardinality(own) < MaxIntroduced
    BY DEF own
  <2> QED  BY <2>3, <2>4, <2>5, HistoryAssumption
<1>9. ParseTree(MergeRef(h)) /\ Tip \in HistoryOf(MergeRef(h))
  BY <1>3, MergeCommit, TopicCommitIs DEF ParseTree, UpToDate
<1>10. KeepsTrusted(ReportsOf(Tip), ReportsOf(Tip), ReportsOf(MergeRef(h)))
  BY <1>4, MergeCommit, TopicCommitIs
<1> QED  BY <1>2, <1>7, <1>8, <1>9, <1>10 DEF AppendOnly

\* The audit refuses no branch, however it was forked and merged, that only
\* ever adds reports and is not too long.
THEOREM AdditionsPass == Spec => []AdditiveForkAccepted
<1>1. IInv /\ ParsedInv => AdditiveForkAccepted
  BY AdditivePasses DEF AdditiveForkAccepted
<1> QED  BY <1>1, Invariance, ParsedHolds, PTL

---------------------------------------------------------------------------
(* The heads of main implement the ledger.                                 *)

LEMMA LandPublishes ==
  ASSUME IInv, IInv', NEW commits \in Seq(Reports), Len(commits) >= 1, LandOn(commits)
  PROVE  Ledger!Publish /\ rest' \in AdmittedRests(line'[Len(line')])
<1> DEFINE L == Len(line)
           n == Len(commits)
<1>0. L \in Nat /\ n \in Nat /\ L >= 1 /\ line \in Seq(Reports) /\ L \in heads
  BY DEF IInv, TypeOK
<1>1. /\ line' = line \o commits /\ Len(line') = L + n
      /\ line'[L] = line[L] /\ line'[L + n] = commits[n]
      /\ heads' = heads \cup {L + n}
  BY <1>0 DEF LandOn
<1>2. Keeps(line[L], commits[n])
  <2>1. L \in heads' /\ L + n \in L .. Len(line')
    BY <1>0, <1>1
  <2>2. Keeps(line'[L], line'[L + n])
    BY <2>1 DEF IInv, HeadsAreKept
  <2> QED  BY <1>1, <2>2
<1>3. commits[n] \in Reports
  BY <1>0
<1>4. Admitted(commits[n], rest')
  BY DEF LandOn, AdmittedRests
<1>5. Ledger!Publish
  BY <1>1, <1>2, <1>3, <1>4 DEF Ledger!Publish, Keeps, Reports
<1>6. rest' \in AdmittedRests(line'[Len(line')])
  BY <1>1 DEF LandOn
<1> QED  BY <1>5, <1>6

\* The head of main and the rest of its tree stay, or a pull request lands.
LEMMA NextPublishes ==
  ASSUME IInv, IInv', Next
  PROVE  \/ Ledger!Publish /\ rest' \in AdmittedRests(line'[Len(line')])
         \/ UNCHANGED <<line[Len(line)], rest>>
<1>1. ASSUME NEW parents, NEW reports, MakeCommit(parents, reports)
      PROVE  UNCHANGED <<line[Len(line)], rest>>
  BY <1>1 DEF MakeCommit
<1>2. ASSUME NEW h \in 1 .. Len(topic), CheckPull(h)
      PROVE  UNCHANGED <<line[Len(line)], rest>>
  BY <1>2 DEF CheckPull
<1>3. ASSUME NEW h \in 1 .. Len(topic), LandSquashed(h)
      PROVE  Ledger!Publish /\ rest' \in AdmittedRests(line'[Len(line')])
  <2>1. <<topic[h].reports>> \in Seq(Reports) /\ Len(<<topic[h].reports>>) >= 1
    BY TopicReports DEF IInv
  <2> QED  BY <1>3, <2>1, LandPublishes DEF LandSquashed
<1>4. ASSUME NEW h \in 1 .. Len(topic), LandRebased(h)
      PROVE  Ledger!Publish /\ rest' \in AdmittedRests(line'[Len(line')])
  <2>1. PICK commits \in Seq(Reports) : Len(commits) >= 1 /\ LandOn(commits)
    BY <1>4, RebaseChain
  <2> QED  BY <2>1, LandPublishes
<1>5. CASE LandMetadata
  <2>1. line[Len(line)] \in Reports
    BY DEF IInv, TypeOK
  <2>2. <<line[Len(line)]>> \in Seq(Reports) /\ Len(<<line[Len(line)]>>) >= 1
    BY <2>1
  <2>3. LandOn(<<line[Len(line)]>>)
    BY <1>5 DEF LandMetadata
  <2> QED  BY <2>2, <2>3, LandPublishes
<1> QED  BY <1>1, <1>2, <1>3, <1>4, <1>5 DEF Next, Author, MergeTopics

\* Reports are only added to the head of main, and what is there with them
\* has been admitted.
THEOREM LedgerImplemented == Spec => ImplementsLedger
<1>1. Init => Ledger!Init
  BY DEF Init, Ledger!Init, NoReports
<1>2. IInv /\ IInv' /\ [Next]_vars => [Ledger!Publish]_<<line[Len(line)], rest>>
  BY NextPublishes DEF vars
<1> QED  BY <1>1, <1>2, Invariance, PTL DEF Spec, ImplementsLedger, Ledger!Spec
=============================================================================
