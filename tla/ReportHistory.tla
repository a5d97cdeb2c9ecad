--------------------------- MODULE ReportHistory ---------------------------
(***************************************************************************)
(* How reports come into the public repository, and what the audit of its  *)
(* Git history promises (packages/catalog/src/append-only.js, run by       *)
(* scripts/validate-contribution.mjs in the workflow).                     *)
(*   - Authors make commits on topic branches: on any commit there is, and *)
(*     merges of any two.  A commit is told apart by the reports in it.    *)
(*   - The rest of a tree, the registry and the generated catalog, is read *)
(*     by the audit at the target only: it is what the last commit of a    *)
(*     pull request makes of it.  Which of the admitted ones that was is   *)
(*     chosen when the pull request lands, for nothing reads it before.    *)
(*   - The workflow checks a pull request against the head that main has   *)
(*     at the event.  The target it checks out and audits is the merge of  *)
(*     the two, a commit of its own (github.sha).  The host lands nothing  *)
(*     that does not contain the head of main: the checks of other         *)
(*     branches, which never catch up without a new commit, are left out,  *)
(*     and the merge of one that does has the branch's own tree.           *)
(*   - Main moves as the host is required to move it                       *)
(*     (scripts/verify-host-protection.mjs): by an up-to-date branch whose *)
(*     check has passed, squashed or rebased (linear history), without     *)
(*     force pushes.                                                       *)
(***************************************************************************)
EXTENDS Naturals, Sequences, FiniteSets

CONSTANTS
  Paths,          \* the report paths
  Entries,        \* mode, type and object of a tree entry
  Regular,        \* the entries that are non-executable regular files
  Absent,         \* no entry at a path
  Genesis,        \* the rest of the first tree, which has no reports
  Admitted(_, _), \* auditContributions of the reports and the rest of a tree
  RestAfter(_),  \* what a pull request may make of the rest
  MaxIntroduced,  \* MAX_INTRODUCED_COMMITS
  MaxLine,        \* bound: commits of main
  MaxTopic        \* bound: commits of topic branches

ASSUME HistoryAssumption ==
  /\ IsFiniteSet(Paths) /\ IsFiniteSet(Entries)
  /\ Regular \subseteq Entries /\ Absent \notin Entries
  /\ MaxIntroduced \in Nat \ {0} /\ MaxLine \in Nat \ {0} /\ MaxTopic \in Nat \ {0}

VARIABLES
  line,     \* the reports of each commit of main, the oldest first
  rest,     \* the rest of the tree at the head of main
  topic,    \* the commits of the topic branches, in the order they were made
  checked,  \* the pull requests whose check has passed: base and head
  heads     \* the positions of the line that main has pointed to

vars == <<line, rest, topic, checked, heads>>

Reports == [Paths -> Entries \cup {Absent}]
NoReports == [p \in Paths |-> Absent]

---------------------------------------------------------------------------
(* Git: a commit of main is <<"main", i>>, one of a topic <<"topic", j>>,  *)
(* and <<"merge", j>> what the host makes of the topic and of main's head. *)
Main(i) == <<"main", i>>
Topic(j) == <<"topic", j>>
MergeRef(j) == <<"merge", j>>
Tip == Main(Len(line))
Commits == {Main(i) : i \in 1 .. Len(line)} \cup {Topic(j) : j \in 1 .. Len(topic)}

ReportsOf(c) == IF c[1] = "main" THEN line[c[2]] ELSE topic[c[2]].reports
ParentsOf(c) ==
  CASE c[1] = "main" -> {Main(i) : i \in {k \in 1 .. Len(line) : k + 1 = c[2]}}
    [] c[1] = "topic" -> topic[c[2]].parents
    [] c[1] = "merge" -> {Tip, Topic(c[2])}
HistoryOf(c) ==
  CASE c[1] = "main" -> {Main(i) : i \in 1 .. c[2]}
    [] c[1] = "topic" -> topic[c[2]].history
    [] c[1] = "merge" -> {c} \cup {Main(i) : i \in 1 .. Len(line)} \cup topic[c[2]].history

---------------------------------------------------------------------------
(* The audit.                                                              *)

\* parseTree: every report of a tree that is read is a regular file.
ParseTree(c) == \A p \in Paths : ReportsOf(c)[p] \in Regular \cup {Absent}

\* rev-list --parents target ^base: the commits, and the edges to their
\* parents, those that are in the base's history included.
Introduced(base, target) == HistoryOf(target) \ HistoryOf(base)
Edges_FirstParent(base, target) ==
  {<<c, CHOOSE p \in ParentsOf(c) : TRUE>> : c \in Introduced(base, target)}
Edges_None(base, target) == {}
Edges(base, target) ==
  UNION {{<<c, p>> : p \in ParentsOf(c)} : c \in Introduced(base, target)}

\* What is trusted and is in the parent is in the child.
KeepsTrusted_Always(trusted, parent, child) ==
  \A p \in Paths : trusted[p] # Absent => child[p] = trusted[p]
KeepsTrusted(trusted, parent, child) ==
  \A p \in Paths :
    trusted[p] # Absent /\ parent[p] = trusted[p] => child[p] = trusted[p]

\* assertHistoryPreservesBaseReports
PreservesBase(base, target) ==
  \A edge \in Edges(base, target) :
    /\ ParseTree(edge[1]) /\ ParseTree(edge[2])
    /\ KeepsTrusted(ReportsOf(base), ReportsOf(edge[2]), ReportsOf(edge[1]))

\* assertAppendOnlyReports
AppendOnly(base, target) ==
  /\ base \in HistoryOf(target)
  /\ Cardinality(Introduced(base, target)) <= MaxIntroduced
  /\ ParseTree(base) /\ ParseTree(target)
  /\ KeepsTrusted(ReportsOf(base), ReportsOf(base), ReportsOf(target))
  /\ PreservesBase(base, target)

---------------------------------------------------------------------------
Init ==
  /\ line = <<NoReports>> /\ rest = Genesis
  /\ topic = <<>> /\ checked = {} /\ heads = {1}

MakeCommit(parents, reports) ==
  /\ topic' = Append(topic,
       [parents |-> parents, reports |-> reports,
        history |-> {Topic(Len(topic) + 1)} \cup UNION {HistoryOf(c) : c \in parents}])
  /\ UNCHANGED <<line, rest, checked, heads>>

\* A commit that adds, changes or removes one report.
Author(c) ==
  \E p \in Paths : \E e \in (Entries \cup {Absent}) \ {ReportsOf(c)[p]} :
    MakeCommit({c}, [ReportsOf(c) EXCEPT ![p] = e])

\* A merge, with each report as it is on one of the sides.
MergeTopics(c, d) ==
  /\ c \notin HistoryOf(d) /\ d \notin HistoryOf(c)
  /\ \E reports \in Reports :
       /\ \A p \in Paths : reports[p] \in {ReportsOf(c)[p], ReportsOf(d)[p]}
       /\ MakeCommit({c, d}, reports)

AdmittedRests(reports) == {r \in RestAfter(rest) : Admitted(reports, r)}

\* The workflow's job for a pull request passes.
UpToDate(h) == Tip \in HistoryOf(Topic(h))
CheckPull(h) ==
  /\ UpToDate(h) /\ [base |-> Len(line), target |-> h] \notin checked
  /\ AppendOnly(Tip, MergeRef(h))
  /\ AdmittedRests(topic[h].reports) # {}
  /\ checked' = checked \cup {[base |-> Len(line), target |-> h]}
  /\ UNCHANGED <<line, rest, topic, heads>>

\* What the protection of main asks of a branch.
Landable_AnyCheck(h) == \E check \in checked : check.target = h
Landable(h) ==
  /\ \E check \in checked : check.target = h
  /\ UpToDate(h)

LandOn(commits) ==
  /\ Len(line) + Len(commits) <= MaxLine
  /\ rest' \in AdmittedRests(commits[Len(commits)])
  /\ line' = line \o commits
  /\ heads' = heads \cup {Len(line) + Len(commits)}
  /\ UNCHANGED <<topic, checked>>

LandSquashed(h) == Landable(h) /\ LandOn(<<topic[h].reports>>)

\* A pull request, on the head of main, that changes no report.
LandMetadata == LandOn(<<line[Len(line)]>>) /\ rest' # rest

\* The commits that a branch adds to main, one after the other.
Chain(h, chain) ==
  /\ {Topic(chain[i]) : i \in 1 .. Len(chain)} = Introduced(Tip, Topic(h))
  /\ chain[Len(chain)] = h
  /\ \A i \in 1 .. Len(chain) :
       ParentsOf(Topic(chain[i])) = {IF i = 1 THEN Tip ELSE Topic(chain[i - 1])}

LandRebased(h) ==
  /\ Landable(h)
  /\ LET own == {j \in 1 .. Len(topic) : Topic(j) \in Introduced(Tip, Topic(h))}
         n == Cardinality(own)
     IN \E chain \in [1 .. n -> own] :
          /\ Chain(h, chain)
          /\ LandOn([i \in 1 .. n |-> topic[chain[i]].reports])

Next ==
  \/ /\ Len(topic) < MaxTopic
     /\ \/ \E c \in Commits : Author(c)
        \/ \E c, d \in Commits : MergeTopics(c, d)
  \/ \E h \in 1 .. Len(topic) : CheckPull(h) \/ LandSquashed(h) \/ LandRebased(h)
  \/ LandMetadata

Spec == Init /\ [][Next]_vars

---------------------------------------------------------------------------
AnyCommit == {"main", "topic"} \X Nat
TopicCommit == [parents : SUBSET AnyCommit, reports : Reports, history : SUBSET AnyCommit]

TypeOK ==
  /\ line \in Seq(Reports) /\ Len(line) >= 1
  /\ topic \in Seq(TopicCommit)
  /\ \A j \in 1 .. Len(topic) :
       topic[j].parents \subseteq Commits /\ topic[j].history \subseteq Commits
  /\ checked \subseteq [base : 1 .. Len(line), target : 1 .. Len(topic)]
  /\ heads \subseteq 1 .. Len(line) /\ Len(line) \in heads

\* Every report of the first is in the second, with the same object and mode.
Keeps(old, new) == \A p \in Paths : old[p] # Absent => new[p] = old[p]

\* A report that main has shown as its head is there, unchanged, in every
\* commit of main since then: not only at later heads, but also in what a
\* rebase has put between them.
HeadsAreKept ==
  \A b \in heads : \A k \in b .. Len(line) : Keeps(line[b], line[k])

\* What a passed check means, which the code looks at edge by edge: no commit
\* that descends from the base, on whatever path of merges, lacks one of the
\* base's reports; none was taken out and put back.
CheckedHistoryKeeps ==
  \A check \in checked : \A c \in HistoryOf(Topic(check.target)) :
    Main(check.base) \in HistoryOf(c) =>
      Keeps(line[check.base], ReportsOf(c))

\* The rule does not ask more than it says: a branch that only ever adds
\* reports, also one forked before the base had its newest and merged with
\* it since, passes the audit of history, unless it is so long that it and
\* the merge that is audited exceed the bound.
Additive(h) ==
  \A c \in Introduced(Tip, Topic(h)) :
    /\ ParseTree(c)
    /\ \A p \in ParentsOf(c) : Keeps(ReportsOf(p), ReportsOf(c))
AdditiveForkAccepted ==
  \A h \in 1 .. Len(topic) :
    /\ UpToDate(h)
    /\ Additive(h)
    /\ Cardinality(Introduced(Tip, Topic(h))) < MaxIntroduced
    => AppendOnly(Tip, MergeRef(h))

\* The heads of main are a registry to which reports are only added, and
\* whose every state the audit admits.
Ledger == INSTANCE ReportLedger WITH reports <- line[Len(line)]
ImplementsLedger == Ledger!Spec
=============================================================================
