---------------------------- MODULE RegistryProofs ----------------------------
(***************************************************************************)
(* Proofs about the registry at the head of main, for any reports, sources *)
(* and history: what the audit of a contribution asks of one tree holds of *)
(* every head, whoever wrote the sources, and it is enough for what the    *)
(* catalog says in public.                                                 *)
(***************************************************************************)
EXTENDS Registry, ReportHistoryProofs

---------------------------------------------------------------------------
(* Sources.                                                                *)

LEMMA OfferedAreSources ==
  ASSUME NEW sources \in OfferedRegistries
  PROVE  sources \subseteq Source /\ OncePerPath(sources)
BY RegistryAssumption DEF OfferedRegistries

\* There are no more sources than paths.
LEMMA FiniteSources ==
  ASSUME NEW sources \in SUBSET Source, OncePerPath(sources)
  PROVE  IsFiniteSet(sources)
<1> DEFINE f == [s \in sources |-> s.path]
<1>1. \A s \in sources : s.path \in Paths
  BY DEF Source
<1>2. f \in Injection(sources, Paths)
  <2>1. f \in [sources -> Paths]
    BY <1>1
  <2>2. \A s, t \in sources : f[s] = f[t] => s = t
    BY DEF OncePerPath
  <2> QED  BY <2>1, <2>2 DEF Injection, IsInjective
<1>3. IsFiniteSet(Paths)
  BY HistoryAssumption
<1> HIDE DEF f
<1> QED  BY <1>2, <1>3, FS_Injection

LEMMA TwoMembers ==
  ASSUME NEW S, IsFiniteSet(S), Cardinality(S) >= 2
  PROVE  \E a, b \in S : a # b
<1> SUFFICES ASSUME \A a, b \in S : a = b PROVE FALSE
  OBVIOUS
<1>1. CASE S = {}
  BY <1>1, FS_EmptySet
<1>2. CASE S # {}
  <2>1. PICK a : S = {a}
    BY <1>2
  <2> QED  BY <2>1, FS_Singleton
<1> QED  BY <1>1, <1>2

\* Where two origins are counted, there are two.
LEMMA TwoOrigins ==
  ASSUME NEW S, IsFiniteSet(S), Cardinality({s.sourceKey : s \in S}) >= 2
  PROVE  \E s, t \in S : s.sourceKey # t.sourceKey
<1> DEFINE keys == {s.sourceKey : s \in S}
           f == [s \in S |-> s.sourceKey]
<1>1. f \in Surjection(S, keys)
  BY DEF Surjection
<1> HIDE DEF f
<1>2. IsFiniteSet(keys)
  BY <1>1, FS_Surjection
<1>3. PICK a \in keys, b \in keys : a # b
  <2> HIDE DEF keys
  <2> QED  BY <1>2, TwoMembers DEF keys
<1> QED  BY <1>3

---------------------------------------------------------------------------
(* The inductive invariant: the tree at the head of main passes the audit. *)

MainReports == line[Len(line)]
HeadAudited == rest \in Rests /\ ContributionAudit(MainReports, rest.sources, rest.generated)

LEMMA EmptyIsAudited ==
  /\ EmptyRegistry \in Rests
  /\ ContributionAudit(NoReports, EmptyRegistry.sources, EmptyRegistry.generated)
<1>1. {} \in OfferedRegistries
  BY DEF OfferedRegistries, OncePerPath
<1>2. EmptyRegistry \in Rests
  BY <1>1 DEF EmptyRegistry, Rests
<1>3. Mapped(NoReports, {}) /\ Buildable(NoReports, {})
  BY DEF Mapped, NoReports, Buildable, OncePerPath, ValidLifecycle
<1> QED  BY <1>2, <1>3 DEF EmptyRegistry, ContributionAudit

\* What is written in the place of a source of its path names none twice.
LEMMA WrittenStays ==
  ASSUME NEW sources \in OfferedRegistries, NEW s \in Offered
  PROVE  Written(sources, s) \in OfferedRegistries
BY DEF Written, OfferedRegistries, OncePerPath

\* A pull request makes another registry of it.
LEMMA RegistriesStay ==
  ASSUME NEW r \in Rests, NEW s \in RegistryAfter(r)
  PROVE  s \in Rests
<1>1. PICK sources \in Rewritten(r.sources) :
        \E generated \in {BuildCatalog(sources), r.generated} :
          s = [sources |-> sources, generated |-> generated]
  BY DEF RegistryAfter
<1>2. r.sources \in OfferedRegistries
      /\ r.generated \in {BuildCatalog(old) : old \in OfferedRegistries}
  BY DEF Rests
<1>3. sources \in OfferedRegistries
  <2>1. \A p : {t \in r.sources : t.path # p} \in OfferedRegistries
    BY <1>2 DEF OfferedRegistries, OncePerPath
  <2>2. \A t \in Offered : Written(r.sources, t) \in OfferedRegistries
    BY <1>2, WrittenStays
  <2>3. \A t, o \in Offered : Written(Written(r.sources, t), o) \in OfferedRegistries
    BY <2>2, WrittenStays
  <2>4. \A t, o : o \in SupersededBy(r.sources, t) => o \in Offered
    BY DEF SupersededBy
  <2>5. \/ \E p \in Paths : sources = {t \in r.sources : t.path # p}
        \/ \E t \in Offered : sources = Written(r.sources, t)
        \/ \E t \in Offered : \E o \in SupersededBy(r.sources, t) :
             sources = Written(Written(r.sources, t), o)
    BY <1>1 DEF Rewritten
  <2> QED  BY <2>1, <2>2, <2>3, <2>4, <2>5
<1> QED  BY <1>1, <1>2, <1>3 DEF Rests

LEMMA HeadStaysAudited ==
  ASSUME IInv, IInv', HeadAudited, [Next]_vars
  PROVE  HeadAudited'
<1>1. CASE UNCHANGED <<line[Len(line)], rest>>
  BY <1>1 DEF HeadAudited, MainReports
<1>2. CASE rest' \in AdmittedRests(line'[Len(line')])
  <2>1. PICK head \in Reports : head = line'[Len(line')]
    BY DEF IInv, TypeOK
  <2>2. rest' \in RestAfter(rest) /\ Admitted(head, rest')
    BY <1>2, <2>1 DEF AdmittedRests
  <2>3. rest \in Rests
    BY DEF HeadAudited
  <2>4. rest' \in Rests
    BY <2>2, <2>3, RestAssumption, RegistriesStay
  <2>5. ContributionAudit(head, rest'.sources, rest'.generated)
    BY <2>2, <2>4, RestAssumption DEF RegistryAdmitted
  <2> QED  BY <2>1, <2>4, <2>5 DEF HeadAudited, MainReports
<1>3. CASE UNCHANGED vars
  BY <1>3 DEF vars, HeadAudited, MainReports
<1> QED  BY <1>1, <1>2, <1>3, NextPublishes

LEMMA HeadAuditedHolds == Spec => []HeadAudited
<1>1. Init => HeadAudited
  <2> SUFFICES ASSUME Init PROVE HeadAudited
    OBVIOUS
  <2>1. MainReports = NoReports /\ rest = EmptyRegistry
    BY RestAssumption DEF Init, MainReports
  <2> QED  BY <2>1, EmptyIsAudited DEF HeadAudited
<1>2. IInv /\ IInv' /\ HeadAudited /\ [Next]_vars => HeadAudited'
  BY HeadStaysAudited
<1> QED  BY <1>1, <1>2, Invariance, PTL DEF Spec

---------------------------------------------------------------------------
(* What the audit means for the catalog.                                   *)

\* The sources at the head, as the audit has read them.
LEMMA AuditedSources ==
  ASSUME HeadAudited
  PROVE  /\ rest.sources \subseteq Source /\ IsFiniteSet(rest.sources)
         /\ OncePerPath(rest.sources)
         /\ \A s \in rest.sources : ValidSource(s) /\ MainReports[s.path] \in Publishable
         /\ ValidLifecycle(rest.sources)
         /\ \A p \in Paths : MainReports[p] # Absent <=> \E s \in rest.sources : s.path = p
         /\ rest.generated = BuildCatalog(rest.sources)
<1>1. rest.sources \in OfferedRegistries
  BY DEF HeadAudited, Rests
<1>2. rest.sources \subseteq Source /\ OncePerPath(rest.sources)
  BY <1>1, OfferedAreSources
<1>3. IsFiniteSet(rest.sources)
  BY <1>2, FiniteSources
<1>4. Mapped(MainReports, rest.sources) /\ Buildable(MainReports, rest.sources)
      /\ rest.generated = BuildCatalog(rest.sources)
  BY DEF HeadAudited, ContributionAudit
<1>5. \A p \in Paths : MainReports[p] # Absent <=> \E s \in rest.sources : s.path = p
  BY <1>4 DEF Mapped
<1> QED  BY <1>2, <1>3, <1>4, <1>5 DEF Buildable, Readable

\* The sources of one configuration.
Group(c) == {s \in Active(rest.sources) : Configuration[s.path] = c}
Configurations == {Configuration[s.path] : s \in Active(rest.sources)}

LEMMA CatalogIs ==
  ASSUME HeadAudited
  PROVE  /\ rest.generated.reports = {Entry(s) : s \in Active(rest.sources)}
         /\ rest.generated.claims = {Claim(Group(c)) : c \in Configurations}
<1>1. rest.generated = BuildCatalog(rest.sources)
  BY AuditedSources
<1>2. /\ rest.generated.reports = {Entry(s) : s \in Active(rest.sources)}
      /\ rest.generated.claims = Claims(Active(rest.sources))
  BY <1>1 DEF BuildCatalog
<1>3. Claims(Active(rest.sources)) = {Claim(Group(c)) : c \in Configurations}
  BY Zenon DEF Claims, Group, Configurations
<1> QED  BY <1>2, <1>3, Zenon

LEMMA EntryIs ==
  ASSUME NEW s
  PROVE  /\ Entry(s).reportId = s.path
         /\ Entry(s).sourceKey = s.sourceKey
         /\ Entry(s).sourceIndependence = s.independence
BY DEF Entry

LEMMA ShownIs ==
  ASSUME HeadAudited
  PROVE  /\ Shown = {s.path : s \in Active(rest.sources)}
         /\ Counted = Shown
<1>1. Shown = {s.path : s \in Active(rest.sources)}
  <2>1. ASSUME NEW id PROVE id \in Shown <=> \E s \in Active(rest.sources) : id = s.path
    <3>1. id \in Shown <=> \E s \in Active(rest.sources) : id = Entry(s).reportId
      BY CatalogIs DEF Shown
    <3> QED  BY <3>1, EntryIs
  <2> QED  BY <2>1
<1>2. ASSUME NEW p PROVE p \in Counted <=> \E s \in Active(rest.sources) : s.path = p
  <2>1. p \in Counted <=> \E c \in Configurations : p \in Claim(Group(c)).reportIds
    BY CatalogIs DEF Counted
  <2>2. \A c : Claim(Group(c)).reportIds = {s.path : s \in Group(c)}
    BY DEF Claim
  <2>3. p \in Counted <=> \E c \in Configurations : \E s \in Group(c) : s.path = p
    BY <2>1, <2>2
  <2> QED  BY <2>3 DEF Group, Configurations
<1> QED  BY <1>1, <1>2

LEMMA AuditAccounts == ASSUME HeadAudited PROVE EveryReportIsAccounted
<1> USE AuditedSources, ShownIs
<1>1. ASSUME NEW p \in Paths, MainReports[p] # Absent
      PROVE  \E s \in rest.sources :
               /\ s.path = p
               /\ p \in Shown <=> s.state = "active"
               /\ s.state = "superseded" =>
                    \E e \in rest.generated.reports :
                      e.reportId = s.replacement /\ e.sourceKey = s.sourceKey
  <2>1. PICK s \in rest.sources : s.path = p
    BY <1>1
  <2>2. p \in Shown <=> s.state = "active"
    BY <2>1 DEF Active, OncePerPath
  <2>3. ASSUME s.state = "superseded"
        PROVE  \E e \in rest.generated.reports :
                 e.reportId = s.replacement /\ e.sourceKey = s.sourceKey
    <3>1. PICK r \in rest.sources : ValidReplacement(s, r)
      BY <2>3 DEF ValidLifecycle
    <3>2. r \in Active(rest.sources)
      BY <3>1 DEF ValidReplacement, Active
    <3>3. Entry(r) \in rest.generated.reports
      BY <3>2, CatalogIs
    <3> QED  BY <3>1, <3>3 DEF Entry, ValidReplacement
  <2> QED  BY <2>1, <2>2, <2>3
<1>2. \A p \in Shown : MainReports[p] \in Publishable
  BY DEF Active
<1> QED  BY <1>1, <1>2 DEF EveryReportIsAccounted, MainReports

LEMMA AuditSeparates == ASSUME HeadAudited PROVE ReproducedIsIndependent
<1> SUFFICES ASSUME NEW c \in Configurations, Claim(Group(c)).claim = "reproduced-success"
             PROVE  \E s, t \in rest.sources :
                      /\ {s.path, t.path} \subseteq Claim(Group(c)).reportIds
                      /\ \A p \in {s.path, t.path} :
                           MainReports[p] # Absent /\ Observed[p] = "observed-success"
                      /\ s.sourceKey # t.sourceKey
                      /\ {s.sourceKey, t.sourceKey} \subseteq Independent
  BY CatalogIs DEF ReproducedIsIndependent, MainReports
<1> DEFINE successes == Supporting(Group(c), "observed-success")
           attributed == {s \in successes : s.independence = "independent"}
<1>1. Aggregate(Group(c)) = "reproduced-success"
  BY DEF Claim
<1>2. Reproduced(successes)
  BY <1>1 DEF Aggregate
<1>3. Cardinality({s.sourceKey : s \in attributed}) >= 2
  BY <1>2 DEF Reproduced
<1>4. attributed \subseteq rest.sources /\ attributed \subseteq Group(c)
  BY DEF Supporting, Group, Active
<1>5. IsFiniteSet(attributed)
  BY <1>4, AuditedSources, FS_Subset
<1>6. \A s \in attributed : Observed[s.path] = "observed-success" /\ s.independence = "independent"
  BY DEF Supporting
<1> HIDE DEF attributed
<1>7. PICK s \in attributed, t \in attributed : s.sourceKey # t.sourceKey
  BY <1>3, <1>5, TwoOrigins
<1>8. \A r \in attributed : /\ MainReports[r.path] # Absent /\ r.sourceKey \in Independent
                            /\ r.path \in Claim(Group(c)).reportIds
  <2> TAKE r \in attributed
  <2>1. r \in rest.sources /\ r.path \in Paths
    BY <1>4, AuditedSources DEF Source
  <2>2. MainReports[r.path] # Absent /\ r.sourceKey \in Independent
    BY <2>1, <1>6, AuditedSources DEF ValidSource
  <2> QED  BY <2>2, <1>4 DEF Claim
<1> QED  BY <1>4, <1>6, <1>7, <1>8

LEMMA AuditSatisfiesRelease == ASSUME HeadAudited PROVE ReleaseGateAgrees
<1> DEFINE entries == rest.generated.reports
           active == Active(rest.sources)
           ids == {e.reportId : e \in entries}
           EntryOf(id) == CHOOSE e \in entries : e.reportId = id
<1>1. /\ active \subseteq rest.sources /\ IsFiniteSet(active)
      /\ \A s, t \in active : s.path = t.path => s = t
  <2>1. active \subseteq rest.sources
    BY DEF Active
  <2> QED  BY <2>1, AuditedSources, FS_Subset DEF OncePerPath
<1>2. /\ entries = {Entry(s) : s \in active}
      /\ rest.generated.claims = {Claim(Group(c)) : c \in Configurations}
  BY CatalogIs
<1>3. ids = {s.path : s \in active}
  BY ShownIs DEF Shown
<1>4. \A s \in active : EntryOf(s.path) = Entry(s)
  <2> TAKE s \in active
  <2>1. Entry(s) \in entries /\ Entry(s).reportId = s.path
    BY <1>2 DEF Entry
  <2>2. ASSUME NEW e \in entries, e.reportId = s.path PROVE e = Entry(s)
    <3>1. PICK t \in active : e = Entry(t)
      BY <1>2
    <3>2. t = s
      BY <1>1, <2>2, <3>1 DEF Entry
    <3> QED  BY <3>1, <3>2
  <2> HIDE DEF entries
  <2> QED  BY <2>1, <2>2
<1>5. Cardinality(entries) = Cardinality(ids)
  <2> DEFINE f == [e \in entries |-> e.reportId]
  <2>1. \A e, g \in entries : e.reportId = g.reportId => e = g
    BY <1>1, <1>2 DEF Entry
  <2>2. f \in Bijection(entries, ids)
    <3> HIDE DEF entries
    <3>1. f \in [entries -> ids] /\ \A e \in entries : f[e] = e.reportId
      OBVIOUS
    <3>2. \A id \in ids : \E e \in entries : f[e] = id
      BY <3>1
    <3>3. \A e, g \in entries : f[e] = f[g] => e = g
      BY <2>1, <3>1
    <3> HIDE DEF f, ids
    <3> QED  BY <3>1, <3>2, <3>3 DEF Bijection, Injection, Surjection, IsInjective
  <2>3. IsFiniteSet(entries)
    <3> DEFINE g == [s \in active |-> Entry(s)]
    <3>1. g \in Surjection(active, entries)
      BY <1>2 DEF Surjection
    <3> HIDE DEF g
    <3> QED  BY <1>1, <3>1, FS_Surjection
  <2> HIDE DEF f, ids, entries
  <2> QED  BY <2>2, <2>3, FS_Bijection DEF ExistsBijection
<1>6. \A e \in entries : e.sourceIndependence = "independent" <=> e.sourceKey \in Independent
  BY <1>1, <1>2, AuditedSources DEF Entry, ValidSource
<1>7. ASSUME NEW c \in Configurations
      PROVE  LET claim == Claim(Group(c)) IN
             /\ claim.reportIds # {} /\ claim.reportIds \subseteq ids
             /\ claim.sourceCount = Cardinality({EntryOf(id).sourceKey : id \in claim.reportIds})
             /\ claim.unverifiedAnonymous <=>
                  \E id \in claim.reportIds :
                    EntryOf(id).sourceIndependence = "unverified-anonymous"
  <2> DEFINE claim == Claim(Group(c))
  <2>1. claim.reportIds = {s.path : s \in Group(c)} /\ Group(c) \subseteq active /\ Group(c) # {}
    BY DEF Claim, Group, Configurations
  <2>2. \A s \in Group(c) : EntryOf(s.path).sourceKey = s.sourceKey
                            /\ EntryOf(s.path).sourceIndependence = s.independence
    <3> HIDE DEF EntryOf
    <3> QED  BY <1>4, <2>1, EntryIs
  <2> HIDE DEF EntryOf
  <2>3. {EntryOf(id).sourceKey : id \in claim.reportIds} = {s.sourceKey : s \in Group(c)}
    BY <2>1, <2>2
  <2>4. (\E id \in claim.reportIds : EntryOf(id).sourceIndependence = "unverified-anonymous")
          <=> \E s \in Group(c) : s.independence = "unverified-anonymous"
    BY <2>1, <2>2
  <2>5. claim.sourceCount = Cardinality({s.sourceKey : s \in Group(c)})
        /\ claim.unverifiedAnonymous = (\E s \in Group(c) : s.independence = "unverified-anonymous")
    BY DEF Claim
  <2>6. claim.reportIds # {} /\ claim.reportIds \subseteq ids
    BY <1>3, <2>1
  <2> QED  BY <2>3, <2>4, <2>5, <2>6
<1>8. ASSUME NEW id \in ids
      PROVE  Cardinality({c \in rest.generated.claims : id \in c.reportIds}) = 1
  <2>1. PICK s \in active : id = s.path
    BY <1>3
  <2> DEFINE mine == Claim(Group(Configuration[s.path]))
  <2>2. mine \in rest.generated.claims /\ id \in mine.reportIds
    BY <1>2, <2>1 DEF Claim, Group, Configurations
  <2>3. ASSUME NEW c \in rest.generated.claims, id \in c.reportIds PROVE c = mine
    <3>1. PICK d \in Configurations : c = Claim(Group(d))
      BY <1>2
    <3>2. PICK t \in Group(d) : t.path = id
      BY <2>3, <3>1 DEF Claim
    <3>3. t = s /\ d = Configuration[s.path]
      BY <1>1, <2>1, <3>2 DEF Group
    <3> QED  BY <3>1, <3>3
  <2>4. {c \in rest.generated.claims : id \in c.reportIds} = {mine}
    <3> HIDE DEF mine
    <3> QED  BY <2>2, <2>3
  <2> QED  BY <2>4, FS_Singleton
<1>9. \A c \in rest.generated.claims :
          /\ c.reportIds # {} /\ c.reportIds \subseteq ids
          /\ c.sourceCount = Cardinality({EntryOf(id).sourceKey : id \in c.reportIds})
          /\ c.unverifiedAnonymous <=>
               \E id \in c.reportIds :
                 EntryOf(id).sourceIndependence = "unverified-anonymous"
  BY <1>2, <1>7
<1> QED
  BY <1>5, <1>6, <1>8, <1>9 DEF ReleaseGateAgrees, SiteReleaseCatalog

---------------------------------------------------------------------------
(* The theorems.                                                           *)

\* At every head of main, whoever has written the sources, each report is
\* shown and counted once, was withdrawn, or gave way to one that is shown.
THEOREM ReportsAreAccounted == Spec => []EveryReportIsAccounted
BY AuditAccounts, HeadAuditedHolds, PTL

\* At every head of main a claim of reproduction rests on two reports of the
\* tree, both successes, of two origins that maintainers know apart.
THEOREM ReproductionsAreIndependent == Spec => []ReproducedIsIndependent
BY AuditSeparates, HeadAuditedHolds, PTL

\* The gate of the site's release refuses no catalog that the audit let in.
THEOREM ReleasesFollowAudits == Spec => []ReleaseGateAgrees
BY AuditSatisfiesRelease, HeadAuditedHolds, PTL
=============================================================================
