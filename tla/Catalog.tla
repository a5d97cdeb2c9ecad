------------------------------ MODULE Catalog ------------------------------
(***************************************************************************)
(* The catalog of published reports: what the registry may say of a report *)
(* (packages/catalog/src/catalog.js), the claims derived from the reports  *)
(* that are current (packages/schema/src/claims.js), the audit of one      *)
(* checked-out tree (audit.js), and the gate of the site's release, which  *)
(* looks at the catalog alone.                                             *)
(*   - A report's path, its ID and its content determine each other, so    *)
(*     that what a report observed and the configuration it is grouped by  *)
(*     are functions of its path.                                          *)
(*   - Of a report's content the schema, the privacy rules and the profile *)
(*     match are one predicate, Publishable, of the stored entry.          *)
(***************************************************************************)
EXTENDS Naturals, FiniteSets

CONSTANTS
  Paths,         \* reports/v1/sha256-<id>.json
  Absent,        \* no file at a path
  Publishable,   \* the entries that hold a valid report of their path's ID
  Independent,   \* the source keys that maintainers give out
  Anonymous,     \* source:anonymous-relay
  Observed,      \* the claim of each report: ReportClaim of ReportContract
  Configuration  \* the compatibility key of each report

Derived == {"observed-success", "observed-failure", "unknown"}
Class == {"independent", "unverified-anonymous"}

\* One trusted entry of registry/catalog.json.  "replacement" matters only
\* to a superseded source.
Source == [path : Paths, sourceKey : Independent \cup {Anonymous},
           independence : Class, state : {"active", "superseded", "withdrawn"},
           replacement : Paths]

---------------------------------------------------------------------------
\* validateSource: the class of a source and its key go together.
ValidSource(s) == s.independence = "independent" <=> s.sourceKey \in Independent

\* validateLifecycle: a superseded source names an active one of the same
\* origin, which the form of the registry makes another one.
ValidReplacement_AnyState(s, r) ==
  /\ r.path = s.replacement /\ r.path # s.path
  /\ r.sourceKey = s.sourceKey /\ r.independence = s.independence
ValidReplacement(s, r) ==
  /\ r.path = s.replacement /\ r.path # s.path
  /\ r.state = "active"
  /\ r.sourceKey = s.sourceKey /\ r.independence = s.independence

ValidLifecycle(sources) ==
  \A s \in sources :
    s.state = "superseded" => \E r \in sources : ValidReplacement(s, r)

\* The list of sources names no path twice.
OncePerPath(sources) == \A s, r \in sources : s.path = r.path => s = r

Active(sources) == {s \in sources : s.state = "active"}

\* buildCatalogFromFiles: there is a file at each path, with the ID that the
\* path says; and it is publishable, which buildCatalog asks of it.
Readable(reports, s) == reports[s.path] \in Publishable

\* buildCatalog throws unless this holds.
Buildable(reports, sources) ==
  /\ \A s \in sources : ValidSource(s) /\ Readable(reports, s)
  /\ OncePerPath(sources)
  /\ ValidLifecycle(sources)

---------------------------------------------------------------------------
\* deriveAggregateClaim of the sources of one group.
Supporting(group, claim) == {s \in group : Observed[s.path] = claim}
Reproduced_ByReports(successes) ==
  Cardinality({s.path : s \in {t \in successes : t.independence = "independent"}}) >= 2
Reproduced(successes) ==
  LET attributed == {s \in successes : s.independence = "independent"}
  IN /\ Cardinality({s.sourceKey : s \in attributed}) >= 2
     /\ Cardinality({s.path : s \in attributed}) >= 2

Aggregate(group) ==
  LET successes == Supporting(group, "observed-success")
      failures == Supporting(group, "observed-failure")
  IN CASE successes # {} /\ failures # {} -> "mixed"
       [] successes # {} /\ failures = {} ->
            IF Reproduced(successes) THEN "reproduced-success" ELSE "observed-success"
       [] successes = {} /\ failures # {} -> "observed-failure"
       [] OTHER -> "unknown"

\* aggregateEntries: one claim for each configuration among the sources.
Claim_CountsReports(group) ==
  [claim |-> Aggregate(group),
   reportIds |-> {s.path : s \in group},
   sourceCount |-> Cardinality({s.path : s \in group}),
   unverifiedAnonymous |-> \E s \in group : s.independence = "unverified-anonymous"]
Claim(group) ==
  [claim |-> Aggregate(group),
   reportIds |-> {s.path : s \in group},
   sourceCount |-> Cardinality({s.sourceKey : s \in group}),
   unverifiedAnonymous |-> \E s \in group : s.independence = "unverified-anonymous"]

Claims(sources) ==
  {Claim({s \in sources : Configuration[s.path] = c}) :
     c \in {Configuration[s.path] : s \in sources}}

\* reportEntry of each source that is shown.
Entry(s) == [reportId |-> s.path, sourceKey |-> s.sourceKey,
             sourceIndependence |-> s.independence, claim |-> Observed[s.path]]

BuildCatalog(sources) ==
  [reports |-> {Entry(s) : s \in Active(sources)},
   claims |-> Claims(Active(sources))]

---------------------------------------------------------------------------
\* ensureBidirectionalMapping: the reports of the tree and the sources of
\* the registry are the same paths.
Mapped(reports, sources) ==
  {p \in Paths : reports[p] # Absent} = {s.path : s \in sources}

\* auditContributions of the tree that is checked out.
ContributionAudit(reports, sources, generated) ==
  /\ Mapped(reports, sources)
  /\ Buildable(reports, sources)
  /\ generated = BuildCatalog(sources)

\* validateSiteReleaseCatalog, which has neither the registry nor the tree.
SiteReleaseCatalog(catalog) ==
  LET ids == {e.reportId : e \in catalog.reports}
      EntryOf(id) == CHOOSE e \in catalog.reports : e.reportId = id
  IN /\ Cardinality(catalog.reports) = Cardinality(ids)
     /\ \A e \in catalog.reports :
          e.sourceIndependence = "independent" <=> e.sourceKey \in Independent
     /\ \A c \in catalog.claims :
          /\ c.reportIds # {} /\ c.reportIds \subseteq ids
          /\ c.sourceCount = Cardinality({EntryOf(id).sourceKey : id \in c.reportIds})
          /\ c.unverifiedAnonymous <=>
               \E id \in c.reportIds :
                 EntryOf(id).sourceIndependence = "unverified-anonymous"
     /\ \A id \in ids : Cardinality({c \in catalog.claims : id \in c.reportIds}) = 1
=============================================================================
