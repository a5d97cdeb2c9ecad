------------------------------ MODULE Registry ------------------------------
(***************************************************************************)
(* The public repository as a whole: the history of its reports, audited   *)
(* edge by edge, and at the head of main the registry's sources and the    *)
(* catalog that was generated from them (scripts/build-catalog.mjs) and    *)
(* checked in.                                                             *)
(***************************************************************************)
EXTENDS ReportHistory

CONSTANTS
  Publishable, Independent, Anonymous, Observed, Configuration,  \* of Catalog
  Offered        \* bound: the sources that pull requests may write

INSTANCE Catalog

ASSUME RegistryAssumption ==
  /\ Publishable \subseteq Regular
  /\ Anonymous \notin Independent
  /\ Observed \in [Paths -> Derived] /\ DOMAIN Configuration = Paths
  /\ Offered \subseteq Source

---------------------------------------------------------------------------
(* What the rest of a tree is: values of the constants Genesis, Admitted   *)
(* and RestAfter of ReportHistory.                                         *)
EmptyRegistry == [sources |-> {}, generated |-> BuildCatalog({})]

RegistryAdmitted(reports, r) == ContributionAudit(reports, r.sources, r.generated)

\* A pull request may write or remove the source of one path and, as a
\* correction does, mark with it another one of the same origin as superseded
\* by what it writes; and it may leave the catalog as it was.
Written(sources, s) == {o \in sources : o.path # s.path} \cup {s}
SupersededBy(sources, s) ==
  {[o EXCEPT !.state = "superseded", !.replacement = s.path] :
     o \in {t \in sources : t.path # s.path /\ t.sourceKey = s.sourceKey}} \cap Offered
Rewritten(sources) ==
  {{s \in sources : s.path # p} : p \in Paths}
    \cup {Written(sources, s) : s \in Offered}
    \cup UNION {{Written(Written(sources, s), o) : o \in SupersededBy(sources, s)} : s \in Offered}
RegistryAfter(r) ==
  UNION {{[sources |-> sources, generated |-> generated] :
            generated \in {BuildCatalog(sources), r.generated}} :
           sources \in Rewritten(r.sources)}

\* The registries that come of it, with whatever catalog was generated last.
OfferedRegistries == {sources \in SUBSET Offered : OncePerPath(sources)}
Rests == [sources : OfferedRegistries, generated : {BuildCatalog(sources) : sources \in OfferedRegistries}]

ASSUME RestAssumption ==
  /\ Genesis = EmptyRegistry
  /\ \A r \in Rests :
       /\ \A reports \in Reports : Admitted(reports, r) <=> RegistryAdmitted(reports, r)
       /\ RestAfter(r) = RegistryAfter(r)

---------------------------------------------------------------------------
Shown == {e.reportId : e \in rest.generated.reports}
Counted == UNION {c.reportIds : c \in rest.generated.claims}

\* Every report of the tree at the head of main can be accounted for: it is
\* shown and counted in one claim, or was withdrawn, or gave way to another
\* one of the same origin that is shown.  Nothing else is shown or counted.
EveryReportIsAccounted ==
  /\ Shown = Counted
  /\ \A p \in Paths : line[Len(line)][p] # Absent =>
       \E s \in rest.sources :
         /\ s.path = p
         /\ p \in Shown <=> s.state = "active"
         /\ s.state = "superseded" =>
              \E e \in rest.generated.reports :
                e.reportId = s.replacement /\ e.sourceKey = s.sourceKey
  /\ \A p \in Shown : line[Len(line)][p] \in Publishable

\* A claim of reproduction rests on two reports that are in the tree, were
\* made by two sources that maintainers know apart, and both succeeded.
ReproducedIsIndependent ==
  \A c \in rest.generated.claims : c.claim = "reproduced-success" =>
    \E s, t \in rest.sources :
      /\ {s.path, t.path} \subseteq c.reportIds
      /\ \A p \in {s.path, t.path} :
           line[Len(line)][p] # Absent /\ Observed[p] = "observed-success"
      /\ s.sourceKey # t.sourceKey
      /\ {s.sourceKey, t.sourceKey} \subseteq Independent

\* What the audit admits the gate of the site's release lets through: the
\* two look at the same catalog from different ends.
ReleaseGateAgrees == SiteReleaseCatalog(rest.generated)
=============================================================================
