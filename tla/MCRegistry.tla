---------------------------- MODULE MCRegistry ----------------------------
(* Two reports of one configuration, both successes, and four origins a   *)
(* source may be given: two that maintainers know apart, the anonymous    *)
(* class, and the anonymous key under the wrong class.                    *)
EXTENDS Registry, TLC

CONSTANTS p1, p2, k1, k2

Successes == [p \in Paths |-> "observed-success"]
OneConfiguration == [p \in Paths |-> "m"]

Other(p) == CHOOSE q \in Paths : q # p
Offer(key, class, states) ==
  {[path |-> p, sourceKey |-> key, independence |-> class, state |-> st,
    replacement |-> Other(p)] : p \in Paths, st \in states}
MCOffered ==
  Offer(k1, "independent", {"active", "superseded", "withdrawn"})
    \cup Offer(k2, "independent", {"active", "superseded", "withdrawn"})
    \cup Offer(Anonymous, "unverified-anonymous", {"active"})
    \cup Offer(Anonymous, "independent", {"active"})

Symmetry == {f @@ g : f \in Permutations(Paths), g \in Permutations({k1, k2})}
=============================================================================
