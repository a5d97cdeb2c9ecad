----------------------- MODULE MCArtifactAcquisition -----------------------
(* Two attempts over one cache directory.  They are interchangeable: no    *)
(* definition orders or chooses among them.                                *)
EXTENDS ArtifactAcquisition, TLC

CONSTANTS s1, s2

Attempts == {s1, s2}
AttemptSymmetry == Permutations(Attempts)
=============================================================================
