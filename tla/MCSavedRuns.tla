---------------------------- MODULE MCSavedRuns -----------------------------
(* Small instances of SavedRuns. *)
EXTENDS SavedRuns, TLC

CONSTANTS s1, s2, k1, k2, x1, x2

OneSampler   == {s1}
TwoSamplers  == {s1, s2}
OneClient    == {k1}
TwoClients   == {k1, k2}
OneExporter  == {x1}
TwoExporters == {x1, x2}

Symmetry == Permutations(TwoClients) \cup Permutations(TwoExporters)

=============================================================================
