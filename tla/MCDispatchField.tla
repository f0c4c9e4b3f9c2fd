--------------------------- MODULE MCDispatchField ---------------------------
(* Two requests at once, office or device, on one job, with enough         *)
(* mutations to walk the job into the field and a report to close it.      *)
EXTENDS Dispatch, TLC

CONSTANTS h1, h2, i1, i2, a1, a2

Symmetry == Permutations({h1, h2}) \cup Permutations({i1, i2})
              \cup Permutations({a1, a2})
==============================================================================
