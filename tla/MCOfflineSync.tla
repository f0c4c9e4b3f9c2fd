--------------------------- MODULE MCOfflineSync ---------------------------
(* Three intents on one job.  Of every kind (transitions that chain, a row  *)
(* the database may refuse, an intent no device may have, a punch) two are  *)
(* made; a third, so that a reload can fall between the second and it, only *)
(* where all are moves and the office does nothing.                         *)
EXTENDS OfflineSync

CONSTANTS i1, i2, i3

Transition(to) == [table |-> "jobs", to |-> to]
Row(table)     == [table |-> table, to |-> "none"]

MCMoves == {Transition("en_route"), Transition("in_progress")}

MCMutations ==
  MCMoves \cup {Row("time_entries"), Row("assignments"), Row("shift_punches")}

(* Rows, which a replay could write twice, for the longer behaviours of     *)
(* two sessions.                                                            *)
MCSessions == {Row("time_entries")}

MCMade ==
  Len(made) > 2 => office = 0 /\ \A i \in Range(made) : asks[i] \in MCMoves

Symmetry == Permutations({i1, i2, i3})
=============================================================================
