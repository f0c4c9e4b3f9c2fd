---------------------------- MODULE IntentLedger ----------------------------
(***************************************************************************)
(* What offline sync promises about a technician's intents, whatever the   *)
(* network, the browser and the office do:                                 *)
(*                                                                         *)
(*   - the server rules on an intent at most once, never changes a ruling, *)
(*     and never rules on an intent nobody made;                           *)
(*   - the device forgets an intent only once the server has ruled on it,  *)
(*     or has found that what it asks for is already so (moot).            *)
(***************************************************************************)
CONSTANTS Ids, Rulings, None

VARIABLES
  made,    \* the intents the technician has made
  held,    \* the intents the device still means to send
  moot,    \* the intents the server has found already so
  ruling   \* the server's ruling on each intent

vars == <<made, held, moot, ruling>>

Init ==
  /\ made = {} /\ held = {} /\ moot = {}
  /\ ruling = [i \in Ids |-> None]

Make(i) ==
  /\ i \notin made
  /\ made' = made \cup {i}
  /\ held' = held \cup {i}
  /\ UNCHANGED <<moot, ruling>>

(* One batch is ruled on as a whole.                                       *)
Rule ==
  /\ \A i \in Ids :
       ruling'[i] # ruling[i] =>
         i \in made /\ ruling[i] = None /\ ruling'[i] \in Rulings
  /\ ruling' \in [Ids -> Rulings \cup {None}]
  /\ moot' \in SUBSET made /\ moot \subseteq moot'
  /\ UNCHANGED <<made, held>>

Forget ==
  /\ held' \in SUBSET held
  /\ \A i \in held \ held' : ruling[i] # None \/ i \in moot
  /\ UNCHANGED <<made, moot, ruling>>

Next == (\E i \in Ids : Make(i)) \/ Rule \/ Forget

Spec == Init /\ [][Next]_vars
=============================================================================
