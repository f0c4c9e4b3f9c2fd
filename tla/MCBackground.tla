---------------------------- MODULE MCBackground ----------------------------
(* What must come to an end behind the requests: the gateway's outbox, of  *)
(* events, with two units of work, two relays and a stray row; the         *)
(* device's, of completions, with two jobs of one photo each; and the      *)
(* response timers, swept by two workers.  They share no table, so each    *)
(* behaviour runs one of the three and their state spaces add up instead   *)
(* of multiplying.  No symmetry, because of the liveness properties.       *)
EXTENDS Outbox, WrapUps, SlaCascade

CONSTANTS s1, s2, j1, j2, t1, t2

VARIABLE part

MCShotsOf == [j \in Works |-> IF j = j1 THEN {s1} ELSE {s2}]
MCWindow  == [t \in Timers |-> IF t = t1 THEN 1 ELSE 5]

MCInit ==
  /\ part \in {"events", "completions", "cascade"}
  /\ Init /\ WrapInit /\ SlaInit

(* The job of the short timer is answered or cancelled at most; that of    *)
(* the long one goes anywhere.                                             *)
ShortJob == jobState'[t1] \in {"created", "assigned", "cancelled"}

(* The named part moves and the variables of the rest do not.              *)
MCNext ==
  /\ UNCHANGED part
  /\ \/ part = "events" /\ Next /\ UNCHANGED <<wrapVars, slaVars>>
     \/ part = "completions" /\ WrapNext /\ UNCHANGED <<vars, slaVars>>
     \/ part = "cascade" /\ SlaNext /\ ShortJob /\ UNCHANGED <<vars, wrapVars>>

MCSpec ==
  /\ MCInit /\ [][MCNext]_<<part, vars, wrapVars, slaVars>>
  /\ \/ part = "events" /\ Fairness
     \/ part = "completions" /\ WrapFairness
     \/ part = "cascade" /\ SlaFairness
=============================================================================
