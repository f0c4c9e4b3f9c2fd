---------------------------- MODULE Settlements -----------------------------
(***************************************************************************)
(* A firm's statement: the office issues a draft, the firm acknowledges or *)
(* disputes it.  Each handler reads the state without a lock and writes    *)
(* later; ac_settlement_position_is_the_firms looks again at what a firm   *)
(* writes, and at nothing the office writes.                               *)
(***************************************************************************)
EXTENDS Naturals

CONSTANTS
  Statements,  \* settlements, drafted already
  Partners     \* requests at once, of the office and of the firm

VARIABLES
  statement,   \* settlements.state
  position     \* what each request has read and not yet written

settleVars == <<statement, position>>

NoPosition == [to |-> "none", on |-> "none"]

SettleInit ==
  /\ statement = [s \in Statements |-> "draft"]
  /\ position = [h \in Partners |-> NoPosition]

(* The states each handler goes on from.                                   *)
FirmMayFrom == [acknowledged |-> {"issued"},
                disputed |-> {"issued", "acknowledged"}]

loadForPosition(h, s, to) ==
  /\ position[h] = NoPosition
  /\ position' = [position EXCEPT ![h] = [to |-> to, on |-> s]]
  /\ UNCHANGED statement

issueSettlementAsked(h, s) ==
  statement[s] = "draft" /\ loadForPosition(h, s, "issued")

acknowledgeSettlementAsked(h, s) ==
  /\ statement[s] \in FirmMayFrom.acknowledged
  /\ loadForPosition(h, s, "acknowledged")

disputeSettlementAsked(h, s) ==
  /\ statement[s] \in FirmMayFrom.disputed
  /\ loadForPosition(h, s, "disputed")

(* Mutant: there is no trigger.                                            *)
Position_Unchecked(from, to) == to

(* The trigger: the firm's step is refused from any other state.           *)
Position(from, to) ==
  IF to = "issued" \/ from \in FirmMayFrom[to] THEN to ELSE from

settlementWrite(h) ==
  /\ position[h] # NoPosition
  /\ statement' = [statement EXCEPT ![position[h].on] =
                     Position(@, position[h].to)]
  /\ position' = [position EXCEPT ![h] = NoPosition]

SettleNext ==
  \E h \in Partners :
    \/ \E s \in Statements :
         \/ issueSettlementAsked(h, s) \/ acknowledgeSettlementAsked(h, s)
         \/ disputeSettlementAsked(h, s)
    \/ settlementWrite(h)

SettleSpec == SettleInit /\ [][SettleNext]_settleVars

-----------------------------------------------------------------------------
(* A dispute is the office's to answer: an acknowledgement the firm read   *)
(* for before it disputed, and that is written after, does not end it.     *)
DisputeIsNotAcknowledged ==
  [][\A s \in Statements :
       statement[s] = "disputed" => statement'[s] # "acknowledged"]_settleVars
=============================================================================
