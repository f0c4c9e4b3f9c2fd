------------------------------ MODULE MCOffice ------------------------------
(* The office's records, the worker's sweeps that open quote jobs and warn *)
(* of credentials, and a page's copy of what the gateway has.  The         *)
(* components share no table, so each behaviour runs one of them and their *)
(* state spaces add up instead of multiplying.                             *)
EXTENDS PurchaseOrders, PriceList, Payments, Settlements, Network,
        Technicians, Terms, Hierarchy, Intake, Access,
        QuoteSweep, ExpirySweep, ResourceStore, TLC

CONSTANTS f1, c1, d1, east, na, nb, nl, ra, w1, h1, h2

VARIABLE part

Parts == {"orders", "prices", "payments", "settlements", "network", "roster",
          "terms", "tree", "race", "intake", "access", "quotes", "expiry", "store"}

-----------------------------------------------------------------------------
(* The instances.                                                          *)

MCOrdered  == [l \in Lines |-> 1]
MCTotal    == [i \in Invoices |-> 2]
(* A crew of our own, with its two documents, and a firm's.                *)
MCFirmOf   == [c \in Crews |-> IF c = c1 THEN "ours" ELSE f1]
MCKindOf   == [c \in Crews |-> "service"]
MCDocOf    == [d \in Docs |-> [crew |-> c1,
                 kind |-> IF d = d1 THEN "license" ELSE "background_check"]]
MCWorkOf   == [j \in Calls |-> "service"]
MCFirstDay == [j \in Calls |-> 1]
MCLastDay  == [j \in Calls |-> 2]
MCEmployer == [t \in Techs |-> f1]
MCUnitKind == [c \in Units |-> "service"]
MCUnitFirm == [c \in Units |-> f1]
MCAmends   == [k \in Agreements |-> "none"]
MCDensity  == [r \in Areas |-> IF r = east THEN 0 ELSE 1]
MCTierOf   == [n \in Accounts |-> IF n \in {na, nb} THEN "region"
                                  ELSE IF n = nl THEN "location" ELSE "site"]

(* The requests of every part, which are interchangeable in each.          *)
Symmetry == Permutations({h1, h2})

-----------------------------------------------------------------------------
(* The tree is run twice.  Once with every operation, one request under    *)
(* way at a time.                                                          *)
OneAtATime == \E h \in Editors : edit'[h] = AtRest

(* And once with two requests at once, which create nodes, move them, open *)
(* jobs, commit and are lost; every region has the crews it must have, and *)
(* stays open, and no customer asks for a job.                             *)
TwoAtOnce ==
  /\ \A h \in Editors : edit'[h].op \notin {"region", "ask"}
  /\ \A r \in Areas : area'[r].crews \in area[r].crews .. Density[r]

vars == <<part, poVars, priceVars, payVars, settleVars, netVars, techVars,
          termVars, hierVars, intakeVars, accessVars, quoteVars, expVars, storeVars>>

(* A part that does not move has one of its initial states.                *)
Init ==
  /\ part \in Parts
  /\ PoInit /\ PriceInit /\ PayInit /\ SettleInit /\ NetInit /\ TechInit
  /\ TermsInit /\ HierInit /\ IntakeInit /\ AccessInit
  /\ QuoteInit /\ ExpInit /\ StoreInit
  /\ part # "terms" => \A l \in Locations : under[l] = ra
  /\ part # "intake" => \A x \in Spots : spot[x].words = w1
  /\ part # "access" => \A p \in People : person[p].claims = w1
  /\ part # "quotes" => termless = {}

(* The named part moves and the variables of the rest do not.              *)
Next ==
  /\ UNCHANGED part
  /\ \/ part = "orders" /\ PoNext
     \/ part # "orders" /\ UNCHANGED poVars
  /\ \/ part = "prices" /\ PriceNext
     \/ part # "prices" /\ UNCHANGED priceVars
  /\ \/ part = "payments" /\ PayNext
     \/ part # "payments" /\ UNCHANGED payVars
  /\ \/ part = "settlements" /\ SettleNext
     \/ part # "settlements" /\ UNCHANGED settleVars
  /\ \/ part = "network" /\ NetNext
     \/ part # "network" /\ UNCHANGED netVars
  /\ \/ part = "roster" /\ TechNext
     \/ part # "roster" /\ UNCHANGED techVars
  /\ \/ part = "terms" /\ TermsNext
     \/ part # "terms" /\ UNCHANGED termVars
  /\ \/ part = "tree" /\ HierNext /\ OneAtATime
     \/ part = "race" /\ HierNext /\ TwoAtOnce
     \/ part \notin {"tree", "race"} /\ UNCHANGED hierVars
  /\ \/ part = "intake" /\ IntakeNext
     \/ part # "intake" /\ UNCHANGED intakeVars
  /\ \/ part = "access" /\ AccessNext
     \/ part # "access" /\ UNCHANGED accessVars
  /\ \/ part = "quotes" /\ QuoteNext
     \/ part # "quotes" /\ UNCHANGED quoteVars
  /\ \/ part = "expiry" /\ ExpNext
     \/ part # "expiry" /\ UNCHANGED expVars
  /\ \/ part = "store" /\ StoreNext
     \/ part # "store" /\ UNCHANGED storeVars

Spec == Init /\ [][Next]_vars
=============================================================================
