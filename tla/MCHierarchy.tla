----------------------------- MODULE MCHierarchy ----------------------------
(* Two region nodes, a location and a site, and one job: with a customer's *)
(* request and one edit at a time, and with two edits at once.             *)
EXTENDS Hierarchy

CONSTANTS na, nb, nl

MCDensity == [r \in Areas |-> 0]
MCTierOf  == [n \in Accounts |-> IF n \in {na, nb} THEN "region"
                                 ELSE IF n = nl THEN "location" ELSE "site"]
=============================================================================
