------------------------------ MODULE MCWrapUps -----------------------------
(* One job, whose report has one photo.                                     *)
EXTENDS WrapUps

CONSTANTS s1

MCShotsOf == [j \in Works |-> {s1}]
=============================================================================
