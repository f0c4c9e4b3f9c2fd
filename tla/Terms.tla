-------------------------------- MODULE Terms -------------------------------
(***************************************************************************)
(* Agreements, and the overrides one customer states for one ratcheted     *)
(* term on its tree: the organization, its region nodes and its locations. *)
(* An override names a node, a window of days and a rank (the term's       *)
(* ordinal: lower is stricter) and speaks for its agreement while that is  *)
(* a draft or in force.                                                    *)
(*                                                                         *)
(* Authoring reads every override and the tree under a lock of its own,    *)
(* admits, and inserts; a transition reads the agreement unlocked and      *)
(* writes it later.  The tree moves under both.                            *)
(***************************************************************************)
EXTENDS Naturals, FiniteSets

CONSTANTS
  Org,         \* the organization: the tree's root
  RegionNodes, \* nodes under the organization
  Locations,   \* nodes under a region node
  Agreements,
  Amends,      \* the agreement each one amends, or "none"
  Ranks,       \* the values of the term, by rank
  LastDate,    \* bound: windows are within 1 .. LastDate
  MaxRows,     \* bound: overrides ever written
  Authors, Officers  \* requests that author, and that move an agreement

TermNodes == {Org} \cup RegionNodes \cup Locations

ASSUME TermsAssumption ==
  /\ Ranks \subseteq Nat /\ LastDate \in Nat /\ MaxRows \in Nat
  /\ Amends \in [Agreements -> Agreements \cup {"none"}]
  /\ Org \notin RegionNodes /\ (RegionNodes \cup {Org}) \cap Locations = {}

VARIABLES
  agreement,  \* contracts.state
  overrides,  \* contract_term_overrides
  under,      \* accounts.parent_id of the locations
  writing,    \* the override each author has admitted and not yet inserted
  moving,     \* the transition each officer has decided on and not yet written
  shaken      \* a location has moved, or an ended agreement has come back

termVars == <<agreement, overrides, under, writing, moving, shaken>>

Nothing == [op |-> "none"]
IN_FORCE == {"draft", "active"}
Ended == {"expired", "terminated"}

NEXT_STATES ==
  [none |-> {}, draft |-> {"active"}, active |-> Ended,
   expired |-> {}, terminated |-> {}]

Candidates ==
  {c \in [by : Agreements, at : TermNodes, rank : Ranks,
          from : 1 .. LastDate, to : 2 .. LastDate + 1] : c.from < c.to}

TermsInit ==
  /\ agreement = [k \in Agreements |-> "none"]
  /\ overrides = {}
  /\ under \in [Locations -> RegionNodes]
  /\ writing = [h \in Authors |-> Nothing]
  /\ moving = [h \in Officers |-> Nothing]
  /\ shaken = FALSE

-----------------------------------------------------------------------------
(* The resolver.                                                           *)

Depth(n) == IF n = Org THEN 0 ELSE IF n \in RegionNodes THEN 1 ELSE 2

Above(n) ==
  IF n = Org THEN {} ELSE IF n \in RegionNodes THEN {Org} ELSE {Org, under[n]}

pathOf(n) == Above(n) \cup {n}

inEffect(o, asOf) == o.from <= asOf /\ asOf < o.to
overlaps(a, b) == a.from < b.to /\ b.from < a.to
Looser(a, b) == a.rank > b.rank

Here(rows, nodes, asOf) == {o \in rows : o.at \in nodes /\ inEffect(o, asOf)}

(* resolveTerm raises: two rows at one node, or one looser than the last   *)
(* above it.                                                               *)
Refused(rows, nodes, asOf) ==
  \E o, p \in Here(rows, nodes, asOf) : o # p /\
     \/ o.at = p.at
     \/ Depth(o.at) < Depth(p.at) /\ Looser(p, o)

(* Nothing set on the path is the register's default, which does not bind. *)
LooserThanInherited(c, rows, nodes, asOf) ==
  \E o \in Here(rows, nodes, asOf) :
    /\ \A p \in Here(rows, nodes, asOf) : Depth(p.at) <= Depth(o.at)
    /\ Looser(c, o)

loadOrgOverrides == {o \in overrides : agreement[o.by] \in IN_FORCE}

-----------------------------------------------------------------------------
(* Admission.                                                              *)

(* Mutant: the days on which an ancestor's row begins are not looked at.   *)
ChangePoints_First(c, ancestorRows) == {c.from}

ChangePoints(c, ancestorRows) ==
  {c.from} \cup {r.from : r \in {x \in ancestorRows :
                                   overlaps(c, x) /\ x.from > c.from}}

admitOverride(c, existing) ==
  LET ancestors    == Above(c.at)
      ancestorRows == {o \in existing : o.at \in ancestors}
  IN /\ ~ \E o \in existing : o.at = c.at /\ overlaps(c, o)
     /\ \A asOf \in ChangePoints(c, ancestorRows) :
          /\ ~ Refused(ancestorRows, ancestors, asOf)
          /\ ~ LooserThanInherited(c, ancestorRows, ancestors, asOf)
     /\ \A o \in existing :
          (overlaps(c, o) /\ c.at \in Above(o.at)) => ~ Looser(o, c)

(* The advisory lock: one author of the term at a time.                    *)
authorTermOverride(h, c) ==
  /\ writing[h] = Nothing
  /\ \A k \in Authors : writing[k] = Nothing
  /\ agreement[c.by] \in IN_FORCE
  /\ admitOverride(c, loadOrgOverrides)
  /\ writing' = [writing EXCEPT ![h] = [op |-> "insert", row |-> c]]
  /\ UNCHANGED <<agreement, overrides, under, moving, shaken>>

(* term_override_no_overlap: the table's rows, whatever their agreement.   *)
Excluded(c) == \E o \in overrides : o.at = c.at /\ overlaps(c, o)

insertOverride(h) ==
  /\ writing[h] # Nothing
  /\ Cardinality(overrides) < MaxRows
  /\ overrides' = overrides \cup
       {c \in {writing[h].row} : ~ Excluded(c)}
  /\ writing' = [writing EXCEPT ![h] = Nothing]
  /\ UNCHANGED <<agreement, under, moving, shaken>>

authorLost(h) ==
  /\ writing[h] # Nothing
  /\ writing' = [writing EXCEPT ![h] = Nothing]
  /\ UNCHANGED <<agreement, overrides, under, moving, shaken>>

-----------------------------------------------------------------------------
(* Agreements.  What an MSA must state before it is activated is the terms *)
(* without a default, and every term an organization may state has one.    *)

createContract(k) ==
  /\ agreement[k] = "none"
  /\ Amends[k] # "none" => agreement[Amends[k]] \in IN_FORCE
  /\ agreement' = [agreement EXCEPT ![k] = "draft"]
  /\ UNCHANGED <<overrides, under, writing, moving, shaken>>

transitionContractAsked(h, k, to) ==
  /\ moving[h] = Nothing
  /\ to \in NEXT_STATES[agreement[k]]
  /\ moving' = [moving EXCEPT ![h] = [op |-> "move", of |-> k, to |-> to]]
  /\ UNCHANGED <<agreement, overrides, under, writing, shaken>>

(* UPDATE contracts SET state WHERE id: whatever the state is by now.      *)
transitionContract(h) ==
  /\ moving[h] # Nothing
  /\ agreement' = [agreement EXCEPT ![moving[h].of] = moving[h].to]
  /\ shaken' = (shaken \/ (agreement[moving[h].of] \in Ended
                           /\ moving[h].to \in IN_FORCE))
  /\ moving' = [moving EXCEPT ![h] = Nothing]
  /\ UNCHANGED <<overrides, under, writing>>

(* A move is not admitted against the overrides it carries along.          *)
moveLocation(l, r) ==
  /\ under[l] # r
  /\ under' = [under EXCEPT ![l] = r]
  /\ shaken' = TRUE
  /\ UNCHANGED <<agreement, overrides, writing, moving>>

TermsNext ==
  \/ \E h \in Authors :
       \/ \E c \in Candidates : authorTermOverride(h, c)
       \/ insertOverride(h) \/ authorLost(h)
  \/ \E k \in Agreements : createContract(k)
  \/ \E h \in Officers :
       \/ \E k \in Agreements, to \in IN_FORCE \cup Ended :
            transitionContractAsked(h, k, to)
       \/ transitionContract(h)
  \/ \E l \in Locations, r \in RegionNodes : moveLocation(l, r)

TermsSpec == TermsInit /\ [][TermsNext]_termVars

-----------------------------------------------------------------------------
(* As long as no location has moved and no ended agreement has come back,  *)
(* the term resolves at every node on every day: what admission lets in,   *)
(* one row at a time and looking only at the days it looks at, never adds  *)
(* up to a set the resolver raises on, whoever writes with it and whatever *)
(* agreements end meanwhile.                                               *)
AdmittedTermsResolve ==
  ~ shaken => \A n \in TermNodes, asOf \in 1 .. LastDate :
                ~ Refused(loadOrgOverrides, pathOf(n), asOf)
=============================================================================
