------------------------- MODULE HierarchyProofs ----------------------------
(***************************************************************************)
(* The customers' tree and the agreements over it, for any number of       *)
(* nodes, jobs, agreements and requests.                                   *)
(***************************************************************************)
EXTENDS Terms, Hierarchy, TLAPS

-----------------------------------------------------------------------------
(***************************************************************************)
(* Terms. Admission compares a new override with the standing ones two at  *)
(* a time, and the terms of a place are resolved from all of them, on any  *)
(* day. What is between: the answer changes only on the days on which some *)
(* override begins (ChangePointsAreEnough), and rows that agree two at a   *)
(* time leave one nearest row on each day (PairsResolve).                  *)
(***************************************************************************)

TermsTyped ==
  /\ agreement \in [Agreements -> {"none"} \cup IN_FORCE \cup Ended]
  /\ overrides \subseteq Candidates
  /\ under \in [Locations -> RegionNodes]
  /\ writing \in [Authors -> {Nothing} \cup [op : {"insert"}, row : Candidates]]
  /\ moving \in [Officers -> {Nothing} \cup
                   [op : {"move"}, of : Agreements, to : IN_FORCE \cup Ended]]
  /\ shaken \in BOOLEAN

(* One author at a time; and every row is some agreement's.                *)
OneAuthor ==
  \A h, k \in Authors : writing[h] # Nothing /\ writing[k] # Nothing => h = k

RowsHaveAgreements ==
  /\ \A o \in overrides : agreement[o.by] # "none"
  /\ \A h \in Authors : writing[h] # Nothing => agreement[writing[h].row.by] # "none"
  /\ \A h \in Officers : moving[h] # Nothing => agreement[moving[h].of] # "none"

(* Rows that overlap are at different nodes, and the lower is no looser.   *)
Compatible(c, o) ==
  overlaps(c, o) =>
    /\ o.at # c.at
    /\ o.at \in Above(c.at) => ~ Looser(c, o)
    /\ c.at \in Above(o.at) => ~ Looser(o, c)

PairsAgree(rows) == \A o, p \in rows : o # p => Compatible(o, p)

AdmittedAgree ==
  ~ shaken =>
    /\ PairsAgree(loadOrgOverrides)
    /\ \A h \in Authors : writing[h] # Nothing =>
         \A o \in loadOrgOverrides : Compatible(writing[h].row, o)

TermsInv == TermsTyped /\ OneAuthor /\ RowsHaveAgreements /\ AdmittedAgree

-----------------------------------------------------------------------------
(* The fields of an override.                                              *)
LEMMA CandidateTypes ==
  ASSUME NEW c \in Candidates
  PROVE  /\ c.by \in Agreements /\ c.at \in TermNodes /\ c.rank \in Nat
         /\ c.from \in Nat /\ c.to \in Nat /\ c.from < c.to
<1>1. /\ c \in [by : Agreements, at : TermNodes, rank : Ranks,
                 from : 1 .. LastDate, to : 2 .. LastDate + 1]
      /\ c.from < c.to
  BY DEF Candidates
<1>2. /\ c.by \in Agreements /\ c.at \in TermNodes /\ c.rank \in Ranks
      /\ c.from \in 1 .. LastDate /\ c.to \in 2 .. LastDate + 1
  BY <1>1
<1>3. Ranks \subseteq Nat /\ LastDate \in Nat
  BY TermsAssumption
<1>4. c.rank \in Nat
  BY <1>2, <1>3
<1>5. c.from \in Nat /\ c.to \in Nat
  BY <1>2, <1>3
<1> QED
  BY <1>1, <1>2, <1>4, <1>5

(* The nodes above a node are of less depth, and of each depth there is    *)
(* one.                                                                    *)
LEMMA AboveIsALine ==
  ASSUME TermsTyped, NEW n \in TermNodes, NEW a \in Above(n)
  PROVE  /\ a \in TermNodes /\ Depth(a) \in {0, 1} /\ Depth(a) < Depth(n)
         /\ Depth(n) \in {0, 1, 2}
         /\ \A b \in Above(n) : Depth(a) = Depth(b) => a = b
         /\ \A b \in Above(n) : Depth(b) < Depth(a) => b \in Above(a)
<1>1. CASE n = Org
  BY <1>1 DEF Above
<1>2. CASE n \in RegionNodes
  BY <1>2, TermsAssumption DEF Above, Depth, TermNodes
<1>3. CASE n \in Locations
  <2>1. /\ n # Org /\ n \notin RegionNodes /\ under[n] \in RegionNodes
        /\ under[n] # Org /\ Above(n) = {Org, under[n]}
    BY <1>3, TermsAssumption DEF TermsTyped, Above
  <2>2. /\ Depth(n) = 2 /\ Depth(Org) = 0 /\ Depth(under[n]) = 1
        /\ Above(under[n]) = {Org}
    BY <2>1 DEF Depth, Above
  <2> QED
    BY <2>1, <2>2 DEF TermNodes
<1> QED
  BY <1>1, <1>2, <1>3 DEF TermNodes

(* To look at the day the row begins and the days a row above it begins is *)
(* to look at every day.                                                   *)
LEMMA ChangePointsAreEnough ==
  ASSUME TermsTyped, NEW c \in Candidates, NEW rows \in SUBSET Candidates,
         admitOverride(c, rows), NEW o \in rows
  PROVE  Compatible(c, o)
<1>1. CASE ~ overlaps(c, o)
  BY <1>1 DEF Compatible
<1>2. CASE overlaps(c, o)
  <2> DEFINE ancestors == Above(c.at)
             above     == {x \in rows : x.at \in ancestors}
             day       == IF o.from > c.from THEN o.from ELSE c.from
  <2>1. /\ c.from \in Nat /\ c.to \in Nat /\ c.from < c.to /\ c.rank \in Nat
        /\ o.from \in Nat /\ o.to \in Nat /\ o.from < o.to /\ o.rank \in Nat
        /\ c.at \in TermNodes /\ o.at \in TermNodes
    BY CandidateTypes
  <2>2. /\ o.at # c.at /\ (c.at \in Above(o.at) => ~ Looser(o, c))
    BY <1>2 DEF admitOverride
  <2>3. ASSUME o.at \in Above(c.at), Looser(c, o)
        PROVE  FALSE
    <3>1. o \in above
      BY <2>3
    <3>2. day \in ChangePoints(c, above)
      BY <1>2, <3>1 DEF ChangePoints
    <3>3. inEffect(o, day)
      BY <1>2, <2>1 DEF inEffect, overlaps
    <3>4. ~ Refused(above, ancestors, day) /\ ~ LooserThanInherited(c, above, ancestors, day)
      BY <3>2 DEF admitOverride
    <3> HIDE DEF day, ancestors
    <3>5. o \in Here(above, ancestors, day)
      BY <2>3, <3>1, <3>3 DEF Here, ancestors
    <3>6. \A p \in Here(above, ancestors, day) :
            /\ p \in Candidates /\ p.at \in Above(c.at) /\ p.rank \in Nat
            /\ Depth(p.at) = 0 \/ Depth(p.at) = 1
      BY <2>1, CandidateTypes, AboveIsALine DEF Here, ancestors
    <3>7. Depth(o.at) = 0 \/ Depth(o.at) = 1
      BY <3>5, <3>6
    <3>8. PICK d \in Here(above, ancestors, day) :
            /\ \A p \in Here(above, ancestors, day) : Depth(p.at) <= Depth(d.at)
            /\ ~ Looser(d, o)
      <4>1. CASE \E d \in Here(above, ancestors, day) : Depth(o.at) < Depth(d.at)
        <5>1. PICK d \in Here(above, ancestors, day) : Depth(o.at) < Depth(d.at)
          BY <4>1
        <5>2. d # o
          BY <3>6, <5>1
        <5>3. ~ Looser(d, o)
          BY <3>4, <3>5, <5>1, <5>2 DEF Refused
        <5>4. Depth(d.at) = 1
          BY <3>6, <3>7, <5>1
        <5> QED
          <6>1. \A p \in Here(above, ancestors, day) : Depth(p.at) <= Depth(d.at)
            BY <3>6, <5>4
          <6> QED
            BY <5>3, <6>1
      <4>2. CASE ~ \E d \in Here(above, ancestors, day) : Depth(o.at) < Depth(d.at)
        <5>1. ~ Looser(o, o)
          BY <2>1 DEF Looser
        <5>2. \A p \in Here(above, ancestors, day) : Depth(p.at) <= Depth(o.at)
          <6>1. ASSUME NEW p \in Here(above, ancestors, day)
                PROVE  Depth(p.at) <= Depth(o.at)
            <7>1. ~ (Depth(o.at) < Depth(p.at))
              BY <4>2
            <7>2. Depth(p.at) = 0 \/ Depth(p.at) = 1
              BY <3>6
            <7> QED
              BY <3>7, <7>1, <7>2
          <6> QED
            BY <6>1
        <5> QED
          BY <3>5, <5>1, <5>2
      <4> QED
        BY <4>1, <4>2
    <3>9. d.rank \in Nat
      BY <3>6
    <3>10. Looser(c, d)
      BY <2>1, <2>3, <3>8, <3>9 DEF Looser
    <3> QED
      BY <3>4, <3>8, <3>10 DEF LooserThanInherited
  <2> QED
    BY <2>2, <2>3 DEF Compatible
<1> QED
  BY <1>1, <1>2

(* Rows that agree in pairs are resolved, at every node on every day.      *)
LEMMA PairsResolve ==
  ASSUME TermsTyped, PairsAgree(loadOrgOverrides), NEW n \in TermNodes, NEW asOf \in Nat
  PROVE  ~ Refused(loadOrgOverrides, pathOf(n), asOf)
<1>1. SUFFICES ASSUME NEW o \in Here(loadOrgOverrides, pathOf(n), asOf),
                      NEW p \in Here(loadOrgOverrides, pathOf(n), asOf), o # p,
                      o.at = p.at \/ (Depth(o.at) < Depth(p.at) /\ Looser(p, o))
               PROVE  FALSE
  BY DEF Refused
<1>2. /\ o \in loadOrgOverrides /\ p \in loadOrgOverrides /\ inEffect(o, asOf)
      /\ inEffect(p, asOf) /\ o.at \in pathOf(n) /\ p.at \in pathOf(n)
  BY <1>1 DEF Here
<1>3. o \in Candidates /\ p \in Candidates
  BY <1>2 DEF loadOrgOverrides, TermsTyped
<1>4. /\ o.from \in Nat /\ o.to \in Nat /\ p.from \in Nat /\ p.to \in Nat
  BY <1>3, CandidateTypes
<1>5. overlaps(p, o)
  BY <1>2, <1>4 DEF inEffect, overlaps
<1>6. o.at # p.at /\ (o.at \in Above(p.at) => ~ Looser(p, o))
  BY <1>1, <1>2, <1>5 DEF PairsAgree, Compatible
<1>7. ASSUME Depth(o.at) < Depth(p.at)
      PROVE  o.at \in Above(p.at)
  <2>1. (o.at = n \/ o.at \in Above(n)) /\ (p.at = n \/ p.at \in Above(n))
    BY <1>2 DEF pathOf
  <2>2. CASE p.at = n
    <3>1. o.at # n
      BY <1>6, <2>2
    <3> QED
      BY <2>1, <2>2, <3>1
  <2>3. CASE p.at \in Above(n) /\ o.at = n
    <3>1. Depth(p.at) < Depth(n) /\ Depth(p.at) \in {0, 1} /\ Depth(n) \in {0, 1, 2}
      BY <2>3, AboveIsALine
    <3> QED
      BY <1>7, <2>3, <3>1
  <2>4. CASE p.at \in Above(n) /\ o.at \in Above(n)
    BY <1>7, <2>4, AboveIsALine
  <2> QED
    BY <2>1, <2>2, <2>3, <2>4
<1> QED
  BY <1>1, <1>6, <1>7

(* There is no agreement and no override.                                  *)
LEMMA TermsInitInv == TermsInit => TermsInv
<1> SUFFICES ASSUME TermsInit PROVE TermsInv
  OBVIOUS
<1>1. TermsTyped
  BY DEF TermsInit, TermsTyped
<1>2. OneAuthor /\ RowsHaveAgreements /\ AdmittedAgree
  BY DEF TermsInit, OneAuthor, RowsHaveAgreements, AdmittedAgree, PairsAgree,
     loadOrgOverrides
<1> QED
  BY <1>1, <1>2 DEF TermsInv

(* What is admitted agrees with every row that stands.                     *)
LEMMA AuthorInv ==
  ASSUME TermsInv, NEW h \in Authors, NEW c \in Candidates, authorTermOverride(h, c)
  PROVE  TermsInv'
<1> DEFINE w == [op |-> "insert", row |-> c]
<1>1. /\ UNCHANGED <<agreement, overrides, under, moving, shaken>>
      /\ writing' = [writing EXCEPT ![h] = w]
      /\ \A k \in Authors : writing[k] = Nothing
      /\ agreement[c.by] # "none" /\ admitOverride(c, loadOrgOverrides)
  BY DEF authorTermOverride, IN_FORCE
<1>2. w \in [op : {"insert"}, row : Candidates] /\ w.row = c
  OBVIOUS
<1> HIDE DEF w
<1>3. /\ writing' \in [Authors -> {Nothing} \cup [op : {"insert"}, row : Candidates]]
      /\ writing'[h] = w /\ \A k \in Authors \ {h} : writing'[k] = Nothing
  BY <1>1, <1>2 DEF TermsInv, TermsTyped
<1>4. TermsTyped'
  BY <1>1, <1>3 DEF TermsInv, TermsTyped
<1>5. OneAuthor'
  BY <1>3 DEF OneAuthor
<1>6. RowsHaveAgreements'
  BY <1>1, <1>2, <1>3 DEF TermsInv, RowsHaveAgreements
<1>7. \A o \in loadOrgOverrides : Compatible(c, o)
  <2>1. loadOrgOverrides \in SUBSET Candidates
    BY DEF TermsInv, TermsTyped, loadOrgOverrides
  <2> QED
    BY <1>1, <2>1, ChangePointsAreEnough DEF TermsInv
<1>8. AdmittedAgree'
  <2>1. loadOrgOverrides' = loadOrgOverrides
    BY <1>1 DEF loadOrgOverrides
  <2>2. ~ shaken => PairsAgree(loadOrgOverrides)'
    BY <1>1, <2>1 DEF TermsInv, AdmittedAgree, PairsAgree, Compatible, Above
  <2>3. \A o \in loadOrgOverrides : Compatible(c, o)'
    BY <1>1, <1>7 DEF Compatible, Above
  <2>4. \A o \in loadOrgOverrides' : Compatible(writing[h].row, o)'
    BY <1>2, <1>3, <2>1, <2>3 DEF Compatible, Above
  <2> QED
    BY <1>1, <1>3, <2>2, <2>4 DEF AdmittedAgree
<1> QED
  BY <1>4, <1>5, <1>6, <1>8 DEF TermsInv

(* Fewer rows are in force, or as many, and no location has moved: what    *)
(* agreed goes on agreeing.                                                *)
LEMMA FewerAgree ==
  ASSUME AdmittedAgree, UNCHANGED <<under, shaken>>,
         \A o \in loadOrgOverrides' : o \in loadOrgOverrides,
         \A h \in Authors : writing'[h] # Nothing => writing'[h] = writing[h]
  PROVE  AdmittedAgree'
<1>1. \A o, p : Compatible(o, p)' <=> Compatible(o, p)
  BY DEF Compatible, Above
<1>2. ASSUME ~ shaken
      PROVE  /\ \A o, p \in loadOrgOverrides' : o # p => Compatible(o, p)
             /\ \A h \in Authors : writing'[h] # Nothing =>
                  \A o \in loadOrgOverrides' : Compatible(writing'[h].row, o)
  BY <1>2 DEF AdmittedAgree, PairsAgree
<1>3. ~ shaken => PairsAgree(loadOrgOverrides)'
  BY <1>1, <1>2 DEF PairsAgree
<1>4. ASSUME ~ shaken, NEW h \in Authors, writing'[h] # Nothing
      PROVE  \A o \in loadOrgOverrides' : Compatible(writing[h].row, o)'
  <2>1. PICK r : r = writing'[h].row
    OBVIOUS
  <2>2. \A o \in loadOrgOverrides' : Compatible(r, o)'
    BY <1>1, <1>2, <1>4, <2>1
  <2> QED
    BY <2>1, <2>2 DEF Compatible, Above
<1> QED
  BY <1>3, <1>4 DEF AdmittedAgree

(* What was admitted still agrees when it is inserted: nobody else writes  *)
(* the term meanwhile, and agreements that end take rows away.             *)
LEMMA InsertInv ==
  ASSUME TermsInv, NEW h \in Authors, insertOverride(h)
  PROVE  TermsInv'
<1>1. /\ UNCHANGED <<agreement, under, moving, shaken>> /\ writing[h] # Nothing
      /\ writing' = [writing EXCEPT ![h] = Nothing]
      /\ overrides' = overrides \cup {x \in {writing[h].row} : ~ Excluded(x)}
  BY DEF insertOverride
<1>2. PICK c \in Candidates : c = writing[h].row
  BY <1>1 DEF TermsInv, TermsTyped
<1>3. \A o \in overrides' : o \in overrides \/ o = c
  BY <1>1, <1>2
<1>4. \A k \in Authors : writing'[k] = Nothing
  BY <1>1 DEF TermsInv, TermsTyped, OneAuthor
<1>5. TermsTyped'
  BY <1>1, <1>2, <1>3 DEF TermsInv, TermsTyped
<1>6. OneAuthor'
  BY <1>4 DEF OneAuthor
<1>7. RowsHaveAgreements'
  BY <1>1, <1>2, <1>3, <1>4 DEF TermsInv, RowsHaveAgreements
<1>8. \A o \in loadOrgOverrides' : o \in loadOrgOverrides \/ o = c
  BY <1>1, <1>3 DEF loadOrgOverrides
<1>9. ASSUME ~ shaken, NEW o \in loadOrgOverrides', NEW p \in loadOrgOverrides', o # p
      PROVE  Compatible(o, p)
  <2>1. CASE o \in loadOrgOverrides /\ p \in loadOrgOverrides
    BY <1>9, <2>1 DEF TermsInv, AdmittedAgree, PairsAgree
  <2>2. CASE o = c /\ p \in loadOrgOverrides
    BY <1>1, <1>2, <1>9, <2>2 DEF TermsInv, AdmittedAgree
  <2>3. CASE p = c /\ o \in loadOrgOverrides
    <3>1. Compatible(c, o)
      BY <1>1, <1>2, <1>9, <2>3 DEF TermsInv, AdmittedAgree
    <3>2. o \in Candidates
      BY <2>3 DEF TermsInv, TermsTyped, loadOrgOverrides
    <3>3. c.from \in Nat /\ c.to \in Nat /\ o.from \in Nat /\ o.to \in Nat
      BY <3>2, CandidateTypes
    <3> QED
      BY <2>3, <3>1, <3>3 DEF Compatible, overlaps
  <2> QED
    BY <1>8, <1>9, <2>1, <2>2, <2>3
<1>10. AdmittedAgree'
  <2>1. \A o, p : Compatible(o, p)' <=> Compatible(o, p)
    BY <1>1 DEF Compatible, Above
  <2>2. ~ shaken => PairsAgree(loadOrgOverrides)'
    BY <1>9, <2>1 DEF PairsAgree
  <2> QED
    BY <1>1, <1>4, <2>2 DEF AdmittedAgree
<1> QED
  BY <1>5, <1>6, <1>7, <1>10 DEF TermsInv

(* A request that is lost writes nothing.                                  *)
LEMMA AuthorLostInv ==
  ASSUME TermsInv, NEW h \in Authors, authorLost(h)
  PROVE  TermsInv'
<1>1. /\ UNCHANGED <<agreement, overrides, under, moving, shaken>>
      /\ writing' = [writing EXCEPT ![h] = Nothing]
  BY DEF authorLost
<1>2. \A k \in Authors : writing'[k] # Nothing => writing'[k] = writing[k]
  BY <1>1 DEF TermsInv, TermsTyped
<1>3. TermsTyped'
  BY <1>1 DEF TermsInv, TermsTyped
<1>4. OneAuthor' /\ RowsHaveAgreements'
  BY <1>1, <1>2 DEF TermsInv, OneAuthor, RowsHaveAgreements
<1>5. AdmittedAgree'
  BY <1>1, <1>2, FewerAgree DEF TermsInv, loadOrgOverrides
<1> QED
  BY <1>3, <1>4, <1>5 DEF TermsInv

(* A draft has no overrides yet.                                           *)
LEMMA CreateContractInv ==
  ASSUME TermsInv, NEW k \in Agreements, createContract(k)
  PROVE  TermsInv'
<1>1. /\ UNCHANGED <<overrides, under, writing, moving, shaken>>
      /\ agreement[k] = "none" /\ agreement' = [agreement EXCEPT ![k] = "draft"]
  BY DEF createContract
<1>2. /\ TermsTyped' /\ agreement'[k] = "draft"
      /\ \A j \in Agreements \ {k} : agreement'[j] = agreement[j]
  BY <1>1 DEF TermsInv, TermsTyped, IN_FORCE
<1>3. OneAuthor' /\ RowsHaveAgreements'
  <2>1. \A j : agreement[j] # "none" /\ j \in Agreements => agreement'[j] # "none"
    BY <1>2
  <2>2. \A o \in overrides : o.by \in Agreements
    BY CandidateTypes DEF TermsInv, TermsTyped
  <2>3. \A h \in Authors : writing[h] # Nothing => writing[h].row.by \in Agreements
    <3>1. \A h \in Authors : writing[h] # Nothing => writing[h].row \in Candidates
      BY DEF TermsInv, TermsTyped
    <3> QED
      BY <3>1, CandidateTypes
  <2>4. \A h \in Officers : moving[h] # Nothing => moving[h].of \in Agreements
    BY DEF TermsInv, TermsTyped
  <2> QED
    BY <1>1, <2>1, <2>2, <2>3, <2>4 DEF TermsInv, OneAuthor, RowsHaveAgreements
<1>4. \A o \in loadOrgOverrides' : o \in loadOrgOverrides
  <2>1. \A o \in overrides : o.by \in Agreements /\ o.by # k
    BY <1>1, CandidateTypes DEF TermsInv, TermsTyped, RowsHaveAgreements
  <2> QED
    BY <1>1, <1>2, <2>1 DEF loadOrgOverrides
<1>5. AdmittedAgree'
  BY <1>1, <1>4, FewerAgree DEF TermsInv
<1> QED
  BY <1>2, <1>3, <1>5 DEF TermsInv

(* To ask for a move writes nothing.                                       *)
LEMMA TransitionAskedInv ==
  ASSUME TermsInv, NEW h \in Officers, NEW k \in Agreements, NEW to \in IN_FORCE \cup Ended,
         transitionContractAsked(h, k, to)
  PROVE  TermsInv'
<1> DEFINE m == [op |-> "move", of |-> k, to |-> to]
<1>1. /\ UNCHANGED <<agreement, overrides, under, writing, shaken>>
      /\ moving' = [moving EXCEPT ![h] = m] /\ to \in NEXT_STATES[agreement[k]]
  BY DEF transitionContractAsked
<1>2. m \in [op : {"move"}, of : Agreements, to : IN_FORCE \cup Ended] /\ m.of = k
  OBVIOUS
<1>3. agreement[k] # "none"
  BY <1>1 DEF NEXT_STATES
<1> HIDE DEF m
<1>4. TermsTyped'
  BY <1>1, <1>2 DEF TermsInv, TermsTyped
<1>5. OneAuthor' /\ RowsHaveAgreements'
  BY <1>1, <1>2, <1>3 DEF TermsInv, TermsTyped, OneAuthor, RowsHaveAgreements
<1>6. AdmittedAgree'
  BY <1>1, FewerAgree DEF TermsInv, loadOrgOverrides
<1> QED
  BY <1>4, <1>5, <1>6 DEF TermsInv

(* Rows come into force again only by what is called shaken.               *)
LEMMA TransitionInv ==
  ASSUME TermsInv, NEW h \in Officers, transitionContract(h)
  PROVE  TermsInv'
<1>1. PICK k \in Agreements, to \in IN_FORCE \cup Ended :
        k = moving[h].of /\ to = moving[h].to
  BY DEF transitionContract, TermsInv, TermsTyped
<1>2. /\ UNCHANGED <<overrides, under, writing>> /\ moving[h] # Nothing
      /\ agreement' = [agreement EXCEPT ![k] = to]
      /\ shaken' = (shaken \/ (agreement[k] \in Ended /\ to \in IN_FORCE))
      /\ moving' = [moving EXCEPT ![h] = Nothing]
  BY <1>1 DEF transitionContract
<1>3. /\ agreement' \in [Agreements -> {"none"} \cup IN_FORCE \cup Ended]
      /\ agreement'[k] = to /\ \A j \in Agreements \ {k} : agreement'[j] = agreement[j]
  BY <1>2 DEF TermsInv, TermsTyped
<1>4. TermsTyped'
  BY <1>2, <1>3 DEF TermsInv, TermsTyped
<1>5. agreement[k] # "none"
  BY <1>1, <1>2 DEF TermsInv, RowsHaveAgreements
<1>6. OneAuthor' /\ RowsHaveAgreements'
  <2>1. \A j \in Agreements : agreement[j] # "none" => agreement'[j] # "none"
    BY <1>3 DEF IN_FORCE, Ended
  <2>2. \A o \in overrides : o.by \in Agreements
    BY CandidateTypes DEF TermsInv, TermsTyped
  <2>3. \A g \in Authors : writing[g] # Nothing => writing[g].row.by \in Agreements
    <3>1. \A g \in Authors : writing[g] # Nothing => writing[g].row \in Candidates
      BY DEF TermsInv, TermsTyped
    <3> QED
      BY <3>1, CandidateTypes
  <2>4. \A g \in Officers : moving'[g] # Nothing => moving'[g] = moving[g] /\ moving[g].of \in Agreements
    BY <1>2 DEF TermsInv, TermsTyped
  <2> QED
    BY <1>2, <2>1, <2>2, <2>3, <2>4 DEF TermsInv, OneAuthor, RowsHaveAgreements
<1>7. AdmittedAgree'
  <2>1. CASE shaken'
    BY <2>1 DEF AdmittedAgree
  <2>2. CASE ~ shaken'
    <3>1. ~ shaken /\ ~ (agreement[k] \in Ended /\ to \in IN_FORCE)
      BY <1>2, <2>2
    <3>2. shaken' = shaken
      <4>1. shaken \in BOOLEAN /\ shaken' \in BOOLEAN
        BY <1>4 DEF TermsInv, TermsTyped
      <4> QED
        BY <2>2, <3>1, <4>1
    <3>3. to \in IN_FORCE => agreement[k] \in IN_FORCE
      BY <1>5, <3>1 DEF TermsInv, TermsTyped
    <3>4. \A o \in loadOrgOverrides' : o \in loadOrgOverrides
      <4>1. \A o \in overrides : o.by \in Agreements
        BY CandidateTypes DEF TermsInv, TermsTyped
      <4> QED
        BY <1>2, <1>3, <3>3, <4>1 DEF loadOrgOverrides
    <3> QED
      BY <1>2, <3>2, <3>4, FewerAgree DEF TermsInv
  <2> QED
    BY <2>1, <2>2
<1> QED
  BY <1>4, <1>6, <1>7 DEF TermsInv

(* Every step keeps the standing rows in agreement.                        *)
LEMMA TermsNextInv == TermsInv /\ [TermsNext]_termVars => TermsInv'
<1> SUFFICES ASSUME TermsInv, [TermsNext]_termVars PROVE TermsInv'
  OBVIOUS
<1>1. ASSUME NEW h \in Authors, NEW c \in Candidates, authorTermOverride(h, c)
      PROVE  TermsInv'
  BY <1>1, AuthorInv
<1>2. ASSUME NEW h \in Authors, insertOverride(h)
      PROVE  TermsInv'
  BY <1>2, InsertInv
<1>3. ASSUME NEW h \in Authors, authorLost(h)
      PROVE  TermsInv'
  BY <1>3, AuthorLostInv
<1>4. ASSUME NEW k \in Agreements, createContract(k)
      PROVE  TermsInv'
  BY <1>4, CreateContractInv
<1>5. ASSUME NEW h \in Officers, NEW k \in Agreements, NEW to \in IN_FORCE \cup Ended,
             transitionContractAsked(h, k, to)
      PROVE  TermsInv'
  BY <1>5, TransitionAskedInv
<1>6. ASSUME NEW h \in Officers, transitionContract(h)
      PROVE  TermsInv'
  BY <1>6, TransitionInv
<1>7. ASSUME NEW l \in Locations, NEW r \in RegionNodes, moveLocation(l, r)
      PROVE  TermsInv'
  <2>1. /\ UNCHANGED <<agreement, overrides, writing, moving>>
        /\ under' = [under EXCEPT ![l] = r] /\ shaken' = TRUE
    BY <1>7 DEF moveLocation
  <2> QED
    BY <2>1 DEF TermsInv, TermsTyped, OneAuthor, RowsHaveAgreements, AdmittedAgree
<1>8. CASE UNCHANGED termVars
  <2>1. UNCHANGED <<agreement, overrides, under, writing, moving, shaken>>
    BY <1>8 DEF termVars
  <2>2. AdmittedAgree'
    BY <2>1, FewerAgree DEF TermsInv, loadOrgOverrides
  <2> QED
    BY <2>1, <2>2 DEF TermsInv, TermsTyped, OneAuthor, RowsHaveAgreements
<1> QED
  BY <1>1, <1>2, <1>3, <1>4, <1>5, <1>6, <1>7, <1>8 DEF TermsNext

(* What admission lets in resolves, at every node on every day, however    *)
(* many agreements, rows and authors there are.                            *)
THEOREM AdmissionIsEnough == TermsSpec => []AdmittedTermsResolve
<1>1. TermsInv => AdmittedTermsResolve
  <2>1. LastDate \in Nat /\ 1 .. LastDate \subseteq Nat
    BY TermsAssumption
  <2> QED
    BY <2>1, PairsResolve DEF TermsInv, AdmittedAgree, AdmittedTermsResolve
<1> QED
  BY TermsInitInv, TermsNextInv, <1>1, PTL DEF TermsSpec

-----------------------------------------------------------------------------
(***************************************************************************)
(* Hierarchy, for any number of requests at once.  A request that moves a  *)
(* node sees neither the child nor the job that another is writing under   *)
(* it, and the other does not see the move.  The tree has its ladder and   *)
(* its roots all the same (Rooted); its edges hold but for the nodes that  *)
(* were crossed (Edged), and its open jobs are in their sites' regions but *)
(* for the jobs that were (Staffed).                                       *)
(*                                                                         *)
(* What carries them is what the rows a request has written have to do     *)
(* with the tree they will be committed to, which others have changed      *)
(* since: they fit what was not committed beside them (Fits).              *)
(***************************************************************************)

NodeRow  == [parent : Accounts \cup {"none", "org"}, region : Areas \cup {"none"},
             path : SUBSET Accounts, active : BOOLEAN]
VisitRow == [site : Accounts \cup {"none"}, region : Areas \cup {"none"}, open : BOOLEAN]
AskRow   == [site : Accounts \cup {"none"}, region : Areas \cup {"none"},
             job : Visits \cup {"none"}]

HierTyped ==
  /\ account \in [Accounts -> NodeRow] /\ visit \in [Visits -> VisitRow]
  /\ ask \in [Asks -> AskRow] /\ DOMAIN edit = Editors

(* Every node is one rung below a node there is, and is in the region of   *)
(* the region node its path begins in.                                     *)
Rooted ==
  \A n \in Accounts : Exists(n) =>
    /\ n \in account[n].path
    /\ TierOf[n] = "region" => account[n].parent = "org" /\ account[n].path = {n}
    /\ TierOf[n] # "region" =>
         /\ account[n].parent \in Accounts /\ Exists(account[n].parent)
         /\ Ladder(n, account[n].parent) /\ account[n].parent \in account[n].path
    /\ \A r \in account[n].path : TierOf[r] = "region" =>
         Exists(r) /\ account[n].region = account[r].region

(* A node that was not crossed has its parent's region and path.           *)
Edged ==
  \A n \in Accounts : (Exists(n) /\ TierOf[n] # "region" /\ n \notin crossed) =>
    /\ account[n].region = account[account[n].parent].region
    /\ account[n].path = account[account[n].parent].path \cup {n}

(* Open jobs are at sites there are, and in their regions unless crossed.  *)
Staffed ==
  \A v \in Visits : visit[v].open =>
    /\ visit[v].site \in Accounts /\ Exists(visit[v].site)
    /\ v \notin crossed => visit[v].region = account[visit[v].site].region

AsksHaveSites ==
  \A q \in Asks : ask[q] # NoAsk => ask[q].site \in Accounts /\ Exists(ask[q].site)

TreeInv == Rooted /\ Edged /\ Staffed /\ AsksHaveSites

-----------------------------------------------------------------------------
(* An open job that no other request has touched since h began, at a site  *)
(* in step with its location.                                              *)
Settled(h, v) ==
  /\ visit[v].open /\ visit[v].site \notin crossed
  /\ v \notin beside[h] /\ visit[v].site \notin beside[h]

(* A move that has counted no open job it takes to another region.         *)
Counted(h) ==
  LET n == edit[h].node p == edit[h].parent IN
  p \notin beside[h] =>
    \A v \in Visits :
      LET s == visit[v].site IN
      (Settled(h, v) /\ (s = n \/ account[s].parent = n)) =>
        account[s].region = account[p].region

(* Each row written, by itself.                                            *)
RowFits(n, row) ==
  /\ row \in NodeRow /\ row.parent # "none" /\ n \in row.path
  /\ TierOf[n] = "region" => ~ Exists(n) /\ row.parent = "org" /\ row.path = {n}
  /\ TierOf[n] # "region" =>
       /\ row.parent \in Accounts /\ Ladder(n, row.parent) /\ row.parent \in row.path
       /\ \A r \in row.path : TierOf[r] = "region" =>
            Exists(r) /\ row.region = account[r].region

(* Each row and its parent, in the rows or in the tree.                    *)
EdgeFits(h, n) ==
  LET rows == edit[h].rows p == rows[n].parent IN
  TierOf[n] # "region" =>
    /\ p \in DOMAIN rows => /\ rows[n].region = rows[p].region
                            /\ rows[n].path = rows[p].path \cup {n}
    /\ p \notin DOMAIN rows =>
         /\ Exists(p)
         /\ p \notin beside[h] => /\ rows[n].region = account[p].region
                                  /\ rows[n].path = account[p].path \cup {n}

(* What a request has written, against what has been committed since.      *)
Fits(h) ==
  LET rows == edit[h].rows IN
  /\ DOMAIN rows \subseteq Accounts
  /\ \A n \in DOMAIN rows : RowFits(n, rows[n]) /\ EdgeFits(h, n)
  /\ \A m \in Accounts \ DOMAIN rows : account[m].parent \in DOMAIN rows => m \in beside[h]
  /\ UnderCrossed(h) = {} =>
       \A v \in Visits : LET s == visit[v].site IN
         (Settled(h, v) /\ s \in DOMAIN rows) => account[s].region = rows[s].region

(* What a request has decided on, or written.                              *)
Stands(h) ==
  /\ edit[h].op = "root" =>
       /\ edit[h].node \in Accounts /\ ~ Exists(edit[h].node)
       /\ edit[h].region \in Areas /\ TierOf[edit[h].node] = "region"
  /\ edit[h].op = "create" =>
       /\ edit[h].node \in Accounts /\ ~ Exists(edit[h].node)
       /\ edit[h].parent \in Accounts /\ Exists(edit[h].parent)
       /\ Ladder(edit[h].node, edit[h].parent)
  /\ edit[h].op = "move" =>
       /\ edit[h].node \in Accounts /\ Exists(edit[h].node)
       /\ edit[h].parent \in Accounts /\ Exists(edit[h].parent)
       /\ Ladder(edit[h].node, edit[h].parent) /\ Counted(h)
  /\ edit[h].op \in {"job", "ask", "answer"} =>
       /\ edit[h].site \in Accounts /\ Exists(edit[h].site)
       /\ edit[h].region \in Areas \cup {"none"}
  /\ edit[h].op = "answer" =>
       edit[h].ask \in Asks /\ ask[edit[h].ask] # NoAsk /\ edit[h].visit \in Visits
  /\ edit[h].op = "commit" => Fits(h)

(* The rows a request is about to write, as far as it keeps others away,   *)
(* and those it has written.                                               *)
Taken(h) == IF edit[h].op \in {"root", "create"} THEN {edit[h].node} ELSE Held(h)

Apart == \A h, k \in Editors : h # k => Taken(h) \cap Taken(k) = {}

HierInv == HierTyped /\ TreeInv /\ Apart /\ \A h \in Editors : Stands(h)

-----------------------------------------------------------------------------
(* The rows stand while others commit what they have not locked.           *)
LEMMA FitsOn ==
  ASSUME NEW h \in Editors, edit[h].op = "commit", Fits(h), NEW done,
         edit'[h] = edit[h], beside'[h] = beside[h] \cup done,
         \A n \in Accounts : n \notin done =>
           /\ account'[n].parent = account[n].parent /\ account'[n].path = account[n].path
           /\ account'[n].region = account[n].region,
         \A n \in Accounts : Exists(n) => Exists(n)',
         \A n \in Accounts : (Exists(n) /\ TierOf[n] = "region") =>
           account'[n].region = account[n].region,
         \A n \in Accounts \cap Held(h) : ~ Exists(n) => ~ Exists(n)',
         \A v \in Visits : (visit'[v].open /\ v \notin done) =>
           visit[v].open /\ visit'[v].site = visit[v].site,
         \A v \in Visits : visit'[v].open => visit'[v].site \in Accounts,
         \A x : x \notin crossed' => x \notin crossed \/ x \in done
  PROVE  Fits(h)'
<1> DEFINE rows == edit[h].rows
<1>1. DOMAIN rows \subseteq Accounts /\ edit'[h].rows = rows
  BY DEF Fits
<1>2. Held(h) = DOMAIN rows /\ Held(h)' = DOMAIN rows
  BY DEF Held
<1>3. ASSUME NEW n \in DOMAIN rows
      PROVE  RowFits(n, rows[n])'
  <2>1. RowFits(n, rows[n])
    BY DEF Fits
  <2>2. rows[n].path \subseteq Accounts
    BY <2>1 DEF RowFits, NodeRow
  <2>3. \A r \in rows[n].path : (Exists(r) /\ TierOf[r] = "region") =>
          Exists(r)' /\ account'[r].region = account[r].region
    BY <2>2
  <2>4. ~ Exists(n) => ~ Exists(n)'
    BY <1>1, <1>2
  <2>5. rows[n] \in NodeRow => (rows[n] \in NodeRow)'
    BY <1>1 DEF NodeRow
  <2> QED
    BY <1>1, <2>1, <2>3, <2>4, <2>5 DEF RowFits
<1>4. ASSUME NEW n \in DOMAIN rows
      PROVE  EdgeFits(h, n)'
  <2>1. RowFits(n, rows[n]) /\ EdgeFits(h, n)
    BY DEF Fits
  <2>2. TierOf[n] # "region" => rows[n].parent \in Accounts
    BY <2>1 DEF RowFits
  <2> QED
    BY <1>1, <2>1, <2>2 DEF EdgeFits
<1>5. \A m \in Accounts \ DOMAIN rows : account'[m].parent \in DOMAIN rows => m \in beside'[h]
  BY DEF Fits
<1>6. ASSUME UnderCrossed(h)' = {}, NEW v \in Visits, Settled(h, v)',
             visit'[v].site \in DOMAIN rows
      PROVE  account'[visit'[v].site].region = rows[visit'[v].site].region
  <2>1. UnderCrossed(h) = {}
    BY <1>1, <1>2, <1>6 DEF UnderCrossed
  <2>2. v \notin done /\ visit'[v].site \notin done
    BY <1>6 DEF Settled
  <2>3. visit[v].open /\ visit'[v].site = visit[v].site
    BY <1>6, <2>2 DEF Settled
  <2>4. Settled(h, v)
    BY <1>6, <2>2, <2>3 DEF Settled
  <2>5. account[visit[v].site].region = rows[visit[v].site].region
    BY <1>6, <2>1, <2>3, <2>4 DEF Fits
  <2> QED
    BY <1>1, <1>6, <2>2, <2>3, <2>5
<1> QED
  BY <1>1, <1>3, <1>4, <1>5, <1>6 DEF Fits

(* And so does what a request has decided on.                              *)
LEMMA StandsOn ==
  ASSUME NEW h \in Editors, Stands(h), NEW done, edit'[h] = edit[h],
         edit[h].op \in {"move", "commit"} => beside'[h] = beside[h] \cup done,
         \A n \in Accounts : n \notin done =>
           /\ account'[n].parent = account[n].parent /\ account'[n].path = account[n].path
           /\ account'[n].region = account[n].region,
         \A n \in Accounts : Exists(n) => Exists(n)',
         \A n \in Accounts : (Exists(n) /\ TierOf[n] = "region") =>
           account'[n].region = account[n].region,
         \A n \in Accounts \cap Taken(h) : ~ Exists(n) => ~ Exists(n)',
         \A v \in Visits : (visit'[v].open /\ v \notin done) =>
           visit[v].open /\ visit'[v].site = visit[v].site,
         \A v \in Visits : visit'[v].open => visit'[v].site \in Accounts,
         \A x : x \notin crossed' => x \notin crossed \/ x \in done,
         \A q \in Asks : ask[q] # NoAsk => ask'[q] # NoAsk
  PROVE  Stands(h)'
<1>1. CASE edit[h].op = "move"
  <2> DEFINE n == edit[h].node
             p == edit[h].parent
  <2>1. n \in Accounts /\ Exists(n) /\ p \in Accounts /\ Exists(p) /\ Ladder(n, p) /\ Counted(h)
    BY <1>1 DEF Stands
  <2>2. ASSUME p \notin beside'[h], NEW v \in Visits, Settled(h, v)',
               visit'[v].site = n \/ account'[visit'[v].site].parent = n
        PROVE  account'[visit'[v].site].region = account'[p].region
    <3>1. p \notin done /\ p \notin beside[h] /\ v \notin done /\ visit'[v].site \notin done
      BY <1>1, <2>2 DEF Settled
    <3>2. visit[v].open /\ visit'[v].site = visit[v].site /\ visit[v].site \in Accounts
      BY <2>2, <3>1 DEF Settled
    <3>3. Settled(h, v)
      BY <1>1, <2>2, <3>1, <3>2 DEF Settled
    <3>4. account[visit[v].site].region = account[p].region
      BY <2>1, <2>2, <3>1, <3>2, <3>3 DEF Counted
    <3> QED
      BY <2>1, <3>1, <3>2, <3>4
  <2>3. Counted(h)'
    BY <2>2 DEF Counted
  <2>4. Exists(n)' /\ Exists(p)'
    BY <2>1
  <2> QED
    BY <1>1, <2>1, <2>3, <2>4 DEF Stands, Ladder
<1>2. CASE edit[h].op = "commit"
  <2>1. Fits(h) /\ Taken(h) = Held(h)
    BY <1>2 DEF Stands, Taken
  <2>2. Fits(h)'
    BY <1>2, <2>1, FitsOn
  <2> QED
    BY <1>2, <2>2 DEF Stands
<1>3. CASE edit[h].op \in {"root", "create"}
  BY <1>3 DEF Stands, Taken, Ladder
<1>4. CASE edit[h].op \notin {"root", "create", "move", "commit"}
  BY <1>4 DEF Stands
<1> QED
  BY <1>1, <1>2, <1>3, <1>4

-----------------------------------------------------------------------------
(* A request at rest stands.                                               *)
LEMMA RestStands ==
  ASSUME NEW h \in Editors, edit[h] = AtRest
  PROVE  Stands(h) /\ Taken(h) = {}
BY DEF Stands, AtRest, Taken, Held

(* A step that changes no edge, region or path and opens nothing.          *)
LEMMA SameTreeInv ==
  ASSUME HierInv, account' \in [Accounts -> NodeRow], visit' \in [Visits -> VisitRow],
         UNCHANGED <<ask, edit, beside, crossed>>,
         \A n \in Accounts :
           /\ account'[n].parent = account[n].parent /\ account'[n].path = account[n].path
           /\ account'[n].region = account[n].region,
         \A v \in Visits : /\ visit'[v].site = visit[v].site
                           /\ visit'[v].region = visit[v].region
                           /\ visit'[v].open => visit[v].open
  PROVE  HierInv'
<1>1. \A n \in Accounts : Exists(n)' <=> Exists(n)
  BY DEF Exists
<1>2. Rooted'
  <2>1. \A n \in Accounts : account[n].path \subseteq Accounts
    BY DEF HierInv, HierTyped, NodeRow
  <2> QED
    BY <1>1, <2>1 DEF HierInv, TreeInv, Rooted
<1>3. Edged'
  BY <1>1 DEF HierInv, TreeInv, Rooted, Edged
<1>4. Staffed' /\ AsksHaveSites'
  BY <1>1 DEF HierInv, TreeInv, Staffed, AsksHaveSites
<1>5. Apart'
  BY DEF HierInv, Apart, Taken, Held
<1>6. ASSUME NEW h \in Editors
      PROVE  Stands(h)'
  <2>1. beside'[h] = beside[h] \cup {} /\ Stands(h)
    BY DEF HierInv
  <2>2. \A v \in Visits : visit'[v].open => visit'[v].site \in Accounts
    BY DEF HierInv, TreeInv, Staffed
  <2> QED
    BY <1>1, <2>1, <2>2, StandsOn
<1>7. HierTyped'
  BY DEF HierInv, HierTyped
<1> QED
  BY <1>2, <1>3, <1>4, <1>5, <1>6, <1>7 DEF HierInv, TreeInv

(* To activate or deactivate a node moves nothing.                         *)
LEMMA UpdateAccountInv ==
  ASSUME HierInv, NEW n \in Accounts, NEW active \in BOOLEAN, updateAccount(n, active)
  PROVE  HierInv'
<1>1. /\ account' = [account EXCEPT ![n].active = active]
      /\ UNCHANGED <<visit, ask, edit, beside, crossed>>
  BY DEF updateAccount
<1>2. account \in [Accounts -> NodeRow] /\ visit \in [Visits -> VisitRow]
  BY DEF HierInv, HierTyped
<1>3. /\ account' \in [Accounts -> NodeRow]
      /\ \A m \in Accounts :
           /\ account'[m].parent = account[m].parent /\ account'[m].path = account[m].path
           /\ account'[m].region = account[m].region
  BY <1>1, <1>2 DEF NodeRow
<1> QED
  BY <1>1, <1>2, <1>3, SameTreeInv

(* A job that is closed is in nobody's way.                                *)
LEMMA CloseVisitInv ==
  ASSUME HierInv, NEW v \in Visits, closeVisit(v)
  PROVE  HierInv'
<1>1. /\ visit' = [visit EXCEPT ![v].open = FALSE]
      /\ UNCHANGED <<account, ask, edit, beside, crossed>>
  BY DEF closeVisit
<1>2. account \in [Accounts -> NodeRow] /\ visit \in [Visits -> VisitRow]
  BY DEF HierInv, HierTyped
<1>3. /\ visit' \in [Visits -> VisitRow]
      /\ \A u \in Visits : /\ visit'[u].site = visit[u].site
                           /\ visit'[u].region = visit[u].region
                           /\ visit'[u].open => visit[u].open
  BY <1>1, <1>2 DEF VisitRow
<1> QED
  BY <1>1, <1>2, <1>3, SameTreeInv

-----------------------------------------------------------------------------
(* A request decides, or writes; the tables are as they were, so that what *)
(* the others have decided or written stands.                              *)
LEMMA AsideInv ==
  ASSUME HierInv, NEW h \in Editors, NEW e, edit' = [edit EXCEPT ![h] = e],
         UNCHANGED <<hierTables, beside>>, Stands(h)',
         \A k \in Editors \ {h} : Taken(h)' \cap Taken(k) = {}
  PROVE  HierInv'
<1>1. UNCHANGED <<area, account, visit, ask, crossed, beside>>
  BY DEF hierTables
<1>2. DOMAIN edit' = Editors /\ \A k \in Editors \ {h} : edit'[k] = edit[k]
  BY DEF HierInv, HierTyped
<1>3. HierTyped' /\ TreeInv'
  BY <1>1, <1>2 DEF HierInv, HierTyped, TreeInv, Rooted, Edged, Staffed, AsksHaveSites, Exists
<1>4. \A k \in Editors \ {h} : Taken(k)' = Taken(k)
  BY <1>2 DEF Taken, Held
<1>5. Apart'
  BY <1>4 DEF HierInv, Apart
<1>6. ASSUME NEW k \in Editors \ {h}
      PROVE  Stands(k)'
  <2>1. Stands(k) /\ edit'[k] = edit[k] /\ beside'[k] = beside[k] \cup {}
    BY <1>1, <1>2 DEF HierInv
  <2>2. \A n : Exists(n)' <=> Exists(n)
    BY <1>1 DEF Exists
  <2>3. \A v \in Visits : visit'[v].open => visit'[v].site \in Accounts
    BY <1>1 DEF HierInv, TreeInv, Staffed
  <2> QED
    BY <1>1, <2>1, <2>2, <2>3, StandsOn
<1>7. \A k \in Editors : Stands(k)'
  BY <1>6
<1> QED
  BY <1>3, <1>5, <1>7 DEF HierInv

(* A request that ends with nothing in the tree committed.                 *)
LEMMA RestsInv ==
  ASSUME HierInv, NEW h \in Editors, NEW done, Rests(h, done),
         UNCHANGED <<account, crossed>>,
         visit' \in [Visits -> VisitRow], ask' \in [Asks -> AskRow],
         Staffed', AsksHaveSites', \A q \in Asks : ask[q] # NoAsk => ask'[q] # NoAsk,
         \A v \in Visits : (visit'[v].open /\ v \notin done) =>
           visit[v].open /\ visit'[v].site = visit[v].site
  PROVE  HierInv'
<1>1. /\ DOMAIN edit' = Editors /\ edit'[h] = AtRest
      /\ \A k \in Editors \ {h} : edit'[k] = edit[k]
  BY DEF HierInv, HierTyped, Rests
<1>2. \A k \in Editors \ {h} : edit[k].op \in {"move", "commit"} =>
        beside'[k] = beside[k] \cup done
  BY DEF Rests
<1>3. HierTyped' /\ Rooted' /\ Edged'
  BY <1>1 DEF HierInv, HierTyped, TreeInv, Rooted, Edged, Exists
<1>4. Stands(h)' /\ Taken(h)' = {}
  BY <1>1 DEF Stands, AtRest, Taken, Held
<1>5. \A k \in Editors \ {h} : Taken(k)' = Taken(k)
  BY <1>1 DEF Taken, Held
<1>6. Apart'
  BY <1>4, <1>5 DEF HierInv, Apart
<1>7. ASSUME NEW k \in Editors \ {h}
      PROVE  Stands(k)'
  <2>1. Stands(k) /\ edit'[k] = edit[k]
    BY <1>1 DEF HierInv
  <2>2. \A n : Exists(n)' <=> Exists(n)
    BY DEF Exists
  <2>3. \A v \in Visits : visit'[v].open => visit'[v].site \in Accounts
    BY DEF Staffed
  <2> QED
    BY <1>2, <2>1, <2>2, <2>3, StandsOn
<1>8. \A k \in Editors : Stands(k)'
  BY <1>4, <1>7
<1> QED
  BY <1>3, <1>6, <1>8 DEF HierInv, TreeInv

-----------------------------------------------------------------------------
(* Rows are written that fit, and that no other request holds.             *)
LEMMA WritesInv ==
  ASSUME HierInv, NEW h \in Editors, NEW rows, Writes(h, rows), Fits(h)',
         \A k \in Editors \ {h} : edit[k].op \in {"root", "create"} =>
           edit[k].node \notin DOMAIN rows
  PROVE  HierInv'
<1> DEFINE e == [op |-> "commit", rows |-> rows]
<1>1. /\ edit' = [edit EXCEPT ![h] = e] /\ UNCHANGED <<hierTables, beside>>
      /\ \A k \in Editors \ {h} : Held(k) \cap DOMAIN rows = {}
  BY DEF Writes
<1>2. edit'[h] = e
  BY <1>1 DEF HierInv, HierTyped
<1>3. Stands(h)'
  BY <1>2 DEF Stands
<1>4. Taken(h)' = DOMAIN rows
  BY <1>2 DEF Taken, Held
<1>5. \A k \in Editors \ {h} : Taken(h)' \cap Taken(k) = {}
  BY <1>1, <1>4 DEF Taken
<1> QED
  BY <1>1, <1>3, <1>5, AsideInv

(* A new node under one that stays, or at the top.                         *)
LEMMA NewNodeInv ==
  ASSUME HierInv, NEW h \in Editors, NEW n \in Accounts, ~ Exists(n), n = edit[h].node,
         edit[h].op \in {"root", "create"}, NEW row \in NodeRow, row.parent # "none",
         NEW rows, Writes(h, rows),
         DOMAIN rows \subseteq {n}, \A x \in DOMAIN rows : rows[x] = row,
         TierOf[n] = "region" => row.parent = "org" /\ row.path = {n},
         TierOf[n] # "region" =>
           /\ row.parent \in Accounts /\ Exists(row.parent) /\ Ladder(n, row.parent)
           /\ row.region = account[row.parent].region
           /\ row.path = account[row.parent].path \cup {n}
  PROVE  HierInv'
<1>1. /\ edit'[h].op = "commit" /\ edit'[h].rows = rows
      /\ UNCHANGED <<account, visit, ask, beside, crossed>>
  BY DEF Writes, hierTables, HierInv, HierTyped
<1>2. \A m : Exists(m)' <=> Exists(m)
  BY <1>1 DEF Exists
<1>3. ASSUME NEW x \in DOMAIN rows
      PROVE  RowFits(x, rows[x])' /\ EdgeFits(h, x)'
  <2>1. x = n /\ rows[x] = row
    OBVIOUS
  <2>2. (row \in NodeRow)'
    BY DEF NodeRow
  <2>3. TierOf[n] # "region" => /\ row.parent \in account[row.parent].path
                                /\ \A r \in account[row.parent].path : TierOf[r] = "region" =>
                                     Exists(r) /\ account[row.parent].region = account[r].region
    BY DEF HierInv, TreeInv, Rooted
  <2>4. n \in row.path /\ TierOf[n] # "region" => row.parent \in row.path
    BY <2>3
  <2>5. TierOf[n] # "region" => \A r \in row.path : TierOf[r] = "region" =>
          Exists(r) /\ row.region = account[r].region
    BY <2>3
  <2>6. RowFits(x, rows[x])'
    BY <1>1, <1>2, <2>1, <2>2, <2>4, <2>5 DEF RowFits
  <2>7. EdgeFits(h, x)'
    BY <1>1, <1>2, <2>1 DEF EdgeFits
  <2> QED
    BY <2>6, <2>7
<1>4. \A m \in Accounts : account[m].parent # n
  <2>1. "none" \notin Accounts /\ "org" \notin Accounts
    BY HierarchyAssumption
  <2>2. ASSUME NEW m \in Accounts, account[m].parent = n
        PROVE  FALSE
    <3>1. Exists(m)
      BY <2>1, <2>2 DEF Exists
    <3> QED
      BY <2>1, <2>2, <3>1 DEF HierInv, TreeInv, Rooted
  <2> QED
    BY <2>2
<1>5. \A v \in Visits : visit[v].open => visit[v].site # n
  BY DEF HierInv, TreeInv, Staffed
<1>6. Fits(h)'
  <2>1. \A v \in Visits : Settled(h, v)' => visit'[v].site \notin DOMAIN rows
    BY <1>1, <1>5 DEF Settled
  <2> QED
    BY <1>1, <1>3, <1>4, <2>1 DEF Fits
<1>7. \A k \in Editors \ {h} : edit[k].op \in {"root", "create"} => edit[k].node # n
  BY DEF HierInv, Apart, Taken
<1> QED
  BY <1>6, <1>7, WritesInv

(* A region's node is a root of its own.                                   *)
LEMMA CreateRegionInv ==
  ASSUME HierInv, NEW h \in Editors, createRegionNode(h)
  PROVE  HierInv'
<1>1. PICK n \in Accounts, r \in Areas :
        /\ n = edit[h].node /\ r = edit[h].region /\ ~ Exists(n) /\ TierOf[n] = "region"
  BY DEF createRegionNode, HierInv, Stands
<1> DEFINE row  == [parent |-> "org", region |-> r, path |-> {n}, active |-> TRUE]
           rows == [x \in {y \in {n} : activeRegion(r)} |-> row]
<1>2. Writes(h, rows) /\ edit[h].op = "root"
  BY <1>1 DEF createRegionNode
<1>3. row \in NodeRow /\ row.parent = "org" /\ row.path = {n}
  BY DEF NodeRow
<1>4. DOMAIN rows \subseteq {n} /\ \A x \in DOMAIN rows : rows[x] = row
  OBVIOUS
<1> HIDE DEF row, rows
<1> QED
  BY <1>1, <1>2, <1>3, <1>4, NewNodeInv

(* A node is created in its parent's region.                               *)
LEMMA CreateAccountInv ==
  ASSUME HierInv, NEW h \in Editors, createAccount(h)
  PROVE  HierInv'
<1>1. PICK n \in Accounts, p \in Accounts :
        /\ n = edit[h].node /\ p = edit[h].parent /\ ~ Exists(n) /\ Exists(p) /\ Ladder(n, p)
  BY DEF createAccount, HierInv, Stands
<1> DEFINE row  == [parent |-> p, region |-> account[p].region,
                    path |-> account[p].path \cup {n}, active |-> TRUE]
           rows == [x \in {y \in {n} : edit[h].region = account[p].region} |-> row]
<1>2. Writes(h, rows) /\ edit[h].op = "create"
  BY <1>1 DEF createAccount
<1>3. /\ row \in NodeRow /\ row.parent = p /\ row.region = account[p].region
      /\ row.path = account[p].path \cup {n}
  <2>1. account[p] \in NodeRow
    BY DEF HierInv, HierTyped
  <2> QED
    BY <2>1 DEF NodeRow
<1>4. DOMAIN rows \subseteq {n} /\ \A x \in DOMAIN rows : rows[x] = row
  OBVIOUS
<1>5. p # "none" /\ TierOf[n] # "region"
  BY <1>1, HierarchyAssumption DEF Ladder
<1> HIDE DEF row, rows
<1> QED
  BY <1>1, <1>2, <1>3, <1>4, <1>5, NewNodeInv

(* A node that moves takes along the children it sees, and no open job     *)
(* that it has seen.                                                       *)
LEMMA MoveInv ==
  ASSUME HierInv, NEW h \in Editors, moveAccount(h)
  PROVE  HierInv'
<1>0. edit[h].op = "move"
  BY Zenon DEF moveAccount
<1>1. PICK n \in Accounts, p \in Accounts :
        /\ n = edit[h].node /\ p = edit[h].parent
        /\ Exists(n) /\ Exists(p) /\ Ladder(n, p) /\ Counted(h)
  BY <1>0 DEF HierInv, Stands
<1>2. Cascade(n) = {n} \cup {m \in Accounts : account[m].parent = n}
  BY DEF Cascade
<1>3. PICK rows :
        /\ Writes(h, rows) /\ DOMAIN rows = Cascade(n)
        /\ \A m \in Cascade(n) :
             /\ rows[m] \in NodeRow
             /\ rows[m].parent = IF m = n THEN p ELSE account[m].parent
             /\ rows[m].region = account[p].region
             /\ rows[m].path = (account[p].path \cup {n}) \cup {m}
  <2> DEFINE row(m) == [account[m] EXCEPT
                          !.parent = IF m = n THEN p ELSE @,
                          !.region = account[p].region,
                          !.path = (account[p].path \cup {n}) \cup {m}]
             rows == [m \in Cascade(n) |-> row(m)]
  <2>0. edit[h].node = n /\ edit[h].parent = p
    BY <1>1
  <2>1. Writes(h, rows)
    BY <2>0, Zenon DEF moveAccount
  <2>2. \A m \in Accounts : account[m] \in NodeRow
    BY DEF HierInv, HierTyped
  <2>3. ASSUME NEW m \in Accounts
        PROVE  /\ row(m) \in NodeRow
               /\ row(m).parent = IF m = n THEN p ELSE account[m].parent
               /\ row(m).region = account[p].region
               /\ row(m).path = (account[p].path \cup {n}) \cup {m}
    BY <2>2 DEF NodeRow
  <2>4. DOMAIN rows = Cascade(n) /\ \A m \in Cascade(n) : rows[m] = row(m)
    OBVIOUS
  <2> HIDE DEF row, rows
  <2>5. \A m \in Cascade(n) :
          /\ rows[m] \in NodeRow
          /\ rows[m].parent = IF m = n THEN p ELSE account[m].parent
          /\ rows[m].region = account[p].region
          /\ rows[m].path = (account[p].path \cup {n}) \cup {m}
    BY <1>2, <2>3, <2>4
  <2> QED
    BY <2>1, <2>4, <2>5
<1>4. /\ edit'[h].op = "commit" /\ edit'[h].rows = rows
      /\ UNCHANGED <<account, visit, ask, beside, crossed>>
  BY <1>3 DEF Writes, hierTables, HierInv, HierTyped
<1>5. \A m : Exists(m)' <=> Exists(m)
  BY <1>4 DEF Exists
<1>6. Rooted /\ "none" \notin Accounts /\ "org" \notin Accounts
  BY HierarchyAssumption DEF HierInv, TreeInv
<1>7. TierOf[n] # "region" /\ n # p
  BY <1>1 DEF Ladder
<1>8. \A m \in Accounts : account[m].parent \in Accounts =>
         Exists(m) /\ TierOf[m] # "region" /\ Ladder(m, account[m].parent)
  BY <1>6 DEF Rooted, Exists
<1>9. p \notin Cascade(n)
  BY <1>1, <1>2, <1>7, <1>8 DEF Ladder
<1>10. \A m \in Cascade(n) : m \in Accounts /\ Exists(m) /\ TierOf[m] # "region"
  BY <1>1, <1>2, <1>7, <1>8
<1>11. /\ p \in account[p].path
       /\ \A r \in account[p].path : TierOf[r] = "region" =>
            Exists(r) /\ account[p].region = account[r].region
  BY <1>1, <1>6 DEF Rooted
<1>12. ASSUME NEW m \in DOMAIN rows
       PROVE  RowFits(m, rows[m])' /\ EdgeFits(h, m)'
  <2>1. /\ m \in Cascade(n) /\ m \in Accounts /\ Exists(m) /\ TierOf[m] # "region"
    BY <1>3, <1>10
  <2>2. (rows[m] \in NodeRow)'
    BY <1>3, <2>1 DEF NodeRow
  <2>3. rows[m].region = account[p].region /\ rows[m].path = (account[p].path \cup {n}) \cup {m}
    BY <1>3, <2>1
  <2>4. \A r \in rows[m].path : TierOf[r] = "region" =>
          Exists(r) /\ rows[m].region = account[r].region
    BY <1>7, <1>11, <2>1, <2>3
  <2>5. \/ m = n /\ rows[m].parent = p
        \/ m # n /\ account[m].parent = n /\ rows[m].parent = n
    BY <1>2, <1>3, <2>1
  <2>6. Ladder(m, rows[m].parent) /\ rows[m].parent \in Accounts /\ rows[m].parent \in rows[m].path
    BY <1>1, <1>8, <1>11, <2>1, <2>3, <2>5
  <2>7. RowFits(m, rows[m])'
    BY <1>4, <1>5, <1>6, <2>1, <2>2, <2>3, <2>4, <2>6 DEF RowFits
  <2>8. CASE m = n /\ rows[m].parent = p
    <3>1. p \notin DOMAIN rows
      BY <1>3, <1>9
    <3> QED
      BY <1>1, <1>4, <1>5, <2>3, <2>7, <2>8, <3>1 DEF EdgeFits
  <2>9. CASE m # n /\ rows[m].parent = n
    <3>1. /\ n \in DOMAIN rows /\ rows[n].region = account[p].region
          /\ rows[n].path = (account[p].path \cup {n}) \cup {n}
      BY <1>2, <1>3
    <3> QED
      BY <1>4, <2>3, <2>7, <2>9, <3>1 DEF EdgeFits
  <2> QED
    BY <2>5, <2>7, <2>8, <2>9
<1>13. \A m \in Accounts \ DOMAIN rows : account[m].parent \notin DOMAIN rows
  <2>1. ASSUME NEW m \in Accounts, m \notin Cascade(n), account[m].parent \in Cascade(n)
        PROVE  FALSE
    <3>1. PICK c \in Accounts : c = account[m].parent /\ c # n /\ account[c].parent = n
      BY <1>2, <2>1
    <3>2. Ladder(m, c) /\ Ladder(c, n)
      BY <1>8, <3>1
    <3> QED
      BY <1>7, <3>2 DEF Ladder
  <2> QED
    BY <1>3, <2>1
<1>14. ASSUME UnderCrossed(h)' = {}, NEW v \in Visits, Settled(h, v)',
              visit'[v].site \in DOMAIN rows
       PROVE  account'[visit'[v].site].region = rows[visit'[v].site].region
  <2>1. PICK s \in Accounts : s = visit[v].site /\ s \in Cascade(n) /\ Settled(h, v)
    BY <1>3, <1>4, <1>10, <1>14 DEF Settled
  <2>2. p \notin beside[h]
    <3>1. Held(h)' = DOMAIN rows
      BY <1>4 DEF Held
    <3>2. n \in DOMAIN rows /\ rows[n].parent = p /\ p \notin DOMAIN rows
      BY <1>2, <1>3, <1>9
    <3> QED
      BY <1>4, <1>14, <3>1, <3>2 DEF UnderCrossed
  <2>3. account[s].region = account[p].region
    BY <1>1, <1>2, <2>1, <2>2 DEF Counted
  <2>4. rows[s].region = account[p].region
    BY <1>3, <2>1
  <2> QED
    BY <1>4, <2>1, <2>3, <2>4
<1>15. DOMAIN rows \subseteq Accounts
  BY <1>3, <1>10
<1>16. Fits(h)'
  BY <1>4, <1>12, <1>13, <1>14, <1>15 DEF Fits
<1>17. \A k \in Editors \ {h} : edit[k].op \in {"root", "create"} =>
         edit[k].node \notin DOMAIN rows
  BY <1>3, <1>10 DEF HierInv, Stands
<1> QED
  BY <1>3, <1>16, <1>17, WritesInv

-----------------------------------------------------------------------------
(* What is committed is rooted, as what was written was.                   *)
LEMMA CommitRooted ==
  ASSUME HierInv, NEW h \in Editors, hierCommit(h)
  PROVE  Rooted' /\ \A n \in Accounts : Exists(n) => Exists(n)'
<1>1. PICK rows : rows = edit[h].rows /\ Held(h) = DOMAIN rows
  BY DEF hierCommit, Held
<1>2. Fits(h)
  BY DEF hierCommit, HierInv, Stands
<1>3. /\ DOMAIN rows \subseteq Accounts
      /\ \A n \in DOMAIN rows : RowFits(n, rows[n]) /\ EdgeFits(h, n)
  BY <1>1, <1>2 DEF Fits
<1>4. \A n \in Accounts : account'[n] = IF n \in DOMAIN rows THEN rows[n] ELSE account[n]
  BY <1>1 DEF hierCommit
<1>5. \A n \in Accounts : Exists(n) => Exists(n)'
  BY <1>3, <1>4 DEF Exists, RowFits
<1>6. \A r \in Accounts : (Exists(r) /\ TierOf[r] = "region") =>
        Exists(r)' /\ account'[r].region = account[r].region
  BY <1>3, <1>4, <1>5 DEF RowFits
<1>7. ASSUME NEW n \in Accounts, Exists(n)'
      PROVE  /\ n \in account'[n].path
             /\ TierOf[n] = "region" => account'[n].parent = "org" /\ account'[n].path = {n}
             /\ TierOf[n] # "region" =>
                  /\ account'[n].parent \in Accounts
                  /\ account'[account'[n].parent].parent # "none"
                  /\ Ladder(n, account'[n].parent) /\ account'[n].parent \in account'[n].path
             /\ \A r \in account'[n].path : TierOf[r] = "region" =>
                  Exists(r)' /\ account'[n].region = account'[r].region
  <2>1. CASE n \in DOMAIN rows
    <3>1. account'[n] = rows[n] /\ RowFits(n, rows[n]) /\ EdgeFits(h, n)
      BY <1>3, <1>4, <2>1
    <3>2. rows[n].path \subseteq Accounts
      BY <3>1 DEF RowFits, NodeRow
    <3>3. TierOf[n] # "region" => rows[n].parent \in Accounts /\ Exists(rows[n].parent)'
      <4>1. CASE rows[n].parent \in DOMAIN rows
        BY <1>3, <1>4, <4>1 DEF RowFits, Exists
      <4>2. CASE rows[n].parent \notin DOMAIN rows
        <5>1. TierOf[n] # "region" => rows[n].parent \in Accounts /\ Exists(rows[n].parent)
          BY <1>1, <3>1, <4>2 DEF RowFits, EdgeFits
        <5> QED
          BY <1>5, <5>1
      <4> QED
        BY <4>1, <4>2
    <3>4. CASE TierOf[n] = "region"
      BY <1>7, <3>1, <3>4 DEF RowFits
    <3>5. CASE TierOf[n] # "region"
      <4>1. \A r \in rows[n].path : TierOf[r] = "region" =>
              Exists(r)' /\ rows[n].region = account'[r].region
        BY <1>6, <3>1, <3>2, <3>5 DEF RowFits
      <4> QED
        BY <3>1, <3>3, <3>5, <4>1 DEF RowFits, Exists
    <3> QED
      BY <3>4, <3>5
  <2>2. CASE n \notin DOMAIN rows
    <3>1. account'[n] = account[n] /\ Exists(n)
      BY <1>4, <1>7, <2>2 DEF Exists
    <3>2. account[n].path \subseteq Accounts
      BY DEF HierInv, HierTyped, NodeRow
    <3>3. TierOf[n] # "region" => /\ account'[n].parent \in Accounts
                                  /\ account'[account'[n].parent].parent # "none"
      BY <1>5, <3>1 DEF HierInv, TreeInv, Rooted, Exists
    <3> QED
      BY <1>6, <3>1, <3>2, <3>3 DEF HierInv, TreeInv, Rooted, Exists
  <2> QED
    BY <2>1, <2>2
<1> QED
  BY <1>5, <1>7 DEF Rooted, Exists

(* An edge that is committed is right, unless it was crossed: its parent   *)
(* was committed after the node was written, or the node after its         *)
(* parent's children were looked for.                                      *)
LEMMA CommitEdged ==
  ASSUME HierInv, NEW h \in Editors, hierCommit(h)
  PROVE  Edged'
<1>1. PICK rows : rows = edit[h].rows /\ Held(h) = DOMAIN rows
  BY DEF hierCommit, Held
<1>2. Fits(h)
  BY DEF hierCommit, HierInv, Stands
<1>3. /\ DOMAIN rows \subseteq Accounts
      /\ \A n \in DOMAIN rows : RowFits(n, rows[n]) /\ EdgeFits(h, n)
      /\ \A m \in Accounts \ DOMAIN rows : account[m].parent \in DOMAIN rows => m \in beside[h]
  BY <1>1, <1>2 DEF Fits
<1>4. \A n \in Accounts : account'[n] = IF n \in DOMAIN rows THEN rows[n] ELSE account[n]
  BY <1>1 DEF hierCommit
<1>5. crossed' = (crossed \ DOMAIN rows) \cup crossedBy(h)
  BY <1>1 DEF hierCommit
<1>6. ASSUME NEW n \in Accounts, Exists(n)', TierOf[n] # "region", n \notin crossed'
      PROVE  /\ account'[n].region = account'[account'[n].parent].region
             /\ account'[n].path = account'[account'[n].parent].path \cup {n}
  <2>1. CASE n \in DOMAIN rows
    <3>1. account'[n] = rows[n] /\ RowFits(n, rows[n]) /\ EdgeFits(h, n)
      BY <1>3, <1>4, <2>1
    <3>2. rows[n].parent \in Accounts
      BY <1>6, <3>1 DEF RowFits
    <3>3. CASE rows[n].parent \in DOMAIN rows
      BY <1>1, <1>4, <1>6, <3>1, <3>2, <3>3 DEF EdgeFits
    <3>4. CASE rows[n].parent \notin DOMAIN rows
      <4>1. rows[n].parent \notin beside[h]
        BY <1>1, <1>5, <1>6, <2>1, <3>4 DEF crossedBy, UnderCrossed
      <4> QED
        BY <1>1, <1>4, <1>6, <3>1, <3>2, <3>4, <4>1 DEF EdgeFits
    <3> QED
      BY <3>3, <3>4
  <2>2. CASE n \notin DOMAIN rows
    <3>1. account'[n] = account[n] /\ Exists(n)
      BY <1>4, <1>6, <2>2 DEF Exists
    <3>2. account[n].parent \notin DOMAIN rows
      BY <1>1, <1>3, <1>5, <1>6, <2>2 DEF crossedBy
    <3>3. account[n].parent \in Accounts
      BY <1>6, <3>1 DEF HierInv, TreeInv, Rooted
    <3>4. n \notin crossed
      BY <1>5, <1>6, <2>2
    <3> QED
      BY <1>4, <1>6, <3>1, <3>2, <3>3, <3>4 DEF HierInv, TreeInv, Edged
  <2> QED
    BY <2>1, <2>2
<1> QED
  BY <1>6 DEF Edged

(* No open job is left behind, unless it was crossed.                      *)
LEMMA CommitStaffed ==
  ASSUME HierInv, NEW h \in Editors, hierCommit(h)
  PROVE  Staffed'
<1>1. PICK rows : rows = edit[h].rows /\ Held(h) = DOMAIN rows
  BY DEF hierCommit, Held
<1>2. Fits(h)
  BY DEF hierCommit, HierInv, Stands
<1>3. /\ DOMAIN rows \subseteq Accounts
      /\ UnderCrossed(h) = {} => \A v \in Visits :
           (Settled(h, v) /\ visit[v].site \in DOMAIN rows) =>
             account[visit[v].site].region = rows[visit[v].site].region
  BY <1>1, <1>2 DEF Fits
<1>4. \A n \in Accounts : account'[n] = IF n \in DOMAIN rows THEN rows[n] ELSE account[n]
  BY <1>1 DEF hierCommit
<1>5. crossed' = (crossed \ DOMAIN rows) \cup crossedBy(h) /\ UNCHANGED visit
  BY <1>1 DEF hierCommit
<1>6. ASSUME NEW v \in Visits, visit[v].open
      PROVE  /\ visit[v].site \in Accounts
             /\ account'[visit[v].site].parent # "none"
             /\ v \notin crossed' => visit[v].region = account'[visit[v].site].region
  <2>1. /\ visit[v].site \in Accounts /\ Exists(visit[v].site)
        /\ v \notin crossed => visit[v].region = account[visit[v].site].region
    BY <1>6 DEF HierInv, TreeInv, Staffed
  <2>2. \A n \in Accounts : Exists(n) => account'[n].parent # "none"
    BY CommitRooted DEF Exists
  <2>3. ASSUME v \notin crossed'
        PROVE  visit[v].region = account'[visit[v].site].region
    <3>1. v \notin DOMAIN rows
      BY <1>3, HierarchyAssumption
    <3>2. v \notin crossed /\ v \notin crossedBy(h)
      BY <1>5, <2>3, <3>1
    <3>3. CASE visit[v].site \in DOMAIN rows
      <4>1. Settled(h, v) /\ UnderCrossed(h) = {}
        BY <1>1, <1>6, <3>2, <3>3 DEF crossedBy, Settled
      <4> QED
        BY <1>3, <1>4, <2>1, <3>2, <3>3, <4>1
    <3>4. CASE visit[v].site \notin DOMAIN rows
      BY <1>4, <2>1, <3>2, <3>4
    <3> QED
      BY <3>3, <3>4
  <2> QED
    BY <2>1, <2>2, <2>3
<1> QED
  BY <1>5, <1>6 DEF Staffed, Exists

(* A commit leaves what the others have decided and written standing.      *)
LEMMA EditCommitInv ==
  ASSUME HierInv, NEW h \in Editors, hierCommit(h)
  PROVE  HierInv'
<1>1. /\ edit[h].op = "commit" /\ Fits(h) /\ Rests(h, Held(h)) /\ UNCHANGED <<visit, ask>>
      /\ Taken(h) = Held(h)
  BY DEF hierCommit, HierInv, Stands, Taken
<1>2. PICK rows : rows = edit[h].rows /\ Held(h) = DOMAIN rows
  BY <1>1 DEF Held
<1>3. DOMAIN rows \subseteq Accounts /\ \A n \in DOMAIN rows : RowFits(n, rows[n])
  BY <1>1, <1>2 DEF Fits
<1>4. /\ \A n \in Accounts : account'[n] = IF n \in DOMAIN rows THEN rows[n] ELSE account[n]
      /\ account' = [n \in Accounts |-> account'[n]]
  BY <1>2 DEF hierCommit
<1>5. /\ DOMAIN edit' = Editors /\ edit'[h] = AtRest
      /\ \A k \in Editors \ {h} : edit'[k] = edit[k]
  BY <1>1 DEF HierInv, HierTyped, Rests
<1>6. account' \in [Accounts -> NodeRow]
  <2>1. \A n \in Accounts : account'[n] \in NodeRow
    BY <1>3, <1>4 DEF RowFits, HierInv, HierTyped
  <2> QED
    BY <1>4, <2>1
<1>7. HierTyped'
  BY <1>1, <1>5, <1>6 DEF HierInv, HierTyped
<1>8. \A n \in Accounts : Exists(n) => Exists(n)'
  BY CommitRooted
<1>9. AsksHaveSites'
  BY <1>1, <1>8 DEF HierInv, TreeInv, AsksHaveSites
<1>10. TreeInv'
  BY <1>9, CommitRooted, CommitEdged, CommitStaffed DEF TreeInv
<1>11. Stands(h)' /\ Taken(h)' = {}
  BY <1>5 DEF Stands, AtRest, Taken, Held
<1>12. \A k \in Editors \ {h} : Taken(k)' = Taken(k)
  BY <1>5 DEF Taken, Held
<1>13. Apart'
  BY <1>11, <1>12 DEF HierInv, Apart
<1>14. ASSUME NEW k \in Editors \ {h}
       PROVE  Stands(k)'
  <2>1. Stands(k) /\ edit'[k] = edit[k]
    BY <1>5 DEF HierInv
  <2>2. edit[k].op \in {"move", "commit"} => beside'[k] = beside[k] \cup DOMAIN rows
    BY <1>1, <1>2 DEF Rests
  <2>3. \A n \in Accounts : n \notin DOMAIN rows =>
          /\ account'[n].parent = account[n].parent /\ account'[n].path = account[n].path
          /\ account'[n].region = account[n].region
    BY <1>4
  <2>4. \A n \in Accounts : (Exists(n) /\ TierOf[n] = "region") =>
          account'[n].region = account[n].region
    BY <1>3, <1>4 DEF RowFits
  <2>5. \A n \in Accounts \cap Taken(k) : ~ Exists(n) => ~ Exists(n)'
    <3>1. Taken(k) \cap DOMAIN rows = {}
      BY <1>1, <1>2 DEF HierInv, Apart
    <3> QED
      BY <1>4, <3>1 DEF Exists
  <2>6. \A v \in Visits : visit'[v].open => visit'[v].site \in Accounts
    BY <1>1 DEF HierInv, TreeInv, Staffed
  <2>7. \A x : x \notin crossed' => x \notin crossed \/ x \in DOMAIN rows
    BY <1>2 DEF hierCommit
  <2> QED
    BY <1>1, <1>8, <2>1, <2>2, <2>3, <2>4, <2>5, <2>6, <2>7, StandsOn
<1>15. \A k \in Editors : Stands(k)'
  BY <1>11, <1>14
<1> QED
  BY <1>7, <1>10, <1>13, <1>15 DEF HierInv


-----------------------------------------------------------------------------
(* A job is opened at a site there is, in the region the site is in.       *)
LEMMA OpenedInv ==
  ASSUME HierInv, NEW h \in Editors,
         createVisit(h) \/ createServiceRequest(h) \/ openJobFromRequest(h)
  PROVE  HierInv'
<1>1. Stands(h) /\ HierTyped /\ TreeInv /\ UNCHANGED <<area, account, crossed>>
  BY DEF HierInv, createVisit, createServiceRequest, openJobFromRequest
<1>2. \A n : Exists(n)' <=> Exists(n)
  BY <1>1 DEF Exists
<1>3. PICK s \in Accounts, r \in Areas \cup {"none"} :
        s = edit[h].site /\ r = edit[h].region /\ Exists(s)
  BY <1>1 DEF createVisit, createServiceRequest, openJobFromRequest, Stands
<1>4. At(h, s) => r = account[s].region
  BY <1>3 DEF At
<1> DEFINE new == [site |-> s, region |-> r, open |-> TRUE]
<1>5. new \in VisitRow /\ new.site = s /\ new.region = r
  BY DEF VisitRow
<1> HIDE DEF new
<1>6. PICK done :
        /\ Rests(h, done) /\ visit' \in [Visits -> VisitRow]
        /\ \A v \in Visits : \/ visit'[v] = visit[v]
                             \/ v \in done /\ visit'[v] = new /\ r = account[s].region
  <2>1. CASE createVisit(h)
    <3>1. /\ visit' = [v \in Visits |-> IF v = edit[h].visit /\ At(h, s) THEN new ELSE visit[v]]
          /\ Rests(h, IF At(h, s) THEN {edit[h].visit} ELSE {})
      BY <1>3, <2>1 DEF createVisit, new
    <3>2. visit' \in [Visits -> VisitRow]
      BY <1>1, <1>5, <3>1 DEF HierTyped
    <3> QED
      BY <1>4, <3>1, <3>2
  <2>2. CASE createServiceRequest(h)
    BY <1>1, <2>2 DEF createServiceRequest, HierTyped
  <2>3. CASE openJobFromRequest(h)
    <3>1. \/ UNCHANGED visit /\ Rests(h, {})
          \/ /\ visit' = [visit EXCEPT ![edit[h].visit] = new] /\ At(h, s)
             /\ Rests(h, {edit[h].visit})
      BY <1>3, <2>3 DEF openJobFromRequest, new
    <3>2. visit' \in [Visits -> VisitRow]
      BY <1>1, <1>5, <3>1 DEF HierTyped
    <3> QED
      BY <1>1, <1>4, <3>1, <3>2 DEF HierTyped
  <2> QED
    BY <2>1, <2>2, <2>3
<1>7. /\ ask' \in [Asks -> AskRow]
      /\ \A q \in Asks : \/ ask'[q] = ask[q]
                         \/ ask'[q].site = s /\ ask'[q] # NoAsk
                         \/ ask[q] # NoAsk /\ ask'[q] # NoAsk /\ ask'[q].site = ask[q].site
  <2>1. CASE createVisit(h)
    BY <1>1, <2>1 DEF createVisit, HierTyped
  <2>2. CASE createServiceRequest(h)
    <3> DEFINE row == [site |-> s, region |-> r, job |-> "none"]
    <3>1. row \in AskRow /\ row.site = s
      BY DEF AskRow
    <3>2. row # NoAsk
      BY <3>1, HierarchyAssumption DEF NoAsk
    <3>3. ask' = [q \in Asks |-> IF q = edit[h].ask /\ At(h, s) THEN row ELSE ask[q]]
      BY <1>3, <2>2 DEF createServiceRequest
    <3> HIDE DEF row
    <3> QED
      BY <1>1, <3>1, <3>2, <3>3 DEF HierTyped
  <2>3. CASE openJobFromRequest(h)
    <3>1. PICK q \in Asks, v \in Visits : q = edit[h].ask /\ v = edit[h].visit /\ ask[q] # NoAsk
      BY <1>1, <2>3 DEF openJobFromRequest, Stands
    <3>2. UNCHANGED ask \/ ask' = [ask EXCEPT ![q].job = v]
      BY <2>3, <3>1 DEF openJobFromRequest
    <3>3. CASE ask' = [ask EXCEPT ![q].job = v]
      <4>1. ask[q] \in AskRow /\ ask[q].site \in Accounts
        BY <1>1, <3>1 DEF HierTyped, TreeInv, AsksHaveSites
      <4> DEFINE row == [ask[q] EXCEPT !.job = v]
      <4>2. row \in AskRow /\ row.site = ask[q].site
        BY <4>1 DEF AskRow
      <4>3. row # NoAsk
        BY <4>1, <4>2, HierarchyAssumption DEF NoAsk
      <4>4. ask' = [ask EXCEPT ![q] = row]
        BY <3>3
      <4> HIDE DEF row
      <4> QED
        BY <1>1, <3>1, <4>2, <4>3, <4>4 DEF HierTyped
    <3> QED
      BY <1>1, <3>2, <3>3 DEF HierTyped
  <2> QED
    BY <2>1, <2>2, <2>3
<1>8. Staffed'
  BY <1>1, <1>3, <1>5, <1>6 DEF TreeInv, Staffed, Exists
<1>9. AsksHaveSites'
  BY <1>1, <1>2, <1>3, <1>7 DEF TreeInv, AsksHaveSites
<1>10. \A q \in Asks : ask[q] # NoAsk => ask'[q] # NoAsk
  BY <1>7
<1>11. \A v \in Visits : (visit'[v].open /\ v \notin done) =>
         visit[v].open /\ visit'[v].site = visit[v].site
  BY <1>6
<1> QED
  BY <1>1, <1>6, <1>7, <1>8, <1>9, <1>10, <1>11, RestsInv

-----------------------------------------------------------------------------
(* A request that decides takes no row but a new one nobody else writes.   *)
LEMMA DecidesInv ==
  ASSUME HierInv, NEW h \in Editors, NEW e, Decides(h, e), Stands(h)', e.op # "commit",
         e.op \in {"root", "create"} => NewNode(e.node)
  PROVE  HierInv'
<1>1. /\ edit' = [edit EXCEPT ![h] = e] /\ UNCHANGED <<hierTables, beside>>
      /\ edit'[h] = e
  BY DEF Decides, HierInv, HierTyped
<1>2. Taken(h)' = IF e.op \in {"root", "create"} THEN {e.node} ELSE {}
  BY <1>1 DEF Taken, Held
<1>3. ASSUME NEW k \in Editors \ {h}, e.op \in {"root", "create"}
      PROVE  e.node \notin Taken(k)
  BY <1>3 DEF NewNode, Taken, Held
<1>4. \A k \in Editors \ {h} : Taken(h)' \cap Taken(k) = {}
  BY <1>2, <1>3
<1> QED
  BY <1>1, <1>4, AsideInv

(* A move that is decided on takes no open job to another region: those at *)
(* the node and at its children have the node in their sites' paths.       *)
LEMMA MoveAskedCounts ==
  ASSUME HierInv, NEW h \in Editors, NEW n \in Accounts, NEW p \in Accounts, Exists(n),
         account[n].region # account[p].region => ~ openJobsUnder(n),
         NEW v \in Visits, Settled(h, v),
         visit[v].site = n \/ account[visit[v].site].parent = n
  PROVE  account[visit[v].site].region = account[p].region
<1>1. PICK s \in Accounts : s = visit[v].site /\ visit[v].open /\ Exists(s) /\ s \notin crossed
  BY DEF Settled, HierInv, TreeInv, Staffed
<1>2. n \in account[s].path
  <2>1. CASE s = n
    BY <1>1, <2>1 DEF HierInv, TreeInv, Rooted
  <2>2. CASE account[s].parent = n
    BY <1>1, <2>2, HierarchyAssumption DEF HierInv, TreeInv, Rooted
  <2> QED
    BY <1>1, <2>1, <2>2
<1>3. account[n].region = account[p].region
  BY <1>1, <1>2 DEF openJobsUnder
<1>4. account[s].region = account[n].region
  <2>1. CASE account[s].parent = n
    BY <1>1, <2>1, HierarchyAssumption DEF HierInv, TreeInv, Rooted, Edged
  <2> QED
    BY <1>1, <2>1
<1> QED
  BY <1>1, <1>3, <1>4

(* What a request decides on stands when it is decided.                    *)
LEMMA AskedInv ==
  ASSUME HierInv, NEW h \in Editors,
         \/ \E r \in Areas : \/ setRegionActiveAsked(h, r)
                             \/ \E n \in Accounts : createRegionNodeAsked(h, n, r)
         \/ \E n, p \in Accounts :
              createAccountAsked(h, n, p) \/ moveAccountAsked(h, n, p)
         \/ \E v \in Visits, s \in Accounts : createJobAsked(h, v, s)
         \/ \E q \in Asks : \/ \E s \in Accounts : createServiceRequestAsked(h, q, s)
                            \/ \E v \in Visits : openJobFromRequestAsked(h, q, v)
  PROVE  HierInv'
<1>1. \A s \in Accounts : account[s].region \in Areas \cup {"none"}
  BY DEF HierInv, HierTyped, NodeRow
<1>2. ASSUME NEW e, Decides(h, e)
      PROVE  /\ edit'[h] = e /\ UNCHANGED <<account, visit, ask, beside, crossed>>
             /\ \A n : Exists(n)' <=> Exists(n)
  BY <1>2 DEF Decides, hierTables, HierInv, HierTyped, Exists
<1>3. ASSUME NEW r \in Areas, setRegionActiveAsked(h, r)
      PROVE  HierInv'
  <2>1. PICK e : Decides(h, e) /\ e.op = "region"
    BY <1>3 DEF setRegionActiveAsked
  <2>2. Stands(h)'
    BY <1>2, <2>1 DEF Stands
  <2> QED
    BY <2>1, <2>2, DecidesInv
<1>4. ASSUME NEW r \in Areas, NEW n \in Accounts, createRegionNodeAsked(h, n, r)
      PROVE  HierInv'
  <2>1. PICK e : Decides(h, e) /\ e.op = "root" /\ e.node = n /\ e.region = r
    BY <1>4 DEF createRegionNodeAsked
  <2>2. NewNode(n) /\ ~ Exists(n) /\ TierOf[n] = "region"
    BY <1>4 DEF createRegionNodeAsked, NewNode
  <2>3. Stands(h)'
    BY <1>2, <2>1, <2>2 DEF Stands
  <2> QED
    BY <2>1, <2>2, <2>3, DecidesInv
<1>5. ASSUME NEW n \in Accounts, NEW p \in Accounts, createAccountAsked(h, n, p)
      PROVE  HierInv'
  <2>1. PICK e : Decides(h, e) /\ e.op = "create" /\ e.node = n /\ e.parent = p
    BY <1>5 DEF createAccountAsked
  <2>2. NewNode(n) /\ ~ Exists(n) /\ Exists(p) /\ Ladder(n, p)
    BY <1>5 DEF createAccountAsked, NewNode
  <2>3. Stands(h)'
    BY <1>2, <2>1, <2>2 DEF Stands, Ladder
  <2> QED
    BY <2>1, <2>2, <2>3, DecidesInv
<1>6. ASSUME NEW n \in Accounts, NEW p \in Accounts, moveAccountAsked(h, n, p)
      PROVE  HierInv'
  <2>1. PICK e : Decides(h, e) /\ e.op = "move" /\ e.node = n /\ e.parent = p
    BY <1>6 DEF moveAccountAsked
  <2>2. /\ Exists(n) /\ Exists(p) /\ Ladder(n, p)
        /\ account[n].region # account[p].region => ~ openJobsUnder(n)
    BY <1>6 DEF moveAccountAsked
  <2>3. \A v \in Visits :
          (Settled(h, v) /\ (visit[v].site = n \/ account[visit[v].site].parent = n)) =>
            account[visit[v].site].region = account[p].region
    BY <2>2, MoveAskedCounts
  <2>4. Counted(h)'
    BY <1>2, <2>1, <2>3 DEF Counted, Settled
  <2>5. Stands(h)'
    BY <1>2, <2>1, <2>2, <2>4 DEF Stands, Ladder
  <2> QED
    BY <2>1, <2>5, DecidesInv
<1>7. ASSUME NEW v \in Visits, NEW s \in Accounts, createJobAsked(h, v, s)
      PROVE  HierInv'
  <2>1. PICK e : Decides(h, e) /\ e.op = "job" /\ e.site = s /\ e.region = account[s].region
    BY <1>7 DEF createJobAsked
  <2>2. Stands(h)'
    BY <1>1, <1>2, <1>7, <2>1 DEF createJobAsked, Stands
  <2> QED
    BY <2>1, <2>2, DecidesInv
<1>8. ASSUME NEW q \in Asks, NEW s \in Accounts, createServiceRequestAsked(h, q, s)
      PROVE  HierInv'
  <2>1. PICK e : Decides(h, e) /\ e.op = "ask" /\ e.site = s /\ e.region = account[s].region
    BY <1>8 DEF createServiceRequestAsked
  <2>2. Stands(h)'
    BY <1>1, <1>2, <1>8, <2>1 DEF createServiceRequestAsked, Stands
  <2> QED
    BY <2>1, <2>2, DecidesInv
<1>9. ASSUME NEW q \in Asks, NEW v \in Visits, openJobFromRequestAsked(h, q, v)
      PROVE  HierInv'
  <2>1. ask[q] # NoAsk
    BY <1>9 DEF openJobFromRequestAsked
  <2>2. PICK s \in Accounts : s = ask[q].site /\ Exists(s)
    BY <2>1 DEF HierInv, TreeInv, AsksHaveSites
  <2>3. PICK e : /\ Decides(h, e) /\ e.op = "answer" /\ e.ask = q /\ e.visit = v
                 /\ e.site = s /\ e.region = account[s].region
    BY <1>9, <2>2 DEF openJobFromRequestAsked
  <2>4. Stands(h)'
    BY <1>1, <1>2, <2>1, <2>2, <2>3 DEF Stands
  <2> QED
    BY <2>3, <2>4, DecidesInv
<1> QED
  BY <1>3, <1>4, <1>5, <1>6, <1>7, <1>8, <1>9

-----------------------------------------------------------------------------
(* There is no node.                                                       *)
LEMMA HierInitInv == HierInit => HierInv
<1> SUFFICES ASSUME HierInit PROVE HierInv
  OBVIOUS
<1>1. HierTyped
  BY DEF HierInit, HierTyped, NoAccount, NoVisit, NoAsk, NodeRow, VisitRow, AskRow
<1>2. \A n \in Accounts : account[n].parent = "none"
  BY DEF HierInit, NoAccount
<1>3. \A v \in Visits : visit[v].open = FALSE
  BY DEF HierInit, NoVisit
<1>4. TreeInv
  BY <1>2, <1>3 DEF HierInit, TreeInv, Rooted, Edged, Staffed, AsksHaveSites, Exists
<1>5. \A h \in Editors : Stands(h) /\ Taken(h) = {}
  BY RestStands DEF HierInit
<1> QED
  BY <1>1, <1>4, <1>5 DEF HierInv, Apart

(* Every step keeps what is said of the tree and its open jobs.            *)
LEMMA HierNextInv == HierInv /\ [HierNext]_hierVars => HierInv'
<1> SUFFICES ASSUME HierInv, [HierNext]_hierVars PROVE HierInv'
  OBVIOUS
<1>1. CASE \/ \E r \in Areas, n \in 0 .. MaxCrews : crewsChange(r, n)
           \/ UNCHANGED hierVars
  <2>1. UNCHANGED <<account, visit, ask, edit, beside, crossed>>
    BY <1>1 DEF crewsChange, hierVars
  <2> QED
    BY <2>1, SameTreeInv DEF HierInv, HierTyped
<1>2. ASSUME NEW n \in Accounts, NEW active \in BOOLEAN, updateAccount(n, active)
      PROVE  HierInv'
  BY <1>2, UpdateAccountInv
<1>3. ASSUME NEW v \in Visits, closeVisit(v)
      PROVE  HierInv'
  BY <1>3, CloseVisitInv
<1>4. ASSUME NEW h \in Editors,
             \/ \E r \in Areas : \/ setRegionActiveAsked(h, r)
                                 \/ \E n \in Accounts : createRegionNodeAsked(h, n, r)
             \/ \E n, p \in Accounts :
                  createAccountAsked(h, n, p) \/ moveAccountAsked(h, n, p)
             \/ \E v \in Visits, s \in Accounts : createJobAsked(h, v, s)
             \/ \E q \in Asks : \/ \E s \in Accounts : createServiceRequestAsked(h, q, s)
                                \/ \E v \in Visits : openJobFromRequestAsked(h, q, v)
      PROVE  HierInv'
  BY <1>4, AskedInv
<1>5. ASSUME NEW h \in Editors,
             createVisit(h) \/ createServiceRequest(h) \/ openJobFromRequest(h)
      PROVE  HierInv'
  BY <1>5, OpenedInv
<1>6. ASSUME NEW h \in Editors, setRegionActive(h) \/ hierLost(h)
      PROVE  HierInv'
  <2>1. Rests(h, {}) /\ UNCHANGED <<account, visit, ask, crossed>>
    BY <1>6 DEF setRegionActive, hierLost, hierTables
  <2>2. Staffed' /\ AsksHaveSites'
    BY <2>1 DEF HierInv, TreeInv, Staffed, AsksHaveSites, Exists
  <2> QED
    BY <2>1, <2>2, RestsInv DEF HierInv, HierTyped
<1>7. ASSUME NEW h \in Editors, createRegionNode(h)
      PROVE  HierInv'
  BY <1>7, CreateRegionInv
<1>8. ASSUME NEW h \in Editors, createAccount(h)
      PROVE  HierInv'
  BY <1>8, CreateAccountInv
<1>9. ASSUME NEW h \in Editors, moveAccount(h)
      PROVE  HierInv'
  BY <1>9, MoveInv
<1>10. ASSUME NEW h \in Editors, hierCommit(h)
       PROVE  HierInv'
  BY <1>10, EditCommitInv
<1> QED
  BY <1>1, <1>2, <1>3, <1>4, <1>5, <1>6, <1>7, <1>8, <1>9, <1>10 DEF HierNext

(* However large the tree and however many requests move it about at once, *)
(* every node is in the region its path begins in, and in its parent's     *)
(* region, with its parent's path and itself as its path, unless two       *)
(* requests that overlapped wrote the two of them.                         *)
THEOREM RegionsFollowTheEdges == HierSpec => []TreeFollowsItsEdges
<1>1. HierInv => TreeFollowsItsEdges
  BY DEF HierInv, TreeInv, Rooted, Edged, TreeFollowsItsEdges
<1> QED
  BY HierInitInv, HierNextInv, <1>1, PTL DEF HierSpec

(* No open job is left on the old region's board by a move of its site, or *)
(* of a node above it, that had begun when the job was there to be seen.   *)
THEOREM OpenJobsStayWithTheirSites == HierSpec => []OpenJobsFollowTheirSite
<1>1. HierInv => OpenJobsFollowTheirSite
  BY DEF HierInv, TreeInv, Staffed, OpenJobsFollowTheirSite
<1> QED
  BY HierInitInv, HierNextInv, <1>1, PTL DEF HierSpec
=============================================================================
