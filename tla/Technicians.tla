----------------------------- MODULE Technicians ----------------------------
(***************************************************************************)
(* The technician roster: who sits on which crew.  A technician's crew is  *)
(* a service unit of one; installers share an install crew.  The handlers  *)
(* check the crew they read; what holds under concurrent requests is the   *)
(* trigger ac_technician_fits_the_crew, which locks the technician's row   *)
(* and then the crew's, from the write to the commit.                      *)
(***************************************************************************)
EXTENDS Naturals

CONSTANTS
  Techs,      \* technicians
  Employer,   \* technicians.firm_id: a firm, or "ours"
  Units,      \* crews on record
  UnitKind,   \* crews.kind
  UnitFirm,   \* crews.firm_id
  Offices     \* requests at once

ASSUME TechniciansAssumption ==
  /\ UnitKind \in [Units -> {"service", "install"}]
  /\ DOMAIN Employer = Techs /\ DOMAIN UnitFirm = Units

VARIABLES
  tech,     \* technicians: the crew they sit on, their role, active
  ended,    \* the firms that are terminated
  seating   \* what each request is to write, and whether it is written

techVars == <<tech, ended, seating>>

Roles == {"technician", "installer"}

NoTech  == [crew |-> "none", role |-> "none", on |-> "no"]
NotSeating == [tech |-> "none", set |-> NoTech, written |-> FALSE]

TechInit ==
  /\ tech = [t \in Techs |-> NoTech] /\ ended = {}
  /\ seating = [h \in Offices |-> NotSeating]

firmEnds(f) ==
  f \notin ended /\ ended' = ended \cup {f} /\ UNCHANGED <<tech, seating>>

crewKindForRole(role) == IF role = "technician" THEN "service" ELSE "install"

(* The crew is the employer's, and of the role's kind.                     *)
crewFor(t, c, role) ==
  c # "none" => UnitFirm[c] = Employer[t] /\ UnitKind[c] = crewKindForRole(role)

Seats(h, t, set) ==
  /\ seating[h] = NotSeating
  /\ seating' = [seating EXCEPT ![h] = [tech |-> t, set |-> set,
                                        written |-> FALSE]]
  /\ UNCHANGED <<tech, ended>>

recordTechnicianAsked(h, t, c, role) ==
  /\ tech[t] = NoTech /\ Employer[t] \notin ended
  /\ \A k \in Offices : seating[k].tech # t
  /\ crewFor(t, c, role)
  /\ Seats(h, t, [crew |-> c, role |-> role, on |-> "yes"])

(* What is not named keeps the value the row has when it is written.       *)
Kept(was, named) == IF named = "keep" THEN was ELSE named

Merged(row, set) == [crew |-> Kept(row.crew, set.crew),
                     role |-> Kept(row.role, set.role),
                     on |-> Kept(row.on, set.on)]

updateTechnicianAsked(h, t, set) ==
  /\ tech[t] # NoTech
  /\ \/ set.crew = "keep" /\ set.role = "keep" /\ set.on # "keep"
     \/ /\ ~(set.crew = "keep" /\ set.role = "keep")
        /\ crewFor(t, Merged(tech[t], set).crew, Merged(tech[t], set).role)
  /\ Seats(h, t, set)

(* Mutant: the trigger as migration 0024 had it, reading the crew unlocked.*)
UnitIsFree_Unlocked(h, c) == TRUE

(* No other request has the crew's row locked.                             *)
UnitIsFree(h, c) ==
  \A k \in Offices \ {h} :
    seating[k].written => (c = "none" \/ seating[k].set.crew # c)

(* ac_technician_fits_the_crew, and the employer's trigger: the new row as *)
(* it will be, judged against the rows that are committed.                 *)
Fits(t, row) ==
  row.crew # "none" =>
    /\ UnitFirm[row.crew] = Employer[t]
    /\ UnitKind[row.crew] = crewKindForRole(row.role)
    /\ (UnitKind[row.crew] = "service" /\ row.on = "yes") =>
         \A u \in Techs \ {t} : ~(tech[u].crew = row.crew /\ tech[u].on = "yes")

(* The row is written, or the request refused; others do not see it yet.   *)
technicianWrite(h) ==
  /\ seating[h] # NotSeating /\ ~seating[h].written
  /\ LET t == seating[h].tech row == Merged(tech[t], seating[h].set) IN
     /\ \A k \in Offices \ {h} : ~(seating[k].written /\ seating[k].tech = t)
     /\ UnitIsFree(h, row.crew)
     /\ seating' = [seating EXCEPT ![h] =
                      IF Fits(t, row)
                      THEN [tech |-> t, set |-> row, written |-> TRUE]
                      ELSE NotSeating]
  /\ UNCHANGED <<tech, ended>>

technicianCommit(h) ==
  /\ seating[h].written
  /\ tech' = [tech EXCEPT ![seating[h].tech] = seating[h].set]
  /\ seating' = [seating EXCEPT ![h] = NotSeating]
  /\ UNCHANGED ended

technicianLost(h) ==
  /\ seating[h] # NotSeating
  /\ seating' = [seating EXCEPT ![h] = NotSeating]
  /\ UNCHANGED <<tech, ended>>

TechSets == [crew : Units \cup {"none", "keep"}, role : Roles \cup {"keep"},
             on : {"yes", "no", "keep"}]

TechNext ==
  \/ \E t \in Techs : Employer[t] # "ours" /\ firmEnds(Employer[t])
  \/ \E h \in Offices :
       \/ \E t \in Techs :
            \/ \E c \in Units \cup {"none"}, role \in Roles :
                 recordTechnicianAsked(h, t, c, role)
            \/ \E set \in TechSets : updateTechnicianAsked(h, t, set)
       \/ technicianWrite(h) \/ technicianCommit(h) \/ technicianLost(h)

TechSpec == TechInit /\ [][TechNext]_techVars

-----------------------------------------------------------------------------
(* "a service unit is one technician", and nobody sits on a crew of the    *)
(* other kind or of another employer, however requests to record, move,    *)
(* promote and reactivate people interleave.                               *)
SeatsAreSound ==
  \A t \in Techs : LET c == tech[t].crew IN c # "none" =>
    /\ UnitFirm[c] = Employer[t]
    /\ UnitKind[c] = crewKindForRole(tech[t].role)
    /\ (UnitKind[c] = "service" /\ tech[t].on = "yes") =>
         \A u \in Techs \ {t} : ~(tech[u].crew = c /\ tech[u].on = "yes")
=============================================================================
