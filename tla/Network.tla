------------------------------- MODULE Network ------------------------------
(***************************************************************************)
(* The subcontractor network: firms and their ladder, crews and the roster,*)
(* the documents a crew is cleared by, and the gate it passes to be sent   *)
(* to a job.                                                               *)
(*                                                                         *)
(* A handler reads without a lock, decides, and writes in a later step; a  *)
(* desk holds what it read.  Only the job's row lock, which assignCrew     *)
(* takes, is held from the one to the other.                               *)
(***************************************************************************)
EXTENDS Naturals

CONSTANTS
  Firms,       \* subcontractor firms
  Crews,       \* crews
  FirmOf,      \* crews.firm_id: a firm, or "ours" for an employed crew
  KindOf,      \* crews.kind: service or install
  Docs,        \* credentials
  DocOf,       \* the crew and the kind each credential is recorded for
  Calls,       \* jobs waiting for a crew: their service window's days
  WorkOf,      \* the crew kind the job's work needs
  FirstDay, LastDay,  \* the first and the last day of each job's window
  Days,        \* bound: the days a document may be dated with
  Desks        \* requests at once

ASSUME NetworkAssumption ==
  /\ FirmOf \in [Crews -> Firms \cup {"ours"}]
  /\ KindOf \in [Crews -> {"service", "install"}]
  /\ DocOf \in [Docs -> [crew : Crews,
                         kind : {"insurance", "license", "background_check"}]]
  /\ WorkOf \in [Calls -> {"service", "install"}]
  /\ Days \subseteq Nat
  /\ FirstDay \in [Calls -> Days] /\ LastDay \in [Calls -> Days]

VARIABLES
  firm,    \* subcontractor_firms: status, and whether an MSA is recorded
  crew,    \* crews: none, on (active) or off
  doc,     \* crew_credentials: state and dates
  sent,    \* assignments not released: the crew and the documents cited
  desk     \* what each request has read and not yet written

netTables == <<firm, crew, doc, sent>>
netVars   == <<firm, crew, doc, sent, desk>>

FirmStatuses == {"none", "onboarding", "active", "suspended", "terminated"}

NEXT_FIRM_STATES ==
  [none |-> {}, onboarding |-> {"active", "terminated"},
   active |-> {"suspended", "terminated"},
   suspended |-> {"active", "terminated"}, terminated |-> {}]

NoDoc  == [state |-> "none", from |-> 0, to |-> 0]
Unsent == [crew |-> "none", cites |-> {}]
Idle   == [op |-> "none"]

NetInit ==
  /\ firm = [f \in Firms |-> [status |-> "none", msa |-> "no"]]
  /\ crew = [c \in Crews |-> "none"]
  /\ doc = [d \in Docs |-> NoDoc]
  /\ sent = [j \in Calls |-> Unsent]
  /\ desk = [h \in Desks |-> Idle]

Reads(h, what) ==
  desk[h] = Idle /\ desk' = [desk EXCEPT ![h] = what] /\ UNCHANGED netTables

Done(h) == desk' = [desk EXCEPT ![h] = Idle]

-----------------------------------------------------------------------------
(* Firms.                                                                  *)

createFirm(f, msa) ==
  /\ firm[f].status = "none"
  /\ firm' = [firm EXCEPT ![f] = [status |-> "onboarding", msa |-> msa]]
  /\ UNCHANGED <<crew, doc, sent, desk>>

(* The status and the MSA, either or both; the MSA counts as it will be.   *)
updateFirmAsked(h, f, to, msa) ==
  /\ firm[f].status # "none" /\ {to, msa} # {"same"}
  /\ to # "same" => to \in NEXT_FIRM_STATES[firm[f].status]
  /\ to = "active" => "yes" = IF msa = "same" THEN firm[f].msa ELSE msa
  /\ Reads(h, [op |-> "firm", firm |-> f, to |-> to, msa |-> msa])

OrSame(new, old) == IF new = "same" THEN old ELSE new

(* The UPDATE names the firm alone, not the status it was read in, and     *)
(* writes only the columns that were asked for.                            *)
updateFirm(h) ==
  /\ desk[h].op = "firm"
  /\ firm' = [firm EXCEPT ![desk[h].firm] =
                [status |-> OrSame(desk[h].to, @.status),
                 msa |-> OrSame(desk[h].msa, @.msa)]]
  /\ Done(h)
  /\ UNCHANGED <<crew, doc, sent>>

-----------------------------------------------------------------------------
(* Crews.  The office records any crew; a firm enrolls its own.            *)

createCrewAsked(h, c) ==
  /\ crew[c] = "none"
  /\ FirmOf[c] # "ours" => firm[FirmOf[c]].status \notin {"none", "terminated"}
  /\ Reads(h, [op |-> "crew", crew |-> c, to |-> "on"])

enrollCrewAsked(h, c) ==
  /\ crew[c] = "none" /\ FirmOf[c] # "ours"
  /\ firm[FirmOf[c]].status \in {"onboarding", "active"}
  /\ Reads(h, [op |-> "crew", crew |-> c, to |-> "on"])

(* The office takes a crew off and puts it back without asking.            *)
updateCrewAsked(h, c, to) ==
  /\ crew[c] # "none"
  /\ Reads(h, [op |-> "crew", crew |-> c, to |-> to])

(* A firm retires a crew that holds no work, and does not reinstate one.   *)
retireCrewAsked(h, c) ==
  /\ crew[c] = "on" /\ FirmOf[c] # "ours"
  /\ \A j \in Calls : sent[j].crew # c
  /\ Reads(h, [op |-> "crew", crew |-> c, to |-> "off"])

crewWrite(h) ==
  /\ desk[h].op = "crew"
  /\ crew' = [crew EXCEPT ![desk[h].crew] = desk[h].to]
  /\ Done(h)
  /\ UNCHANGED <<firm, doc, sent>>

-----------------------------------------------------------------------------
(* Documents.  recordCredential and submitCredential write the same row,   *)
(* unverified; the dates include the last day.                             *)

recordCredential(d, from, to) ==
  /\ doc[d].state = "none" /\ crew[DocOf[d].crew] # "none" /\ from <= to
  /\ doc' = [doc EXCEPT ![d] = [state |-> "unverified", from |-> from,
                                to |-> to]]
  /\ UNCHANGED <<firm, crew, sent, desk>>

verifyCredentialAsked(h, d) ==
  /\ doc[d].state = "unverified"
  /\ Reads(h, [op |-> "verify", doc |-> d])

(* ac_credential_verification_is_earned: a verified document is immutable. *)
Verified(d) ==
  IF doc[d].state = "unverified"
  THEN [doc EXCEPT ![d].state = "verified"] ELSE doc

verifyCredential(h) ==
  /\ desk[h].op = "verify"
  /\ doc' = Verified(desk[h].doc)
  /\ Done(h)
  /\ UNCHANGED <<firm, crew, sent>>

-----------------------------------------------------------------------------
(* The gate.                                                               *)

REQUIRED(c) ==
  IF FirmOf[c] = "ours" THEN {"license", "background_check"}
  ELSE {"insurance", "license", "background_check"}

(* Mutant: the documents are asked of the day the work starts.             *)
CoversWindow_Start(d, j) ==
  doc[d].from <= FirstDay[j] /\ FirstDay[j] <= doc[d].to

CoversWindow(d, j) == doc[d].from <= FirstDay[j] /\ LastDay[j] <= doc[d].to

Clears(d, c, kind, j) ==
  /\ DocOf[d] = [crew |-> c, kind |-> kind]
  /\ doc[d].state = "verified" /\ CoversWindow(d, j)

(* The job is locked FOR UPDATE; the gate reads everything else unlocked.  *)
assignCrewAsked(h, j, c) ==
  /\ sent[j] = Unsent /\ KindOf[c] = WorkOf[j]
  /\ \A k \in Desks : desk[k].op = "assign" => desk[k].job # j
  /\ crew[c] = "on"
  /\ FirmOf[c] # "ours" => firm[FirmOf[c]].status = "active"
  /\ \E cites \in SUBSET Docs :
       /\ \A kind \in REQUIRED(c) : \E d \in cites : Clears(d, c, kind, j)
       /\ \A d \in cites : \E kind \in REQUIRED(c) :
            Clears(d, c, kind, j) /\ \A e \in cites : DocOf[e] = DocOf[d] => e = d
       /\ Reads(h, [op |-> "assign", job |-> j, crew |-> c, cites |-> cites])

(* ac_clearance_is_earned and assignment_gate ask again of each document.  *)
assignCrew(h) ==
  /\ desk[h].op = "assign"
  /\ LET j == desk[h].job c == desk[h].crew cites == desk[h].cites IN
     sent' = IF \A d \in cites : Clears(d, c, DocOf[d].kind, j)
             THEN [sent EXCEPT ![j] = [crew |-> c, cites |-> cites]]
             ELSE sent
  /\ Done(h)
  /\ UNCHANGED <<firm, crew, doc>>

release(j) ==
  /\ sent[j] # Unsent
  /\ \A k \in Desks : desk[k].op = "assign" => desk[k].job # j
  /\ sent' = [sent EXCEPT ![j] = Unsent]
  /\ UNCHANGED <<firm, crew, doc, desk>>

(* A request fails after its reads, its locks given up.                    *)
netLost(h) == desk[h] # Idle /\ Done(h) /\ UNCHANGED netTables

NetNext ==
  \/ \E f \in Firms, msa \in {"yes", "no"} : createFirm(f, msa)
  \/ \E d \in Docs, from, to \in Days : recordCredential(d, from, to)
  \/ \E j \in Calls : release(j)
  \/ \E h \in Desks :
       \/ \E f \in Firms, to \in FirmStatuses \cup {"same"},
            msa \in {"yes", "no", "same"} : updateFirmAsked(h, f, to, msa)
       \/ updateFirm(h)
       \/ \E c \in Crews :
            \/ createCrewAsked(h, c) \/ enrollCrewAsked(h, c)
            \/ retireCrewAsked(h, c)
            \/ \E to \in {"on", "off"} : updateCrewAsked(h, c, to)
            \/ \E j \in Calls : assignCrewAsked(h, j, c)
       \/ crewWrite(h)
       \/ \E d \in Docs : verifyCredentialAsked(h, d)
       \/ verifyCredential(h)
       \/ assignCrew(h) \/ netLost(h)

NetSpec == NetInit /\ [][NetNext]_netVars

-----------------------------------------------------------------------------
(* Work that is sent rests on a verified document of each kind the crew's  *)
(* employment asks for, every one covering the whole window, whatever has  *)
(* happened to the crew, its firm and its papers since the gate was read.  *)
SentIsCovered ==
  \A j \in Calls : sent[j] # Unsent =>
    \A kind \in REQUIRED(sent[j].crew) : \E d \in sent[j].cites :
      /\ DocOf[d] = [crew |-> sent[j].crew, kind |-> kind]
      /\ doc[d].state = "verified"
      /\ doc[d].from <= FirstDay[j] /\ LastDay[j] <= doc[d].to
=============================================================================
