-------------------------- MODULE NetworkProofs -----------------------------
(***************************************************************************)
(* Who may work, and who gets in: the firms' documents and crews, the      *)
(* roster, what Intake makes of leads, photos and pins, and sessions and   *)
(* device shifts, for any number of each and of requests that overlap.     *)
(***************************************************************************)
EXTENDS Network, Technicians, Intake, Access, FiniteSetTheorems, TLAPS

-----------------------------------------------------------------------------
(***************************************************************************)
(* Network. The gate is read in one step and the assignment written in     *)
(* another; what carries the property over is that a verified document     *)
(* never changes again (DocumentsStand).                                   *)
(***************************************************************************)

(* The documents cited cover the job's window, one of each kind.           *)
Covered(c, j, cites) ==
  \A kind \in REQUIRED(c) : \E d \in cites :
    /\ DocOf[d] = [crew |-> c, kind |-> kind]
    /\ doc[d].state = "verified"
    /\ doc[d].from <= FirstDay[j] /\ LastDay[j] <= doc[d].to

NetworkShape == DOMAIN doc = Docs /\ DOMAIN sent = Calls /\ DOMAIN desk = Desks

(* What a request is about to send is covered, too.                        *)
DeskIsCovered ==
  \A h \in Desks : desk[h].op = "assign" =>
    /\ desk[h].cites \subseteq Docs
    /\ Covered(desk[h].crew, desk[h].job, desk[h].cites)

SentCites ==
  \A j \in Calls : sent[j] # Unsent =>
    /\ sent[j].cites \subseteq Docs
    /\ Covered(sent[j].crew, j, sent[j].cites)

NetworkInv == NetworkShape /\ DeskIsCovered /\ SentCites

(* Nothing is on file and nothing is sent.                                 *)
LEMMA NetworkInitInv == NetInit => NetworkInv
BY DEF NetInit, NetworkInv, NetworkShape, DeskIsCovered, SentCites, Idle


(* What a request may read that does not send anybody.                     *)
OtherRead(h) ==
  \/ \E f \in Firms, to \in FirmStatuses \cup {"same"},
       msa \in {"yes", "no", "same"} : updateFirmAsked(h, f, to, msa)
  \/ \E c \in Crews :
       \/ createCrewAsked(h, c) \/ enrollCrewAsked(h, c)
       \/ retireCrewAsked(h, c)
       \/ \E to \in {"on", "off"} : updateCrewAsked(h, c, to)
  \/ \E d \in Docs : verifyCredentialAsked(h, d)

(* Each of them is a read, and none is an assignment.                      *)
LEMMA OtherReads ==
  ASSUME NEW h \in Desks, OtherRead(h)
  PROVE  \E what : Reads(h, what) /\ what.op # "assign"
<1>1. ASSUME NEW f, NEW to, NEW msa, updateFirmAsked(h, f, to, msa)
      PROVE  \E what : Reads(h, what) /\ what.op # "assign"
  <2> DEFINE it == [op |-> "firm", firm |-> f, to |-> to, msa |-> msa]
  <2>1. Reads(h, it)
    BY <1>1 DEF updateFirmAsked
  <2>2. it.op # "assign"
    OBVIOUS
  <2> QED
    BY <2>1, <2>2
<1>2. ASSUME NEW c, NEW to, Reads(h, [op |-> "crew", crew |-> c, to |-> to])
      PROVE  \E what : Reads(h, what) /\ what.op # "assign"
  <2> DEFINE it == [op |-> "crew", crew |-> c, to |-> to]
  <2>1. it.op # "assign"
    OBVIOUS
  <2> QED
    BY <1>2, <2>1
<1>3. ASSUME NEW d, verifyCredentialAsked(h, d)
      PROVE  \E what : Reads(h, what) /\ what.op # "assign"
  <2> DEFINE it == [op |-> "verify", doc |-> d]
  <2>1. Reads(h, it)
    BY <1>3 DEF verifyCredentialAsked
  <2>2. it.op # "assign"
    OBVIOUS
  <2> QED
    BY <2>1, <2>2
<1> QED
  BY <1>1, <1>2, <1>3 DEF OtherRead, createCrewAsked, enrollCrewAsked,
                          retireCrewAsked, updateCrewAsked

(* No step changes a document that is verified.                            *)
LEMMA DocumentsStand ==
  ASSUME NetworkShape, [NetNext]_netVars
  PROVE  /\ DOMAIN doc' = Docs
         /\ \A d \in Docs : doc[d].state = "verified" => doc'[d] = doc[d]
<1> USE DEF NetworkShape
<1>1. ASSUME NEW d \in Docs, NEW from, NEW to, recordCredential(d, from, to)
      PROVE  /\ DOMAIN doc' = Docs
             /\ \A e \in Docs : doc[e].state = "verified" => doc'[e] = doc[e]
  BY <1>1 DEF recordCredential
<1>2. ASSUME NEW h \in Desks, verifyCredential(h)
      PROVE  /\ DOMAIN doc' = Docs
             /\ \A e \in Docs : doc[e].state = "verified" => doc'[e] = doc[e]
  BY <1>2 DEF verifyCredential, Verified
<1>3. ASSUME NEW h \in Desks, NEW what, Reads(h, what)
      PROVE  doc' = doc
  BY <1>3 DEF Reads, netTables
<1>4. CASE \E h \in Desks :
             \/ updateFirm(h) \/ crewWrite(h) \/ assignCrew(h) \/ netLost(h)
             \/ \E j \in Calls, c \in Crews : assignCrewAsked(h, j, c)
  BY <1>3, <1>4 DEF updateFirm, crewWrite, assignCrew, netLost, netTables,
                    assignCrewAsked
<1>5. CASE \/ \E f \in Firms, msa \in {"yes", "no"} : createFirm(f, msa)
           \/ \E j \in Calls : release(j)
           \/ UNCHANGED netVars
  BY <1>5 DEF createFirm, release, netVars
<1>6. CASE \E h \in Desks : OtherRead(h)
  BY <1>3, <1>6, OtherReads
<1> QED
  BY <1>1, <1>2, <1>4, <1>5, <1>6 DEF NetNext, OtherRead

(* A step that sends nothing, and after which no request is about to send  *)
(* anything it was not before.                                             *)
LEMMA SendsNothing ==
  ASSUME NetworkInv, [NetNext]_netVars, DOMAIN sent' = Calls, DOMAIN desk' = Desks,
         \A j \in Calls : sent'[j] \in {sent[j], Unsent},
         \A h \in Desks : desk'[h] = desk[h] \/ desk'[h].op # "assign"
  PROVE  NetworkInv'
<1>1. NetworkShape'
  BY DocumentsStand DEF NetworkInv, NetworkShape
<1>2. DeskIsCovered'
  <2> SUFFICES ASSUME NEW h \in Desks, desk'[h].op = "assign"
               PROVE  /\ desk'[h].cites \subseteq Docs
                      /\ Covered(desk[h].crew, desk[h].job, desk[h].cites)'
    BY DEF DeskIsCovered
  <2>1. /\ desk'[h] = desk[h] /\ desk[h].cites \subseteq Docs
        /\ Covered(desk[h].crew, desk[h].job, desk[h].cites)
    BY DEF NetworkInv, DeskIsCovered
  <2>2. Covered(desk[h].crew, desk[h].job, desk[h].cites)'
    BY <2>1, DocumentsStand DEF NetworkInv, Covered, REQUIRED
  <2> QED
    BY <2>1, <2>2
<1>3. SentCites'
  <2> SUFFICES ASSUME NEW j \in Calls, sent'[j] # Unsent
               PROVE  /\ sent'[j].cites \subseteq Docs
                      /\ Covered(sent[j].crew, j, sent[j].cites)'
    BY DEF SentCites
  <2>1. /\ sent'[j] = sent[j] /\ sent[j].cites \subseteq Docs
        /\ Covered(sent[j].crew, j, sent[j].cites)
    BY DEF NetworkInv, SentCites
  <2>2. Covered(sent[j].crew, j, sent[j].cites)'
    BY <2>1, DocumentsStand DEF NetworkInv, Covered, REQUIRED
  <2> QED
    BY <2>1, <2>2
<1> QED
  BY <1>1, <1>2, <1>3 DEF NetworkInv

(* The gate lets a request through only with documents that cover.         *)
LEMMA AskedInv ==
  ASSUME NetworkInv, NEW h \in Desks, NEW j \in Calls, NEW c \in Crews,
         assignCrewAsked(h, j, c)
  PROVE  NetworkInv'
<1>1. PICK cites \in SUBSET Docs :
        /\ \A kind \in REQUIRED(c) : \E d \in cites : Clears(d, c, kind, j)
        /\ Reads(h, [op |-> "assign", job |-> j, crew |-> c, cites |-> cites])
  BY DEF assignCrewAsked
<1>2. Covered(c, j, cites)
  BY <1>1 DEF Covered, Clears, CoversWindow
<1>3. /\ doc' = doc /\ sent' = sent /\ DOMAIN desk' = Desks
      /\ desk'[h] = [op |-> "assign", job |-> j, crew |-> c, cites |-> cites]
      /\ \A k \in Desks \ {h} : desk'[k] = desk[k]
  BY <1>1 DEF Reads, netTables, NetworkInv, NetworkShape
<1>4. NetworkShape' /\ SentCites'
  BY <1>3 DEF NetworkInv, NetworkShape, SentCites, Covered
<1>5. DeskIsCovered'
  BY <1>1, <1>2, <1>3 DEF NetworkInv, DeskIsCovered, Covered
<1> QED
  BY <1>4, <1>5 DEF NetworkInv

(* What the request was about to send is what is sent.                     *)
LEMMA AssignInv ==
  ASSUME NetworkInv, NEW h \in Desks, assignCrew(h)
  PROVE  NetworkInv'
<1> DEFINE j == desk[h].job
           a == [crew |-> desk[h].crew, cites |-> desk[h].cites]
<1>1. /\ desk[h].op = "assign" /\ a.cites \subseteq Docs
      /\ Covered(a.crew, j, a.cites)
  BY DEF assignCrew, NetworkInv, DeskIsCovered
<1>2. /\ doc' = doc /\ DOMAIN sent' = Calls
      /\ \A k \in Calls : sent'[k] = sent[k] \/ (k = j /\ sent'[k] = a)
      /\ DOMAIN desk' = Desks
      /\ \A k \in Desks : desk'[k] = desk[k] \/ desk'[k] = Idle
  BY DEF assignCrew, Done, NetworkInv, NetworkShape
<1> HIDE DEF j, a
<1>3. NetworkShape'
  BY <1>2 DEF NetworkInv, NetworkShape
<1>4. DeskIsCovered'
  BY <1>2 DEF NetworkInv, DeskIsCovered, Covered, Idle
<1>5. SentCites'
  BY <1>1, <1>2 DEF NetworkInv, SentCites, Covered
<1> QED
  BY <1>3, <1>4, <1>5 DEF NetworkInv

(* Every step of every request keeps the invariant.                        *)
LEMMA NetworkNextInv == NetworkInv /\ [NetNext]_netVars => NetworkInv'
<1> SUFFICES ASSUME NetworkInv, [NetNext]_netVars PROVE NetworkInv'
  OBVIOUS
<1>1. CASE \E h \in Desks, j \in Calls, c \in Crews : assignCrewAsked(h, j, c)
  BY <1>1, AskedInv
<1>2. CASE \E h \in Desks : assignCrew(h)
  BY <1>2, AssignInv
<1>3. CASE \E j \in Calls : release(j)
  BY <1>3, SendsNothing DEF release, NetworkInv, NetworkShape
<1>4. ASSUME NEW h \in Desks, NEW what, Reads(h, what), what.op # "assign"
      PROVE  NetworkInv'
  BY <1>4, SendsNothing DEF Reads, netTables, NetworkInv, NetworkShape
<1>5. CASE sent' = sent /\ DOMAIN desk' = Desks
           /\ \A h \in Desks : desk'[h] = desk[h] \/ desk'[h] = Idle
  BY <1>5, SendsNothing DEF NetworkInv, NetworkShape, Idle
<1>6. CASE \/ UNCHANGED netVars
           \/ \E f \in Firms, msa \in {"yes", "no"} : createFirm(f, msa)
           \/ \E d \in Docs, from, to \in Days : recordCredential(d, from, to)
  BY <1>5, <1>6 DEF netVars, netTables, createFirm, recordCredential, NetworkInv,
                    NetworkShape
<1>7. CASE \E h \in Desks : \/ updateFirm(h) \/ crewWrite(h)
                            \/ verifyCredential(h) \/ netLost(h)
  <2>1. PICK h \in Desks : sent' = sent /\ desk' = [desk EXCEPT ![h] = Idle]
    BY <1>7 DEF updateFirm, crewWrite, verifyCredential, netLost, Done,
                netTables
  <2> QED
    BY <1>5, <2>1 DEF NetworkInv, NetworkShape
<1>8. CASE \E h \in Desks : OtherRead(h)
  BY <1>4, <1>8, OtherReads
<1> QED
  BY <1>1, <1>2, <1>3, <1>6, <1>7, <1>8 DEF NetNext, OtherRead

(* Whatever becomes of crews, firms and papers after the gate was read,    *)
(* work that is sent rests on verified documents over the whole window.    *)
THEOREM SentWorkIsCovered == NetSpec => []SentIsCovered
<1>1. NetworkInv => SentIsCovered
  BY DEF NetworkInv, SentCites, SentIsCovered, Covered
<1> QED
  BY <1>1, NetworkInitInv, NetworkNextInv, PTL DEF NetSpec

-----------------------------------------------------------------------------
(***************************************************************************)
(* Technicians. What a request has written and not yet committed is judged *)
(* against committed rows, so the invariant says that it stays right until *)
(* it is committed: nobody else has written the same technician or the     *)
(* same crew (WrittenApart), and it still fits (WrittenFits).              *)
(***************************************************************************)

RosterShape ==
  /\ DOMAIN tech = Techs /\ DOMAIN seating = Offices
  /\ \A h \in Offices : seating[h] # NotSeating => seating[h].tech \in Techs

WrittenFits ==
  \A h \in Offices :
    seating[h].written => Fits(seating[h].tech, seating[h].set)

WrittenApart ==
  \A h, k \in Offices : (h # k /\ seating[h].written /\ seating[k].written) =>
    /\ seating[h].tech # seating[k].tech
    /\ seating[h].set.crew = "none" \/ seating[h].set.crew # seating[k].set.crew

RosterInv == RosterShape /\ WrittenFits /\ WrittenApart /\ SeatsAreSound

(* An empty roster.                                                        *)
LEMMA RosterInitInv == TechInit => RosterInv
<1> SUFFICES ASSUME TechInit PROVE RosterInv
  OBVIOUS
<1>1. \A h \in Offices : seating[h] = NotSeating /\ ~seating[h].written
  BY DEF TechInit, NotSeating
<1>2. RosterShape
  BY <1>1 DEF TechInit, RosterShape, NotSeating
<1>3. WrittenFits /\ WrittenApart
  BY <1>1 DEF WrittenFits, WrittenApart
<1>4. SeatsAreSound
  BY DEF TechInit, SeatsAreSound, NoTech
<1> QED
  BY <1>2, <1>3, <1>4 DEF RosterInv

(* Asking for a seat, failing, and the end of a firm change no row and     *)
(* write none.                                                             *)
LEMMA UnwrittenInv ==
  ASSUME RosterInv, tech' = tech, DOMAIN seating' = Offices,
         \A h \in Offices : \/ seating'[h] = seating[h]
                            \/ seating'[h] = NotSeating
                            \/ /\ seating'[h].tech \in Techs
                               /\ seating'[h].written = FALSE
  PROVE  RosterInv'
<1>1. \A h \in Offices : seating'[h].written =>
        seating'[h] = seating[h] /\ seating[h].written
  BY DEF NotSeating
<1>2. RosterShape'
  BY DEF RosterInv, RosterShape, NotSeating
<1>3. WrittenFits'
  <2> SUFFICES ASSUME NEW k \in Offices, seating'[k].written
               PROVE  Fits(seating[k].tech, seating[k].set)'
    BY DEF WrittenFits
  <2>1. seating'[k] = seating[k] /\ Fits(seating[k].tech, seating[k].set)
    BY <1>1 DEF RosterInv, WrittenFits
  <2> QED
    BY <2>1 DEF Fits
<1>4. WrittenApart'
  BY <1>1 DEF RosterInv, WrittenApart
<1>5. SeatsAreSound'
  BY DEF RosterInv, SeatsAreSound
<1> QED
  BY <1>2, <1>3, <1>4, <1>5 DEF RosterInv

(* A row is written only where no other request has its technician or its  *)
(* crew, and only if it fits.                                              *)
LEMMA WriteInv ==
  ASSUME RosterInv, NEW h \in Offices, technicianWrite(h)
  PROVE  RosterInv'
<1> DEFINE t == seating[h].tech
           row == Merged(tech[t], seating[h].set)
<1>1. CASE ~Fits(t, row)
  <2>1. tech' = tech /\ seating' = [seating EXCEPT ![h] = NotSeating]
    BY <1>1 DEF technicianWrite
  <2> QED
    BY <2>1, UnwrittenInv DEF RosterInv, RosterShape
<1>2. CASE Fits(t, row)
  <2>1. /\ tech' = tech /\ t \in Techs
        /\ seating' = [seating EXCEPT ![h] = [tech |-> t, set |-> row,
                                              written |-> TRUE]]
    BY <1>2 DEF technicianWrite, RosterInv, RosterShape
  <2>2. \A k \in Offices \ {h} : seating[k].written =>
          /\ seating[k].tech # t
          /\ row.crew = "none" \/ seating[k].set.crew # row.crew
    BY DEF technicianWrite, UnitIsFree
  <2>3. /\ seating'[h] = [tech |-> t, set |-> row, written |-> TRUE]
        /\ \A k \in Offices \ {h} : seating'[k] = seating[k]
    BY <2>1 DEF RosterInv, RosterShape
  <2> HIDE DEF t, row
  <2>4. RosterShape'
    BY <2>1, <2>3 DEF RosterInv, RosterShape, NotSeating
  <2>5. WrittenFits'
    BY <1>2, <2>1, <2>3 DEF RosterInv, WrittenFits, Fits
  <2>6. WrittenApart'
    BY <2>2, <2>3 DEF RosterInv, WrittenApart
  <2>7. SeatsAreSound'
    BY <2>1 DEF RosterInv, SeatsAreSound
  <2> QED
    BY <2>4, <2>5, <2>6, <2>7 DEF RosterInv
<1> QED
  BY <1>1, <1>2

(* A commit makes one written row the technician's; the others still fit,  *)
(* for theirs is another crew.                                             *)
LEMMA RosterCommitInv ==
  ASSUME RosterInv, NEW h \in Offices, technicianCommit(h)
  PROVE  RosterInv'
<1> DEFINE t == seating[h].tech
           row == seating[h].set
<1>1. seating[h].written /\ t \in Techs /\ Fits(t, row)
  BY DEF technicianCommit, RosterInv, RosterShape, WrittenFits, NotSeating
<1>2. /\ tech'[t] = row /\ \A u \in Techs \ {t} : tech'[u] = tech[u]
      /\ DOMAIN tech' = Techs
  BY <1>1 DEF technicianCommit, RosterInv, RosterShape
<1>3. /\ seating'[h] = NotSeating /\ DOMAIN seating' = Offices
      /\ \A k \in Offices \ {h} : seating'[k] = seating[k]
  BY DEF technicianCommit, RosterInv, RosterShape
<1>4. \A k \in Offices \ {h} : seating[k].written =>
        /\ seating[k].tech # t
        /\ row.crew = "none" \/ row.crew # seating[k].set.crew
  BY <1>1 DEF RosterInv, WrittenApart
<1>5. \A k \in Offices : seating'[k].written =>
        k # h /\ seating'[k] = seating[k] /\ seating[k].written
  BY <1>3 DEF NotSeating
<1> HIDE DEF t, row
<1>6. RosterShape'
  BY <1>2, <1>3 DEF RosterInv, RosterShape, NotSeating
<1>7. WrittenFits'
  <2> SUFFICES ASSUME NEW k \in Offices, seating'[k].written
               PROVE  Fits(seating[k].tech, seating[k].set)'
    BY DEF WrittenFits
  <2>1. /\ k # h /\ seating'[k] = seating[k] /\ seating[k].written
        /\ Fits(seating[k].tech, seating[k].set)
    BY <1>5 DEF RosterInv, WrittenFits
  <2>2. row.crew = "none" \/ row.crew # seating[k].set.crew
    BY <1>4, <2>1
  <2> QED
    BY <1>2, <2>1, <2>2 DEF Fits
<1>8. WrittenApart'
  BY <1>5 DEF RosterInv, WrittenApart
<1>9. SeatsAreSound'
  BY <1>1, <1>2 DEF RosterInv, SeatsAreSound, Fits
<1> QED
  BY <1>6, <1>7, <1>8, <1>9 DEF RosterInv

(* Every step of every request keeps the invariant.                        *)
LEMMA RosterNextInv == RosterInv /\ [TechNext]_techVars => RosterInv'
<1> SUFFICES ASSUME RosterInv, [TechNext]_techVars PROVE RosterInv'
  OBVIOUS
<1>1. ASSUME NEW h \in Offices, technicianWrite(h) PROVE RosterInv'
  BY <1>1, WriteInv
<1>2. ASSUME NEW h \in Offices, technicianCommit(h) PROVE RosterInv'
  BY <1>2, RosterCommitInv
<1>3. CASE \/ UNCHANGED techVars
           \/ \E t \in Techs : firmEnds(Employer[t])
  BY <1>3, UnwrittenInv DEF techVars, firmEnds, RosterInv, RosterShape
<1>4. ASSUME NEW h \in Offices, NEW t \in Techs, NEW set, Seats(h, t, set)
      PROVE  RosterInv'
  BY <1>4, UnwrittenInv DEF Seats, RosterInv, RosterShape
<1>5. ASSUME NEW h \in Offices, technicianLost(h) PROVE RosterInv'
  BY <1>5, UnwrittenInv DEF technicianLost, RosterInv, RosterShape
<1> QED
  BY <1>1, <1>2, <1>3, <1>4, <1>5
  DEF TechNext, recordTechnicianAsked, updateTechnicianAsked

(* However requests to record, move, promote and reactivate people         *)
(* interleave, nobody sits on a crew of another kind or employer, and a    *)
(* service unit has one technician.                                        *)
THEOREM RosterIsSound == TechSpec => []SeatsAreSound
<1>1. RosterInv => SeatsAreSound
  BY DEF RosterInv
<1> QED
  BY <1>1, RosterInitInv, RosterNextInv, PTL DEF TechSpec

-----------------------------------------------------------------------------
(***************************************************************************)
(* Intake. Each of the three handlers has a part of the invariant that     *)
(* says what its lock, or its second look, keeps true between its steps.   *)
(***************************************************************************)

(* A lead that a converter holds is not converted, and is no other's.      *)
LeadHeld ==
  /\ DOMAIN lead = Leads /\ DOMAIN converting = Converters
  /\ homes \subseteq [lead : Leads, by : Converters]
  /\ \A h \in Converters : converting[h] # "none" =>
       converting[h] \in Leads /\ lead[converting[h]] = "none"
  /\ \A h, k \in Converters :
       (h # k /\ converting[h] # "none") => converting[h] # converting[k]

(* While a photo is under way its request has room for it, and no other    *)
(* photo is; one that is stored has its object.                            *)
PhotoHeld ==
  /\ DOMAIN pic = Pics
  /\ \A q \in Tickets : \A s \in UnderWay(q) :
       /\ Cardinality(Attached(q)) < PHOTOS_PER_REQUEST
       /\ \A r \in UnderWay(q) : r = s
  /\ \A s \in Pics : pic[s].stage = "stored" => s \in bucket

(* An address that is to be written has the point of its own words.        *)
PointHeld ==
  /\ DOMAIN spot = Spots /\ DOMAIN locating = Locators
  /\ \A h \in Locators : locating[h].step = "update" =>
       locating[h].address.pin = locating[h].address.words

LeadInv  == LeadHeld /\ OneHomePerLead
PhotoInv == PhotoHeld /\ PhotosAreSound
SpotInv  == PointHeld /\ PinIsForTheAddress
IntakeInv == LeadInv /\ PhotoInv /\ SpotInv

(* Nothing has come in.                                                    *)
LEMMA IntakeInitInv == IntakeInit => IntakeInv
<1> SUFFICES ASSUME IntakeInit PROVE IntakeInv
  OBVIOUS
<1>1. LeadInv
  BY DEF IntakeInit, LeadInv, LeadHeld, OneHomePerLead
<1>2. \A q \in Tickets : UnderWay(q) = {} /\ Attached(q) = {}
  BY DEF IntakeInit, UnderWay, Attached, NoPic
<1>3. PhotoInv
  <2>1. Cardinality({}) = 0
    BY FS_EmptySet
  <2>2. PhotosAreSound
    <3>1. 0 <= PHOTOS_PER_REQUEST
      BY IntakeAssumption
    <3> QED
      BY <1>2, <2>1, <3>1 DEF PhotosAreSound
  <2>3. PhotoHeld
    BY <1>2 DEF IntakeInit, PhotoHeld, NoPic
  <2> QED
    BY <2>2, <2>3 DEF PhotoInv
<1>4. SpotInv
  BY DEF IntakeInit, SpotInv, PointHeld, PinIsForTheAddress, NotAsked
<1> QED
  BY <1>1, <1>3, <1>4 DEF IntakeInv

-----------------------------------------------------------------------------
(* Leads: the converter that commits is the only one with its lead.        *)
LEMMA LeadStep == LeadInv /\ LeadNext => LeadInv'
<1> SUFFICES ASSUME LeadInv, NEW h \in Converters,
                    \/ \E l \in Leads : convertLeadRead(h, l)
                    \/ convertLead(h) \/ convertLost(h)
             PROVE  LeadInv'
  BY DEF LeadNext
<1> USE DEF LeadInv, LeadHeld, OneHomePerLead
<1>1. ASSUME NEW l \in Leads, convertLeadRead(h, l) PROVE LeadInv'
  BY <1>1 DEF convertLeadRead, LeadLocked
<1>2. CASE convertLost(h)
  BY <1>2 DEF convertLost
<1>3. CASE convertLead(h)
  <2> DEFINE l == converting[h]
  <2>1. /\ l \in Leads /\ lead[l] = "none"
        /\ homes' = homes \cup {[lead |-> l, by |-> h]}
        /\ lead'[l] = h /\ DOMAIN lead' = Leads
        /\ \A k \in Leads \ {l} : lead'[k] = lead[k]
        /\ converting' = [converting EXCEPT ![h] = "none"]
    BY <1>3 DEF convertLead
  <2>2. \A k \in Converters \ {h} : converting[k] # l
    BY <2>1, <1>3 DEF convertLead
  <2>3. \A x \in homes : x.lead # l
    BY <2>1, IntakeAssumption
  <2> HIDE DEF l
  <2>4. LeadHeld'
    BY <2>1, <2>2
  <2>5. OneHomePerLead'
    BY <2>1, <2>3
  <2> QED
    BY <2>4, <2>5
<1> QED
  BY <1>1, <1>2, <1>3

-----------------------------------------------------------------------------
(* Photos.                                                                 *)

(* A step that only takes photos out of the way, or on their way, leaves   *)
(* what is attached as it is.                                              *)
LEMMA PhotoGoesOn ==
  ASSUME PhotoInv, NEW s \in Pics, DOMAIN pic' = Pics,
         \A r \in Pics \ {s} : pic'[r] = pic[r],
         pic'[s].of = pic[s].of,
         pic[s].stage \in {"counted", "rows", "stored"},
         pic'[s].stage \in {"counted", "rows", "stored", "gone"},
         bucket \subseteq bucket',
         pic'[s].stage = "stored" => s \in bucket'
  PROVE  PhotoInv'
<1>1. \A q \in Tickets : /\ UnderWay(q)' \subseteq UnderWay(q)
                         /\ Attached(q)' = Attached(q)
  BY DEF UnderWay, Attached
<1>2. PhotoHeld'
  <2>1. \A r \in Pics : pic'[r].stage = "stored" => r \in bucket'
    BY DEF PhotoInv, PhotoHeld
  <2> QED
    BY <1>1, <2>1 DEF PhotoInv, PhotoHeld
<1>3. PhotosAreSound'
  BY <1>1 DEF PhotoInv, PhotosAreSound
<1> QED
  BY <1>2, <1>3 DEF PhotoInv

(* A photo is counted where none is under way and there is room.           *)
LEMMA AttachStep ==
  ASSUME PhotoInv, NEW s \in Pics, NEW q \in Tickets, attachPhoto(s, q)
  PROVE  PhotoInv'
<1>1. /\ pic'[s] = [stage |-> "counted", of |-> q] /\ DOMAIN pic' = Pics
      /\ \A r \in Pics \ {s} : pic'[r] = pic[r]
      /\ pic[s].stage = "none" /\ bucket' = bucket
  BY DEF attachPhoto, PhotoInv, PhotoHeld, NoPic
<1>2. \A t \in Tickets : Attached(t)' = Attached(t)
  BY <1>1 DEF Attached
<1>3. \A t \in Tickets : UnderWay(t)' = IF t = q THEN {s} ELSE UnderWay(t)
  BY <1>1 DEF attachPhoto, MayAttachPhoto, UnderWay
<1>4. PhotoHeld'
  BY <1>1, <1>2, <1>3 DEF PhotoInv, PhotoHeld, attachPhoto, MayAttachPhoto
<1>5. PhotosAreSound'
  BY <1>1, <1>2 DEF PhotoInv, PhotosAreSound
<1> QED
  BY <1>4, <1>5 DEF PhotoInv

(* One more element is at most one more.                                   *)
LEMMA OneMore ==
  ASSUME NEW S, IsFiniteSet(S), NEW x
  PROVE  /\ Cardinality(S) \in Nat
         /\ Cardinality(S \cup {x}) <= Cardinality(S) + 1
<1>1. Cardinality(S) \in Nat
  BY FS_CardinalityType
<1>2. Cardinality(S \cup {x}) =
        IF x \in S THEN Cardinality(S) ELSE Cardinality(S) + 1
  BY FS_AddElement
<1> QED
  BY <1>1, <1>2

(* A photo that is kept is the one its request had room for.               *)
LEMMA CommitStep ==
  ASSUME PhotoInv, NEW s \in Pics, commitPhoto(s)
  PROVE  PhotoInv'
<1>1. /\ pic'[s].stage = "kept" /\ pic'[s].of = pic[s].of
      /\ DOMAIN pic' = Pics /\ \A r \in Pics \ {s} : pic'[r] = pic[r]
      /\ pic[s].stage = "stored" /\ bucket' = bucket /\ s \in bucket
  BY DEF commitPhoto, PhotoInv, PhotoHeld
<1>2. \A q \in Tickets :
        /\ UnderWay(q)' = UnderWay(q) \ {s}
        /\ Attached(q)' = IF pic[s].of = q THEN Attached(q) \cup {s}
                          ELSE Attached(q)
  BY <1>1 DEF UnderWay, Attached
<1>3. \A q \in Tickets : pic[s].of = q => UnderWay(q) = {s}
  BY <1>1 DEF PhotoInv, PhotoHeld, UnderWay
<1>4. PhotoHeld'
  <2> SUFFICES ASSUME NEW q \in Tickets, NEW r \in UnderWay(q)'
               PROVE  /\ Cardinality(Attached(q)') < PHOTOS_PER_REQUEST
                      /\ \A k \in UnderWay(q)' : k = r
    BY <1>1 DEF PhotoInv, PhotoHeld
  <2>1. pic[s].of # q
    BY <1>2, <1>3
  <2> QED
    BY <1>2, <2>1 DEF PhotoInv, PhotoHeld
<1>5. PhotosAreSound'
  <2> SUFFICES ASSUME NEW q \in Tickets
               PROVE  /\ Cardinality(Attached(q)') <= PHOTOS_PER_REQUEST
                      /\ Attached(q)' \subseteq bucket'
    BY DEF PhotosAreSound
  <2>1. CASE pic[s].of = q
    <3>1. Cardinality(Attached(q)) < PHOTOS_PER_REQUEST
      BY <1>3, <2>1 DEF PhotoInv, PhotoHeld
    <3>2. IsFiniteSet(Attached(q))
      BY IntakeAssumption, FS_Subset DEF Attached
    <3>3. /\ Cardinality(Attached(q)) \in Nat
          /\ Cardinality(Attached(q) \cup {s}) <= Cardinality(Attached(q)) + 1
      BY <3>2, OneMore
    <3>4. Cardinality(Attached(q) \cup {s}) \in Nat
      BY <3>2, FS_AddElement, FS_CardinalityType
    <3>5. Cardinality(Attached(q) \cup {s}) <= PHOTOS_PER_REQUEST
      BY <3>1, <3>3, <3>4, IntakeAssumption
    <3> QED
      BY <1>1, <1>2, <2>1, <3>5 DEF PhotoInv, PhotosAreSound
  <2>2. CASE pic[s].of # q
    BY <1>1, <1>2, <2>2 DEF PhotoInv, PhotosAreSound
  <2> QED
    BY <2>1, <2>2
<1> QED
  BY <1>4, <1>5 DEF PhotoInv

(* The steps of a photo's transaction, and of the request's answer.        *)
LEMMA PhotoStep == PhotoInv /\ PhotoNext => PhotoInv'
<1> SUFFICES ASSUME PhotoInv, PhotoNext PROVE PhotoInv'
  OBVIOUS
<1>1. ASSUME NEW q \in Tickets, requestAnswered(q) PROVE PhotoInv'
  BY <1>1 DEF requestAnswered, PhotoInv, PhotoHeld, PhotosAreSound, UnderWay,
              Attached
<1>2. ASSUME NEW s \in Pics, insertPhoto(s) PROVE PhotoInv'
  BY <1>2, PhotoGoesOn DEF insertPhoto, PhotoInv, PhotoHeld
<1>3. ASSUME NEW s \in Pics, storePhoto(s) PROVE PhotoInv'
  BY <1>3, PhotoGoesOn DEF storePhoto, PhotoInv, PhotoHeld
<1>4. ASSUME NEW s \in Pics, photoLost(s) PROVE PhotoInv'
  BY <1>4, PhotoGoesOn DEF photoLost, PhotoInv, PhotoHeld
<1> QED
  BY <1>1, <1>2, <1>3, <1>4, AttachStep, CommitStep DEF PhotoNext

-----------------------------------------------------------------------------
(* Sites: an address is written with the words it was found for.           *)
LEMMA SpotStep == SpotInv /\ SpotNext => SpotInv'
<1> SUFFICES ASSUME SpotInv, SpotNext PROVE SpotInv'
  OBVIOUS
<1> USE DEF SpotInv, PointHeld, PinIsForTheAddress
<1>1. ASSUME NEW h \in Locators, NEW x \in Spots, locateSiteRead(h, x)
      PROVE  SpotInv'
  BY <1>1 DEF locateSiteRead
<1>2. ASSUME NEW h \in Locators, geocodeFails(h) PROVE SpotInv'
  BY <1>2 DEF geocodeFails, NotAsked
<1>3. ASSUME NEW h \in Locators, locateSiteWrite(h) PROVE SpotInv'
  BY <1>3 DEF locateSiteWrite, StillAsked, NotAsked
<1>4. ASSUME NEW h \in Locators, locateSiteUpdate(h) PROVE SpotInv'
  BY <1>4 DEF locateSiteUpdate, NotAsked
<1>5. ASSUME NEW x \in Spots, NEW words \in Wordings, editAddress(x, words)
      PROVE  SpotInv'
  BY <1>5 DEF editAddress
<1> QED
  BY <1>1, <1>2, <1>3, <1>4, <1>5 DEF SpotNext

-----------------------------------------------------------------------------
(* Each part's steps leave the other two alone.                            *)
LEMMA IntakeNextInv == IntakeInv /\ [IntakeNext]_intakeVars => IntakeInv'
<1> SUFFICES ASSUME IntakeInv, [IntakeNext]_intakeVars PROVE IntakeInv'
  OBVIOUS
<1>1. UNCHANGED leadVars => LeadInv'
  BY DEF IntakeInv, LeadInv, LeadHeld, OneHomePerLead, leadVars
<1>2. UNCHANGED photoVars => PhotoInv'
  BY DEF IntakeInv, PhotoInv, PhotoHeld, PhotosAreSound, UnderWay, Attached,
         photoVars
<1>3. UNCHANGED spotVars => SpotInv'
  BY DEF IntakeInv, SpotInv, PointHeld, PinIsForTheAddress, spotVars
<1>4. \/ LeadNext /\ UNCHANGED <<photoVars, spotVars>>
      \/ PhotoNext /\ UNCHANGED <<leadVars, spotVars>>
      \/ SpotNext /\ UNCHANGED <<leadVars, photoVars>>
      \/ UNCHANGED <<leadVars, photoVars, spotVars>>
  BY DEF IntakeNext, intakeVars, leadVars, photoVars, spotVars
<1> QED
  BY <1>1, <1>2, <1>3, <1>4, LeadStep, PhotoStep, SpotStep DEF IntakeInv

(* The inductive invariant holds in every behaviour.                       *)
THEOREM IntakeInvariance == IntakeSpec => []IntakeInv
BY IntakeInitInv, IntakeNextInv, PTL DEF IntakeSpec

(* Any number of people converting one lead make one customer.             *)
THEOREM OneCustomerPerLead == IntakeSpec => []OneHomePerLead
<1>1. IntakeInv => OneHomePerLead
  BY DEF IntakeInv, LeadInv
<1> QED
  BY <1>1, IntakeInvariance, PTL

(* Any number of uploads at once keep to the cap, and every kept row has   *)
(* its object.                                                             *)
THEOREM PhotosKeepTheCap == IntakeSpec => []PhotosAreSound
<1>1. IntakeInv => PhotosAreSound
  BY DEF IntakeInv, PhotoInv
<1> QED
  BY <1>1, IntakeInvariance, PTL

(* However often the address changes while the geocoder is asked, a point  *)
(* is for the words it stands with.                                        *)
THEOREM PinIsNeverElsewhere == IntakeSpec => []PinIsForTheAddress
<1>1. IntakeInv => PinIsForTheAddress
  BY DEF IntakeInv, SpotInv
<1> QED
  BY <1>1, IntakeInvariance, PTL

-----------------------------------------------------------------------------
(***************************************************************************)
(* Access. The window a sign-in has read may since have been extended, and *)
(* the shift may have ended: what is kept is that no token outlasts, by    *)
(* more than the second the code rounds a spent window up to, the window   *)
(* as it is now (EndsInTime).                                              *)
(***************************************************************************)

SessionRow == [state : {"none", "live", "revoked"},
        kind : {"none", "user", "device_grant"},
        of : Grants \cup People \cup {"none"},
        claims : Claims \cup {"technician", "none"},
        iat : Nat, exp : Nat]

ShiftRow == [state : {"none", "live", "revoked"},
          device : Handsets \cup {"none"}, by : People \cup {"none"},
          from : Nat, to : Nat]

AccessTyped ==
  /\ moment \in Nat
  /\ person \in [People -> [active : BOOLEAN, claims : Claims]]
  /\ grant \in [Grants -> ShiftRow]
  /\ session \in [Sessions -> SessionRow]
  /\ DOMAIN door = Doors
  /\ \A h \in Doors : door[h].op \in {"mint", "insert"} =>
       door[h].row \in SessionRow /\ door[h].row.kind \in {"user", "device_grant"}

(* A grant that was given, and whose window has begun.                     *)
Begun(g) == g \in Grants /\ grant[g].state # "none" /\ grant[g].from <= moment

(* A token that ends with its shift, or a second after its minting.        *)
EndsInTime(row) ==
  Begun(row.of) /\ (row.exp <= grant[row.of].to \/ row.exp <= row.iat + 2)

(* A sign-in carries the window's end as it was read, which an extension   *)
(* has at most moved on since.                                             *)
DoorsEndInTime ==
  \A h \in Doors :
    /\ door[h].op = "mint" /\ door[h].row.kind = "device_grant" =>
         /\ Begun(door[h].row.of)
         /\ door[h].ends \in Nat /\ door[h].ends <= grant[door[h].row.of].to
    /\ door[h].op = "insert" /\ door[h].row.kind = "device_grant" =>
         EndsInTime(door[h].row)

SessionsEndInTime ==
  \A s \in Sessions : session[s].kind = "device_grant" => EndsInTime(session[s])

AccessInv == AccessTyped /\ DoorsEndInTime /\ SessionsEndInTime

(* Nobody has signed in.                                                   *)
LEMMA AccessInitInv == AccessInit => AccessInv
<1> SUFFICES ASSUME AccessInit PROVE AccessInv
  OBVIOUS
<1>1. NoGrant \in ShiftRow /\ NoSession \in SessionRow /\ NoSession.kind # "device_grant"
  BY DEF NoGrant, NoSession, ShiftRow, SessionRow
<1>2. person \in [People -> [active : BOOLEAN, claims : Claims]]
  BY DEF AccessInit
<1>3. AccessTyped
  BY <1>1, <1>2 DEF AccessInit, AccessTyped, Shut
<1> QED
  BY <1>1, <1>3 DEF AccessInit, AccessInv, DoorsEndInTime, SessionsEndInTime, Shut

(* What has begun and ends in time still does when the clock goes on and   *)
(* grants are given, extended or revoked.                                  *)
LEMMA TimeKept ==
  ASSUME AccessInv,
         moment' \in Nat, moment <= moment', grant' \in [Grants -> ShiftRow],
         \A g \in Grants : grant[g].state # "none" =>
           /\ grant'[g].state # "none"
           /\ grant'[g].from = grant[g].from /\ grant'[g].to >= grant[g].to
  PROVE  /\ \A g : Begun(g) => Begun(g)'
         /\ \A row : row \in SessionRow /\ EndsInTime(row) => EndsInTime(row)'
         /\ door' = door => DoorsEndInTime'
         /\ session' = session => SessionsEndInTime'
<1>1. \A g \in Grants : /\ grant[g].from \in Nat /\ grant[g].to \in Nat
                        /\ grant'[g].from \in Nat /\ grant'[g].to \in Nat
  BY DEF AccessInv, AccessTyped, ShiftRow
<1>2. \A g : Begun(g) => Begun(g)'
  BY <1>1 DEF Begun, AccessInv, AccessTyped
<1>3. ASSUME NEW row, row \in SessionRow, EndsInTime(row)
      PROVE  EndsInTime(row)'
  BY <1>1, <1>2, <1>3 DEF EndsInTime, Begun, SessionRow
<1>4. ASSUME door' = door
      PROVE  DoorsEndInTime'
  <2>1. ASSUME NEW h \in Doors, door[h].op = "mint",
               door[h].row.kind = "device_grant"
        PROVE  /\ Begun(door[h].row.of)'
               /\ door[h].ends \in Nat /\ door[h].ends <= grant'[door[h].row.of].to
    <3>1. /\ Begun(door[h].row.of) /\ door[h].row.of \in Grants
          /\ door[h].ends \in Nat /\ door[h].ends <= grant[door[h].row.of].to
          /\ grant[door[h].row.of].state # "none"
      BY <2>1 DEF AccessInv, DoorsEndInTime, Begun
    <3> QED
      BY <1>1, <1>2, <1>4, <3>1
  <2>2. ASSUME NEW h \in Doors, door[h].op = "insert",
               door[h].row.kind = "device_grant"
        PROVE  EndsInTime(door[h].row)'
    BY <1>3, <1>4, <2>2 DEF AccessInv, AccessTyped, DoorsEndInTime
  <2> QED
    BY <1>4, <2>1, <2>2 DEF DoorsEndInTime
<1>5. ASSUME session' = session
      PROVE  SessionsEndInTime'
  BY <1>3, <1>5 DEF AccessInv, AccessTyped, SessionsEndInTime
<1> QED
  BY <1>2, <1>3, <1>4, <1>5

(* Rounding a window's rest down to seconds does not lengthen it.          *)
LEMMA TtlIsInTime ==
  ASSUME AccessInv, NEW ends \in Nat
  PROVE  LET exp == 2 * ((moment \div 2) + TtlOf(ends)) IN
         exp \in Nat /\ (exp <= ends \/ exp <= moment + 2)
<1>1. /\ moment \in Nat /\ moment \div 2 \in Nat /\ TokenTtl \in Nat
      /\ 2 * (moment \div 2) <= moment
  BY AccessAssumption DEF AccessInv, AccessTyped
<1>2. CASE moment < ends
  <2>1. /\ (ends - moment) \div 2 \in Nat
        /\ 2 * ((ends - moment) \div 2) <= ends - moment
    BY <1>1, <1>2
  <2> QED
    BY <1>1, <1>2, <2>1 DEF TtlOf, Least
<1>3. CASE ~(moment < ends)
  BY <1>1, <1>3 DEF TtlOf, Least
<1> QED
  BY <1>2, <1>3

(* Revoking sessions changes nothing else in them.                         *)
LEMMA RevokeKeeps ==
  ASSUME AccessInv, NEW which
  PROVE  /\ Revoke(which) \in [Sessions -> SessionRow]
         /\ \A s \in Sessions :
              /\ Revoke(which)[s].kind = session[s].kind
              /\ Revoke(which)[s].of = session[s].of
              /\ Revoke(which)[s].iat = session[s].iat
              /\ Revoke(which)[s].exp = session[s].exp
BY DEF AccessInv, AccessTyped, SessionRow, Revoke

(* The steps of the shifts, the logins and the clock.                      *)
LEMMA OfficeInv ==
  ASSUME AccessInv,
         \/ Passing
         \/ \E d \in Handsets : retireDevice(d)
         \/ \E p \in People, active \in BOOLEAN, c \in Claims : setPerson(p, active, c)
         \/ \E g \in Grants :
              \/ revokeShift(g)
              \/ \E to \in 1 .. LastMoment :
                   \/ extendShift(g, to)
                   \/ \E d \in Handsets, p \in People, from \in 0 .. LastMoment :
                        grantDeviceShift(g, d, p, from, to)
         \/ \E s \in Sessions : logout(s) \/ changeMyPassword(s)
  PROVE  AccessInv'
<1>1. /\ moment' \in Nat /\ moment <= moment' /\ door' = door
      /\ person' \in [People -> [active : BOOLEAN, claims : Claims]]
  <2>1. ASSUME NEW p \in People, NEW active \in BOOLEAN, NEW c \in Claims,
               setPerson(p, active, c)
        PROVE  <1>1!:
    <3>1. [active |-> active, claims |-> c] \in [active : BOOLEAN, claims : Claims]
      OBVIOUS
    <3> QED
      BY <2>1, <3>1 DEF setPerson, AccessInv, AccessTyped
  <2>2. CASE UNCHANGED <<person, door>> /\ (moment' = moment \/ moment' = moment + 1)
    BY <2>2 DEF AccessInv, AccessTyped
  <2> QED
    BY <2>1, <2>2 DEF Passing, retireDevice, revokeShift,
       extendShift, grantDeviceShift, logout, changeMyPassword
<1>2. /\ grant' \in [Grants -> ShiftRow]
      /\ \A g \in Grants : grant[g].state # "none" =>
           /\ grant'[g].state # "none"
           /\ grant'[g].from = grant[g].from /\ grant'[g].to >= grant[g].to
  <2>1. CASE grant' = grant
    BY <2>1 DEF AccessInv, AccessTyped, ShiftRow
  <2>2. ASSUME NEW g \in Grants, revokeShift(g)
        PROVE  <1>2!:
    BY <2>2 DEF revokeShift, AccessInv, AccessTyped, ShiftRow
  <2>3. ASSUME NEW g \in Grants, NEW to \in 1 .. LastMoment, extendShift(g, to)
        PROVE  <1>2!:
    <3>1. /\ to \in Nat /\ grant[g].to \in Nat /\ grant[g].to < to
          /\ grant' = [grant EXCEPT ![g].to = to]
      BY <2>3, AccessAssumption DEF extendShift, AccessInv, AccessTyped, ShiftRow
    <3>2. \A k \in Grants : grant[k].to \in Nat
      BY DEF AccessInv, AccessTyped, ShiftRow
    <3> QED
      BY <3>1, <3>2 DEF AccessInv, AccessTyped, ShiftRow
  <2>4. ASSUME NEW g \in Grants, NEW to \in 1 .. LastMoment,
               NEW d \in Handsets, NEW p \in People, NEW from \in 0 .. LastMoment,
               grantDeviceShift(g, d, p, from, to)
        PROVE  <1>2!:
    BY <2>4, AccessAssumption
       DEF grantDeviceShift, NoGrant, AccessInv, AccessTyped, ShiftRow
  <2> QED
    BY <2>1, <2>2, <2>3, <2>4
       DEF Passing, retireDevice, setPerson, logout, changeMyPassword
<1>3. session' = session \/ \E which \in SUBSET Sessions : session' = Revoke(which)
  <2>1. ASSUME NEW g \in Grants, revokeShift(g)
        PROVE  \E which \in SUBSET Sessions : session' = Revoke(which)
    BY <2>1, {s \in Sessions : session[s].of = g} \in SUBSET Sessions DEF revokeShift
  <2>2. ASSUME NEW p \in People, NEW active \in BOOLEAN, NEW c \in Claims,
               setPerson(p, active, c)
        PROVE  session' = session \/ \E which \in SUBSET Sessions : session' = Revoke(which)
    BY <2>2, OfPerson(p) \in SUBSET Sessions DEF setPerson, OfPerson
  <2>3. ASSUME NEW s \in Sessions, logout(s) \/ changeMyPassword(s)
        PROVE  \E which \in SUBSET Sessions : session' = Revoke(which)
    BY <2>3, OfPerson(session[s].of) \in SUBSET Sessions, {s} \in SUBSET Sessions
       DEF logout, changeMyPassword, OfPerson
  <2> QED
    BY <2>1, <2>2, <2>3 DEF Passing, retireDevice, extendShift, grantDeviceShift
<1>4. /\ \A row : row \in SessionRow /\ EndsInTime(row) => EndsInTime(row)'
      /\ DoorsEndInTime' /\ (session' = session => SessionsEndInTime')
  BY <1>1, <1>2, TimeKept
<1>5. session' \in [Sessions -> SessionRow] /\ SessionsEndInTime'
  <2>1. CASE session' = session
    BY <1>4, <2>1 DEF AccessInv, AccessTyped
  <2>2. ASSUME NEW which, session' = Revoke(which)
        PROVE  <1>5!:
    <3>1. /\ session' \in [Sessions -> SessionRow]
          /\ \A s \in Sessions :
               /\ session'[s].kind = session[s].kind
               /\ session'[s].of = session[s].of
               /\ session'[s].iat = session[s].iat
               /\ session'[s].exp = session[s].exp
      BY <2>2, RevokeKeeps
    <3>2. ASSUME NEW s \in Sessions, session'[s].kind = "device_grant"
          PROVE  EndsInTime(session[s])'
      <4>1. PICK row \in SessionRow : row = session[s]
        BY DEF AccessInv, AccessTyped
      <4>2. EndsInTime(row)'
        BY <1>4, <3>1, <3>2, <4>1 DEF AccessInv, SessionsEndInTime
      <4> QED
        BY <3>1, <4>1, <4>2 DEF EndsInTime, Begun
    <3> QED
      BY <3>1, <3>2 DEF SessionsEndInTime
  <2> QED
    BY <1>3, <2>1, <2>2
<1> QED
  BY <1>1, <1>2, <1>4, <1>5 DEF AccessInv, AccessTyped

(* The steps of a sign-in.                                                 *)
LEMMA DoorInv ==
  ASSUME AccessInv, NEW h \in Doors,
         \/ \E p \in People :
              loginChecked(h, p) \/ \E d \in Handsets : deviceLoginChecked(h, d, p)
         \/ \E s \in Sessions : mintSession(h, s)
         \/ mintToken(h) \/ signInLost(h)
  PROVE  AccessInv'
<1> USE DEF AccessInv
<1>1. UNCHANGED <<moment, handset, person, grant>>
  BY DEF loginChecked, deviceLoginChecked, Resolved, mintSession, mintToken, signInLost
<1>2. \A row : EndsInTime(row)' <=> EndsInTime(row)
  BY <1>1 DEF EndsInTime, Begun
<1>3. \A g : Begun(g)' <=> Begun(g)
  BY <1>1 DEF Begun
<1>4. ASSUME NEW p \in People, loginChecked(h, p)
      PROVE  AccessInv'
  <2>1. person[p].claims \in Claims
    BY DEF AccessTyped
  <2>2. door' = [door EXCEPT ![h] =
          [op |-> "mint", ends |-> 0, row |->
             [state |-> "live", kind |-> "user", of |-> p,
              claims |-> person[p].claims, iat |-> 0, exp |-> 0]]]
        /\ session' = session
    BY <1>4 DEF loginChecked, Resolved
  <2>3. AccessTyped'
    BY <1>1, <2>1, <2>2 DEF AccessTyped, SessionRow
  <2> QED
    BY <1>1, <2>2, <2>3 DEF AccessTyped, DoorsEndInTime, SessionsEndInTime, EndsInTime, Begun
<1>5. ASSUME NEW p \in People, NEW d \in Handsets, deviceLoginChecked(h, d, p)
      PROVE  AccessInv'
  <2>1. PICK g \in resolveDeviceLogin(d, p) :
          Resolved(h, "device_grant", g, "technician", grant[g].to)
    BY <1>5 DEF deviceLoginChecked
  <2>2. door' = [door EXCEPT ![h] =
          [op |-> "mint", ends |-> grant[g].to, row |->
             [state |-> "live", kind |-> "device_grant", of |-> g,
              claims |-> "technician", iat |-> 0, exp |-> 0]]]
        /\ session' = session
    BY <2>1 DEF Resolved
  <2>3. Begun(g) /\ g \in Grants /\ grant[g].to \in Nat
    BY <2>1 DEF resolveDeviceLogin, Begun, AccessTyped, ShiftRow
  <2>4. AccessTyped'
    BY <1>1, <2>2, <2>3 DEF AccessTyped, SessionRow
  <2> QED
    BY <1>1, <2>2, <2>3, <2>4
       DEF AccessTyped, DoorsEndInTime, SessionsEndInTime, EndsInTime, Begun
<1>6. ASSUME mintToken(h)
      PROVE  AccessInv'
  <2> DEFINE row == door[h].row
             ttl == IF row.kind = "user" THEN TokenTtl ELSE TtlOf(door[h].ends)
             exp == 2 * ((moment \div 2) + ttl)
             new == [row EXCEPT !.iat = moment, !.exp = exp]
  <2>1. /\ door[h].op = "mint" /\ row \in SessionRow /\ row.kind \in {"user", "device_grant"}
        /\ door' = [door EXCEPT ![h] = [op |-> "insert", row |-> new]]
        /\ session' = session
    BY <1>6 DEF mintToken, AccessTyped
  <2>2. exp \in Nat /\ (row.kind = "device_grant" =>
                          exp <= door[h].ends \/ exp <= moment + 2)
    <3>1. CASE row.kind = "user"
      BY <3>1, AccessAssumption DEF AccessTyped
    <3>2. CASE row.kind = "device_grant"
      <4>1. door[h].ends \in Nat
        BY <2>1, <3>2 DEF DoorsEndInTime
      <4> QED
        BY <3>2, <4>1, TtlIsInTime
    <3> QED
      BY <2>1, <3>1, <3>2
  <2> HIDE DEF exp
  <2>3. /\ new \in SessionRow /\ new.kind = row.kind /\ new.of = row.of
        /\ new.iat = moment /\ new.exp = exp
    BY <2>1, <2>2 DEF SessionRow, AccessTyped
  <2>4. row.kind = "device_grant" => EndsInTime(new)
    BY <2>1, <2>2, <2>3 DEF DoorsEndInTime, EndsInTime, Begun, AccessTyped, ShiftRow
  <2> HIDE DEF new
  <2>5. AccessTyped'
    BY <1>1, <2>1, <2>3 DEF AccessTyped
  <2>6. SessionsEndInTime'
    BY <1>1, <2>1 DEF SessionsEndInTime, EndsInTime, Begun
  <2>7. DoorsEndInTime'
    <3>1. ASSUME NEW k \in Doors, k # h
          PROVE  door'[k] = door[k]
      BY <2>1, <3>1 DEF AccessTyped
    <3>2. door'[h] = [op |-> "insert", row |-> new]
      BY <2>1 DEF AccessTyped
    <3> QED
      BY <1>1, <2>3, <2>4, <3>1, <3>2 DEF DoorsEndInTime, EndsInTime, Begun
  <2> QED
    BY <2>5, <2>6, <2>7
<1>7. ASSUME NEW s \in Sessions, mintSession(h, s)
      PROVE  AccessInv'
  <2>1. /\ door[h].op = "insert"
        /\ session' = [session EXCEPT ![s] = door[h].row]
        /\ door' = [door EXCEPT ![h] = Shut]
    BY <1>7 DEF mintSession
  <2>2. AccessTyped'
    BY <1>1, <2>1 DEF AccessTyped, Shut
  <2> QED
    BY <1>1, <2>1, <2>2
       DEF AccessTyped, DoorsEndInTime, SessionsEndInTime, EndsInTime, Begun, Shut
<1>8. ASSUME signInLost(h)
      PROVE  AccessInv'
  <2>1. door' = [door EXCEPT ![h] = Shut] /\ session' = session
    BY <1>8 DEF signInLost
  <2>2. AccessTyped'
    BY <1>1, <2>1 DEF AccessTyped, Shut
  <2> QED
    BY <1>1, <2>1, <2>2
       DEF AccessTyped, DoorsEndInTime, SessionsEndInTime, EndsInTime, Begun, Shut
<1> QED
  BY <1>4, <1>5, <1>6, <1>7, <1>8

(* Every step keeps the invariant.                                         *)
LEMMA AccessNextInv == AccessInv /\ [AccessNext]_accessVars => AccessInv'
<1>1. ASSUME AccessInv, UNCHANGED accessVars
      PROVE  AccessInv'
  BY <1>1 DEF accessVars, AccessInv, AccessTyped, DoorsEndInTime, SessionsEndInTime,
     EndsInTime, Begun
<1> QED
  BY <1>1, OfficeInv, DoorInv DEF AccessNext

(* For any number of devices, people, shifts and sign-ins, a device        *)
(* session is admitted during its shift only.                              *)
THEOREM OnShiftOnly == AccessSpec => []AdmittedIsOnShift
<1>1. ASSUME AccessInv, NEW s \in Sessions, session[s].kind = "device_grant",
             assertSessionLive(s)
      PROVE  /\ grant[session[s].of].state = "live" /\ grant[session[s].of].from <= moment
             /\ \/ moment < grant[session[s].of].to
                \/ moment < session[s].iat + 2
  <2>1. /\ EndsInTime(session[s]) /\ moment < session[s].exp
        /\ grant[session[s].of].state = "live"
    BY <1>1 DEF AccessInv, SessionsEndInTime, assertSessionLive, Standing
  <2>2. /\ session[s].of \in Grants /\ moment \in Nat
        /\ session[s].exp \in Nat /\ session[s].iat \in Nat
        /\ grant[session[s].of].to \in Nat
    BY <1>1, <2>1 DEF AccessInv, AccessTyped, EndsInTime, Begun, SessionRow, ShiftRow
  <2> QED
    BY <2>1, <2>2 DEF EndsInTime, Begun
<1>2. AccessInv => AdmittedIsOnShift
  BY <1>1 DEF AdmittedIsOnShift
<1> QED
  BY <1>2, AccessInitInv, AccessNextInv, PTL DEF AccessSpec
=============================================================================
