-------------------------------- MODULE Intake ------------------------------
(***************************************************************************)
(* What reaches the office from customers: leads that become homes, photos *)
(* attached to a service request, and the point of a site's address.       *)
(* Every transaction is taken from its first read to its commit in the     *)
(* steps the code awaits between.                                          *)
(***************************************************************************)
EXTENDS Naturals, FiniteSets

CONSTANTS
  Leads, Converters,   \* leads, and requests converting one
  Tickets, Pics,       \* service requests, and photos being attached
  PHOTOS_PER_REQUEST,
  Spots, Wordings,     \* sites, and the addresses they can have
  Locators             \* requests locating a site

ASSUME IntakeAssumption ==
  /\ PHOTOS_PER_REQUEST \in Nat /\ IsFiniteSet(Pics)
  /\ "none" \notin Converters

VARIABLES
  lead,       \* leads.converted_account_id: the conversion it became, or "none"
  homes,      \* residential organizations, by the lead and the conversion
  converting, \* the lead each converter has read, or "none"
  ticket,     \* service_requests.job_id is set
  pic,        \* each photo: its request and how far its transaction is
  bucket,     \* objects in the store
  spot,       \* accounts.address: its words, and the words its point is for
  locating    \* what each locator has asked the geocoder about

leadVars   == <<lead, homes, converting>>
photoVars  == <<ticket, pic, bucket>>
spotVars   == <<spot, locating>>
intakeVars == <<lead, homes, converting, ticket, pic, bucket, spot, locating>>

NoPic    == [stage |-> "none", of |-> "none"]
NotAsked == [step |-> "none"]

IntakeInit ==
  /\ lead = [l \in Leads |-> "none"] /\ homes = {}
  /\ converting = [h \in Converters |-> "none"]
  /\ ticket = [q \in Tickets |-> FALSE]
  /\ pic = [s \in Pics |-> NoPic] /\ bucket = {}
  /\ spot \in [Spots -> [words : Wordings, pin : {"none"}]]
  /\ locating = [h \in Locators |-> NotAsked]

-----------------------------------------------------------------------------
(* Leads.  FOR UPDATE: a second converter waits for the first.             *)

(* Mutant: the lead is read without a lock.                                *)
LeadLocked_Never(l) == FALSE

LeadLocked(l) == \E h \in Converters : converting[h] = l

convertLeadRead(h, l) ==
  /\ converting[h] = "none" /\ ~ LeadLocked(l)
  /\ lead[l] = "none"
  /\ converting' = [converting EXCEPT ![h] = l]
  /\ UNCHANGED <<lead, homes>>

(* createResidential, whole, and the lead pointed at it.                   *)
convertLead(h) ==
  /\ converting[h] # "none"
  /\ homes' = homes \cup {[lead |-> converting[h], by |-> h]}
  /\ lead' = [lead EXCEPT ![converting[h]] = h]
  /\ converting' = [converting EXCEPT ![h] = "none"]

(* createResidential is refused: nothing of it is kept.                    *)
convertLost(h) ==
  /\ converting[h] # "none"
  /\ converting' = [converting EXCEPT ![h] = "none"]
  /\ UNCHANGED <<lead, homes>>

-----------------------------------------------------------------------------
(* Photos.  The advisory lock is per request and held to the end.          *)

UnderWay(q) == {s \in Pics : pic[s].of = q /\ pic[s].stage \in {"counted", "rows", "stored"}}
Attached(q) == {s \in Pics : pic[s].of = q /\ pic[s].stage = "kept"}

(* Mutant: no advisory lock.                                               *)
MayAttachPhoto_NoLock(q) ==
  ~ ticket[q] /\ Cardinality(Attached(q)) < PHOTOS_PER_REQUEST

MayAttachPhoto(q) ==
  /\ UnderWay(q) = {}
  /\ ~ ticket[q] /\ Cardinality(Attached(q)) < PHOTOS_PER_REQUEST

attachPhoto(s, q) ==
  /\ pic[s] = NoPic /\ MayAttachPhoto(q)
  /\ pic' = [pic EXCEPT ![s] = [stage |-> "counted", of |-> q]]
  /\ UNCHANGED <<ticket, bucket>>

(* 0017's insert policy asks again whether a job is open.                  *)
insertPhoto(s) ==
  /\ pic[s].stage = "counted"
  /\ pic' = [pic EXCEPT ![s].stage = IF ticket[pic[s].of] THEN "gone" ELSE "rows"]
  /\ UNCHANGED <<ticket, bucket>>

(* Rows first, object second, commit last.                                 *)
storePhoto(s) ==
  /\ pic[s].stage = "rows"
  /\ bucket' = bucket \cup {s}
  /\ pic' = [pic EXCEPT ![s].stage = "stored"]
  /\ UNCHANGED ticket

commitPhoto(s) ==
  /\ pic[s].stage = "stored"
  /\ pic' = [pic EXCEPT ![s].stage = "kept"]
  /\ UNCHANGED <<ticket, bucket>>

(* The store does not answer, having taken the object or not, or the       *)
(* transaction fails: the rows are gone.                                   *)
photoLost(s) ==
  /\ pic[s].stage \in {"counted", "rows", "stored"}
  /\ pic' = [pic EXCEPT ![s].stage = "gone"]
  /\ bucket' \in {bucket, bucket \cup (IF pic[s].stage = "rows" THEN {s} ELSE {})}
  /\ UNCHANGED ticket

(* openJobFromRequest, as it concerns the photos.                          *)
requestAnswered(q) ==
  /\ ~ ticket[q] /\ ticket' = [ticket EXCEPT ![q] = TRUE]
  /\ UNCHANGED <<pic, bucket>>

-----------------------------------------------------------------------------
(* A site's point: read, ask with no transaction open, read again, write.  *)

locateSiteRead(h, x) ==
  /\ locating[h] = NotAsked /\ spot[x].pin = "none"
  /\ locating' = [locating EXCEPT ![h] =
                    [step |-> "geocode", at |-> x, query |-> spot[x].words]]
  /\ UNCHANGED spot

(* Not found, unreachable, or asked about too soon after a failure.        *)
geocodeFails(h) ==
  /\ locating[h].step = "geocode"
  /\ locating' = [locating EXCEPT ![h] = NotAsked]
  /\ UNCHANGED spot

(* Mutant: the answer is written for whatever the address is by now.       *)
StillAsked_Any(x, query) == spot[x].pin = "none"

StillAsked(x, query) == spot[x].pin = "none" /\ spot[x].words = query

locateSiteWrite(h) ==
  /\ locating[h].step = "geocode"
  /\ LET x == locating[h].at query == locating[h].query IN
     locating' = [locating EXCEPT ![h] =
       IF StillAsked(x, query)
       THEN [step |-> "update", at |-> x,
             address |-> [words |-> spot[x].words, pin |-> query]]
       ELSE NotAsked]
  /\ UNCHANGED spot

(* updateAccount writes the address whole.                                 *)
locateSiteUpdate(h) ==
  /\ locating[h].step = "update"
  /\ spot' = [spot EXCEPT ![locating[h].at] = locating[h].address]
  /\ locating' = [locating EXCEPT ![h] = NotAsked]

(* accounts.update from a surface: new words, no point.                    *)
editAddress(x, words) ==
  /\ spot[x].words # words
  /\ spot' = [spot EXCEPT ![x] = [words |-> words, pin |-> "none"]]
  /\ UNCHANGED locating

LeadNext ==
  \E h \in Converters :
    (\E l \in Leads : convertLeadRead(h, l)) \/ convertLead(h) \/ convertLost(h)

PhotoNext ==
  \/ \E s \in Pics :
       \/ \E q \in Tickets : attachPhoto(s, q)
       \/ insertPhoto(s) \/ storePhoto(s) \/ commitPhoto(s) \/ photoLost(s)
  \/ \E q \in Tickets : requestAnswered(q)

SpotNext ==
  \/ \E h \in Locators :
       \/ \E x \in Spots : locateSiteRead(h, x)
       \/ geocodeFails(h) \/ locateSiteWrite(h) \/ locateSiteUpdate(h)
  \/ \E x \in Spots, words \in Wordings : editAddress(x, words)

(* The three share no table.                                               *)
IntakeNext ==
  \/ LeadNext /\ UNCHANGED <<photoVars, spotVars>>
  \/ PhotoNext /\ UNCHANGED <<leadVars, spotVars>>
  \/ SpotNext /\ UNCHANGED <<leadVars, photoVars>>

IntakeSpec == IntakeInit /\ [][IntakeNext]_intakeVars

-----------------------------------------------------------------------------
(* "two people converting the same lead make one customer": the one the    *)
(* lead says it became.                                                    *)
OneHomePerLead ==
  \A x \in homes : lead[x.lead] = x.by

(* A request carries no more photos than its cap however many are sent at  *)
(* once, and no photo's row is there without its object: "an orphan in the *)
(* bucket, never a row pointing at nothing".                               *)
PhotosAreSound ==
  \A q \in Tickets : /\ Cardinality(Attached(q)) <= PHOTOS_PER_REQUEST
                     /\ Attached(q) \subseteq bucket

(* A site's point is for the words its address has, whoever edited them    *)
(* while the geocoder was asked: no pin "in somebody else's yard".         *)
PinIsForTheAddress ==
  \A x \in Spots : spot[x].pin \in {"none", spot[x].words}
=============================================================================
