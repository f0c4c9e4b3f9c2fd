------------------------------- MODULE WrapUps ------------------------------
(***************************************************************************)
(* The completion outbox of the technician's device.  A draft that is      *)
(* submitted becomes an entry; a flush sends the entries oldest first,     *)
(* each photo (and the signature, which is sent like one) and then the     *)
(* report that names them.  Drafts and entries are saved at every change,  *)
(* so a reload loses only the flush that was under way.                    *)
(*                                                                         *)
(* The gateway answers as attachJobMedia and wrapUpJob do.  A request or   *)
(* its answer may be lost, and a request the device has given up on may    *)
(* still arrive, after the one that repeats it.                            *)
(***************************************************************************)
EXTENDS Naturals, Sequences, FiniteSets, SequencesExt, Queues

CONSTANTS
  Works,       \* jobs
  ShotsOf,     \* the photos and signature of each job's report
  MaxSubmits,  \* bound: times a job's draft is submitted
  MaxReloads   \* bound: reloads of the page

Shots == UNION {ShotsOf[j] : j \in Works}

ASSUME WrapUpsAssumption ==
  /\ MaxSubmits \in Nat /\ MaxReloads \in Nat
  /\ \A j, k \in Works : j # k => ShotsOf[j] \cap ShotsOf[k] = {}

VARIABLES
  draft,     \* drafts: whether the job has one, complete
  entries,   \* outbox: job, wrapUpId (no), shots sent, why refused; oldest first
  submits,   \* wrapUpIds drawn for each job
  media,     \* the MediaStore: shots whose bytes are on the device
  flush,     \* the flush under way: entries still to send, the call, its answer
  reloads,
  wire,      \* requests on their way
  office     \* the gateway: job_media, job_wrap_ups and the jobs the crew holds

device   == <<draft, entries, submits, media>>
wrapVars == <<draft, entries, submits, media, flush, reloads, wire, office>>

NoCall    == [op |-> "none"]
NotFlushing == [on |-> FALSE, todo |-> <<>>, call |-> NoCall, answer |-> "none"]

WrapInit ==
  /\ draft = [j \in Works |-> TRUE]
  /\ entries = <<>> /\ submits = [j \in Works |-> 0]
  /\ media = Shots
  /\ flush = NotFlushing /\ reloads = 0 /\ wire = {}
  /\ office = [got |-> {}, report |-> [j \in Works |-> 0], held |-> Works]

-----------------------------------------------------------------------------
(* The technician.                                                         *)

Without(j) == KeepIn(entries, {e \in Range(entries) : e.job # j})

submit(j) ==
  /\ draft[j] /\ submits[j] < MaxSubmits
  /\ draft' = [draft EXCEPT ![j] = FALSE]
  /\ submits' = [submits EXCEPT ![j] = @ + 1]
  /\ entries' = Append(Without(j), [job |-> j, no |-> submits[j] + 1,
                                    sent |-> {}, refused |-> "no"])
  /\ UNCHANGED <<media, flush, reloads, wire, office>>

(* Offered for a refused entry.                                            *)
reopen(j) ==
  /\ \E e \in Range(entries) : e.job = j /\ e.refused # "no"
  /\ entries' = Without(j)
  /\ draft' = [draft EXCEPT ![j] = TRUE]
  /\ UNCHANGED <<submits, media, flush, reloads, wire, office>>

(* A lost photo is taken out of the draft and taken again: addShot.        *)
addShot(s) ==
  /\ s \notin media /\ \E j \in Works : s \in ShotsOf[j] /\ draft[j]
  /\ media' = media \cup {s}
  /\ UNCHANGED <<draft, entries, submits, flush, reloads, wire, office>>

(* The browser evicts the bytes of a shot that has not been sent.          *)
evict(s) ==
  /\ s \in media \ office.got
  /\ media' = media \ {s}
  /\ UNCHANGED <<draft, entries, submits, flush, reloads, wire, office>>

(* createWrapUps over what was saved.                                      *)
reload ==
  /\ reloads < MaxReloads /\ flush.on
  /\ reloads' = reloads + 1 /\ flush' = NotFlushing
  /\ UNCHANGED <<device, wire, office>>

-----------------------------------------------------------------------------
(* The flush.                                                              *)

Entry == CHOOSE e \in Range(entries) :
           [job |-> e.job, no |-> e.no] = Head(flush.todo)

Replace(from, to) == [i \in 1 .. Len(entries) |->
                        IF entries[i] = from THEN to ELSE entries[i]]

Awaits == flush.call # NoCall
Sends(call) == /\ flush' = [flush EXCEPT !.call = call]
               /\ wire' = wire \cup {call}
               /\ UNCHANGED <<device, reloads, office>>

Goes(todo) == flush' = [flush EXCEPT !.todo = todo, !.call = NoCall, !.answer = "none"]

flushStart ==
  /\ ~ flush.on /\ \E e \in Range(entries) : e.refused = "no"
  /\ flush' = [NotFlushing EXCEPT !.on = TRUE, !.todo =
       LET waiting == KeepIn(entries, {e \in Range(entries) : e.refused = "no"})
       IN [i \in 1 .. Len(waiting) |-> [job |-> waiting[i].job, no |-> waiting[i].no]]]
  /\ UNCHANGED <<device, reloads, wire, office>>

attachMedia(s) ==
  /\ flush.on /\ flush.todo # <<>> /\ ~ Awaits
  /\ s \in ShotsOf[Entry.job] \ Entry.sent /\ s \in media
  /\ Sends([op |-> "attach", shot |-> s, job |-> Entry.job])

(* Mutant: the flush gives up on a lost shot and leaves the entry waiting. *)
lostShot_Waits(s) ==
  /\ flush.on /\ flush.todo # <<>> /\ ~ Awaits
  /\ s \in ShotsOf[Entry.job] \ Entry.sent /\ s \notin media
  /\ flush' = NotFlushing
  /\ UNCHANGED <<device, reloads, wire, office>>

(* LostShot: refused on the device, and the next entry is tried.           *)
lostShot(s) ==
  /\ flush.on /\ flush.todo # <<>> /\ ~ Awaits
  /\ s \in ShotsOf[Entry.job] \ Entry.sent /\ s \notin media
  /\ entries' = Replace(Entry, [Entry EXCEPT !.refused = "lost"])
  /\ Goes(Tail(flush.todo))
  /\ UNCHANGED <<draft, submits, media, reloads, wire, office>>

sendWrapUp ==
  /\ flush.on /\ flush.todo # <<>> /\ ~ Awaits
  /\ Entry.sent = ShotsOf[Entry.job]
  /\ Sends([op |-> "wrap", no |-> Entry.no, job |-> Entry.job])

(* Mutant: an answer that is a refusal takes the entry out like the other. *)
Settled_Refused(e) == flush.call.op = "wrap" \/ flush.answer # "ok"

(* The report has been taken: its entry leaves.                            *)
Settled(e) == flush.call.op = "wrap" /\ flush.answer = "ok"

(* The bytes are deleted after the entry: a page that dies between the two *)
(* leaves them behind.                                                     *)
takeAnswer ==
  /\ flush.on /\ Awaits /\ flush.answer # "none"
  /\ LET e == Entry IN
     \/ /\ Settled(e)
        /\ entries' = KeepIn(entries, Range(entries) \ {e})
        /\ media' \in {media, media \ ShotsOf[e.job]}
        /\ Goes(Tail(flush.todo))
     \/ /\ ~ Settled(e) /\ flush.answer = "ok"
        /\ entries' = Replace(e, [e EXCEPT !.sent = @ \cup {flush.call.shot}])
        /\ Goes(flush.todo)
        /\ UNCHANGED media
     \/ /\ ~ Settled(e) /\ flush.answer # "ok"
        /\ entries' = Replace(e, [e EXCEPT !.refused = flush.answer])
        /\ Goes(Tail(flush.todo))
        /\ UNCHANGED media
  /\ UNCHANGED <<draft, submits, reloads, wire, office>>

(* A transport failure or an expired token ends the flush.                 *)
giveUp ==
  /\ flush.on /\ Awaits /\ flush.answer = "none"
  /\ flush' = NotFlushing
  /\ UNCHANGED <<device, reloads, wire, office>>

flushEnd ==
  /\ flush.on /\ flush.todo = <<>>
  /\ flush' = NotFlushing
  /\ UNCHANGED <<device, reloads, wire, office>>

-----------------------------------------------------------------------------
(* The gateway and the network.                                            *)

(* The answer reaches the device only if it still waits for this call.     *)
Answers(c, verdict) ==
  flush' = IF flush.call = c /\ flush.answer = "none"
           THEN [flush EXCEPT !.answer = verdict] ELSE flush

(* A photo that is there already is answered as taken.                     *)
AttachVerdict(c) ==
  IF c.job \notin office.held THEN "refused" ELSE "ok"

(* A report that is there already is answered before the crew is asked.    *)
WrapVerdict(c) ==
  IF office.report[c.job] = c.no THEN "ok"
  ELSE IF /\ c.job \in office.held /\ office.report[c.job] = 0
          /\ ShotsOf[c.job] \subseteq office.got
       THEN "ok" ELSE "refused"

attachJobMedia(c) ==
  /\ c \in wire /\ c.op = "attach"
  /\ wire' = wire \ {c}
  /\ Answers(c, AttachVerdict(c))
  /\ office' = IF AttachVerdict(c) = "ok"
               THEN [office EXCEPT !.got = @ \cup {c.shot}] ELSE office
  /\ UNCHANGED <<device, reloads>>

(* The object store does not answer: the row is rolled back.               *)
storeUnavailable(c) ==
  /\ c \in wire /\ c.op = "attach"
  /\ c.job \in office.held /\ c.shot \notin office.got
  /\ wire' = wire \ {c}
  /\ Answers(c, "storage_unavailable")
  /\ UNCHANGED <<device, reloads, office>>

wrapUpReceived(c) ==
  /\ c \in wire /\ c.op = "wrap"
  /\ wire' = wire \ {c}
  /\ Answers(c, WrapVerdict(c))
  /\ office' = IF WrapVerdict(c) = "ok"
               THEN [office EXCEPT !.report[c.job] = c.no] ELSE office
  /\ UNCHANGED <<device, reloads>>

lose(c) ==
  /\ c \in wire /\ wire' = wire \ {c}
  /\ UNCHANGED <<device, flush, reloads, office>>

(* The office releases the crew or takes the job out of progress.          *)
officeTakesBack(j) ==
  /\ j \in office.held /\ office.report[j] = 0
  /\ office' = [office EXCEPT !.held = @ \ {j}]
  /\ UNCHANGED <<device, flush, reloads, wire>>

FlushStep ==
  \/ flushStart \/ sendWrapUp \/ takeAnswer \/ flushEnd
  \/ \E s \in Shots : attachMedia(s) \/ lostShot(s)

Received == \E c \in wire : attachJobMedia(c) \/ wrapUpReceived(c)

WrapNext ==
  \/ FlushStep \/ Received \/ giveUp \/ reload
  \/ \E j \in Works : submit(j) \/ reopen(j) \/ officeTakesBack(j)
  \/ \E s \in Shots : addShot(s) \/ evict(s)
  \/ \E c \in wire : storeUnavailable(c) \/ lose(c)

(* The tick runs every second and a fetch ends; the network and the store  *)
(* are not down for ever.  Nothing is asked of the technician.             *)
WrapFairness ==
  /\ WF_wrapVars(FlushStep) /\ WF_wrapVars(giveUp)
  /\ SF_wrapVars(Received /\ flush'.answer # flush.answer)

WrapSpec == WrapInit /\ [][WrapNext]_wrapVars /\ WrapFairness

-----------------------------------------------------------------------------
Stands(j, refused) == \E e \in Range(entries) : e.job = j /\ e.refused = refused

(* A completion that was submitted is a draft again, waits in the outbox,  *)
(* or is with the office, photos and all: no lost answer, reload or        *)
(* refusal makes it vanish.                                                *)
CompletionIsKept ==
  \A j \in Works : submits[j] > 0 =>
    \/ draft[j] \/ \E e \in Range(entries) : e.job = j
    \/ office.report[j] > 0 /\ ShotsOf[j] \subseteq office.got

(* Every entry is taken by the office or refused to the technician in the  *)
(* end: one that cannot be sent does not hold up those behind it.          *)
EveryCompletionSettles ==
  \A j \in Works :
    Stands(j, "no") ~> ~ Stands(j, "no")

(* "the photo is still on the device and will be sent again": an entry one *)
(* of whose photos the object store did not take does not stay refused,    *)
(* unless the photo or the job is no longer there.                         *)
TurnedAwayIsSentAgain ==
  \A j \in Works : Stands(j, "storage_unavailable") ~>
    \/ ~ Stands(j, "storage_unavailable")
    \/ j \notin office.held \/ ~ (ShotsOf[j] \subseteq media)
=============================================================================
