----------------------------- MODULE OfflineSync -----------------------------
(***************************************************************************)
(* A technician's device and the gateway, with a network between them that *)
(* loses, delays and reorders: the offline mutation queue of S5 (enqueue,  *)
(* flush, reload, sign-in), its copy in the browser's storage, and         *)
(* sync.replay as the device sees it, one batch in one transaction.        *)
(*                                                                         *)
(* The interleaving of sync.replay's own statements with other handlers is *)
(* Dispatch's subject; here a batch is served in one step, which is what   *)
(* the advisory lock on the device and the lock on the job make of it.     *)
(* One device, one technician and one job: queues are keyed by device and  *)
(* technician, and jobs are ruled on separately.                           *)
(***************************************************************************)
EXTENDS JobLifecycle, Sequences, FiniteSets, SequencesExt, TLC, Queues

CONSTANTS
  Ids,           \* mutation ids, minted once each
  Mutations,     \* what an intent may ask for
  InitialStates, \* where the job may be when the device goes offline
  MaxInFlight,   \* bound on requests in the network and at the gateway
  MaxOffice,     \* bound on what the office does meanwhile
  SignsInAgain,  \* whether the technician signs out and in mid-flight
  None

SyncMutations == DeviceMutations \cup [table : {"shift_punches"}, to : {"none"}]

ASSUME OfflineAssumption ==
  /\ None \notin Ids \cup Outcomes /\ None \notin Mutations
  /\ Mutations \subseteq SyncMutations
  /\ InitialStates \subseteq JobStateWire
  /\ MaxInFlight \in Nat /\ MaxOffice \in Nat
  /\ SignsInAgain \in BOOLEAN

VARIABLES
  made,      \* the ids in the order their intents were made
  asks,      \* what each intent asks for
  pending,   \* the queue object's pending entries, oldest first
  attention, \* the intents shown to the technician as not simply applied
  seq,       \* the queue object's deviceSeq counter
  flight,    \* the batch a flush waits on, <<>> when not flushing
  orphan,    \* an earlier session's queue object, still waiting on a flush
  store,     \* localStorage: the queue and the attention items
  requests,  \* sync.replay requests not yet served
  responses, \* answers on their way back
  job,       \* jobs.state
  live,      \* whether the crew still holds the job
  office,    \* how often the office has acted
  intents,   \* sync_mutations: the recorded outcome of each intent
  applied,   \* the rows written for intents, oldest first
  moot       \* intents answered "duplicate" without a record

device == <<pending, attention, seq, flight, orphan, store>>
server == <<job, live, intents, applied, moot>>
vars   == <<made, asks, pending, attention, seq, flight, orphan, store,
            requests, responses, job, live, office, intents, applied, moot>>

IdsOf(q) == {q[k].id : k \in DOMAIN q}

NoOrphan == [pending |-> <<>>, attention |-> {}, flight |-> <<>>]

Init ==
  /\ made = <<>> /\ asks = [i \in Ids |-> None]
  /\ pending = <<>> /\ attention = {} /\ seq = 0 /\ flight = <<>>
  /\ orphan = NoOrphan
  /\ store = [queue |-> <<>>, attention |-> {}]
  /\ requests = <<>> /\ responses = {}
  /\ job \in InitialStates /\ live = TRUE /\ office = 0
  /\ intents = [i \in Ids |-> None] /\ applied = <<>> /\ moot = {}

-----------------------------------------------------------------------------
(* The device.                                                             *)

(* persist: the queue in memory and in storage.                            *)
persist(next) ==
  /\ pending' = next
  /\ store' = [queue |-> next, attention |-> store.attention]

enqueue(i, m) ==
  /\ asks[i] = None
  /\ made' = Append(made, i)
  /\ asks' = [asks EXCEPT ![i] = m]
  /\ seq' = seq + 1
  /\ persist(Append(pending, [id |-> i, seq |-> seq + 1]))
  /\ UNCHANGED <<attention, flight, orphan, requests, responses, office, server>>

(* The first half of flush: what is pending goes out in one request.       *)
FlushSend ==
  /\ flight = <<>> /\ pending # <<>>
  /\ Len(requests) < MaxInFlight
  /\ flight' = pending
  /\ requests' = Append(requests, [from |-> "session", batch |-> pending])
  /\ UNCHANGED <<made, asks, pending, attention, seq, orphan, store, responses,
                 office, server>>

(* From here on nobody waits for what this sender sent.                    *)
Relabel(from, to) ==
  /\ requests' = [k \in DOMAIN requests |->
       IF requests[k].from = from
       THEN [from |-> to, batch |-> requests[k].batch] ELSE requests[k]]
  /\ responses' = {IF p.from = from
                   THEN [from |-> to, outcomes |-> p.outcomes] ELSE p :
                   p \in responses}

(* Mutant: the flag that a flush is under way is not taken down.           *)
FlushFail_StaysBusy ==
  /\ flight # <<>>
  /\ Relabel("session", "nobody")
  /\ UNCHANGED <<made, asks, device, office, server>>

(* No answer: nothing is learned and the batch stays queued.               *)
FlushFail ==
  /\ flight # <<>>
  /\ flight' = <<>>
  /\ Relabel("session", "nobody")
  /\ UNCHANGED <<made, asks, pending, attention, seq, orphan, store, office,
                 server>>

Answered(batch, outcomes, kinds) ==
  {i \in IdsOf(batch) \cap DOMAIN outcomes : outcomes[i] \in kinds}

(* Mutant: what was appended during the await is dropped with the batch.   *)
Remaining_Batch(queue, batch, outcomes) ==
  KeepIn(batch, {e \in Range(batch) : e.id \notin DOMAIN outcomes})

(* What stays queued: the unanswered, and what came in during the await.   *)
Remaining(queue, batch, outcomes) ==
  KeepIn(batch, {e \in Range(batch) : e.id \notin DOMAIN outcomes})
    \o SubSeq(queue, Len(batch) + 1, Len(queue))

Flagged(batch, outcomes) ==
  Answered(batch, outcomes, Outcomes \ {"applied", "duplicate"})

(* The second half of flush.                                               *)
FlushDone(p) ==
  LET next  == Remaining(pending, flight, p.outcomes)
      items == attention \cup Flagged(flight, p.outcomes)
  IN
  /\ p.from = "session" /\ flight # <<>>
  /\ responses' = responses \ {p}
  /\ pending' = next
  /\ attention' = items
  /\ store' = [queue |-> next,
               attention |-> IF Flagged(flight, p.outcomes) = {}
                             THEN store.attention ELSE items]
  /\ flight' = <<>>
  /\ UNCHANGED <<made, asks, seq, orphan, requests, office, server>>

dismissAttention(i) ==
  /\ i \in attention
  /\ attention' = attention \ {i}
  /\ store' = [queue |-> store.queue, attention |-> attention \ {i}]
  /\ UNCHANGED <<made, asks, pending, seq, flight, orphan, requests, responses,
                 office, server>>

(* Mutant: a reloaded queue starts its order afresh.                       *)
LastSeq_Zero(queue) == 0

LastSeq(queue) ==
  IF queue = <<>> THEN 0 ELSE Max({queue[k].seq : k \in DOMAIN queue})

(* createOfflineQueue: a new queue object is read back from storage.       *)
createOfflineQueue ==
  /\ pending' = store.queue
  /\ attention' = store.attention
  /\ seq' = LastSeq(store.queue)
  /\ flight' = <<>>
  /\ UNCHANGED <<made, asks, store, office, server>>

(* The page is reloaded: every queue object is gone, and with them who     *)
(* waited for an answer.                                                   *)
Reload ==
  /\ createOfflineQueue
  /\ orphan' = NoOrphan
  /\ requests' = [k \in DOMAIN requests |->
                    [from |-> "nobody", batch |-> requests[k].batch]]
  /\ responses' = {[from |-> "nobody", outcomes |-> p.outcomes] :
                   p \in responses}

(* Signed out and in again in one page while a flush waits: the new        *)
(* session has a queue object of its own, and the old one's flush goes on. *)
SignInAgain ==
  /\ SignsInAgain /\ flight # <<>> /\ orphan = NoOrphan
  /\ createOfflineQueue
  /\ orphan' = [pending |-> pending, attention |-> attention,
                flight |-> flight]
  /\ Relabel("session", "orphan")

OrphanDone(p) ==
  LET next  == Remaining(orphan.pending, orphan.flight, p.outcomes)
      items == orphan.attention \cup Flagged(orphan.flight, p.outcomes)
  IN
  /\ p.from = "orphan"
  /\ responses' = responses \ {p}
  /\ store' = [queue |-> next,
               attention |-> IF Flagged(orphan.flight, p.outcomes) = {}
                             THEN store.attention ELSE items]
  /\ orphan' = NoOrphan
  /\ UNCHANGED <<made, asks, pending, attention, seq, flight, requests, office,
                 server>>

OrphanFail ==
  /\ orphan # NoOrphan
  /\ orphan' = NoOrphan
  /\ Relabel("orphan", "nobody")
  /\ UNCHANGED <<made, asks, pending, attention, seq, flight, store, office,
                 server>>

-----------------------------------------------------------------------------
(* sync.replay: one batch, in the device's order, in one transaction.      *)

(* Mutant: what was seen before is not read.                               *)
Outcome_Unseen(s, i) ==
  IF asks[i].table = "shift_punches" THEN "applied"
  ELSE IF ~live THEN "queued_for_human"
  ELSE resolveMutation(asks[i], s.job)

(* The decision on one intent, given the batch so far.                     *)
Outcome(s, i) ==
  IF s.intents[i] # None THEN "duplicate"
  ELSE IF asks[i].table = "shift_punches" THEN "applied"
  ELSE IF ~live THEN "queued_for_human"
  ELSE resolveMutation(asks[i], s.job)

(* ingestOne, or the savepoint it is rolled back to when the database      *)
(* refuses its row: what each leaves in the tables and in the answer.      *)
ingestOne(s, i, refused) ==
  LET decided == Outcome(s, i)
      outcome == IF decided = "applied" /\ refused THEN "rejected"
                 ELSE decided
      isMove  == outcome = "applied" /\ asks[i].table = "jobs"
  IN
  [job      |-> IF isMove THEN asks[i].to ELSE s.job,
   intents  |-> IF outcome = "duplicate" THEN s.intents
                ELSE [s.intents EXCEPT ![i] = outcome],
   applied  |-> IF outcome = "applied" THEN Append(s.applied, i)
                ELSE s.applied,
   moot     |-> IF outcome = "duplicate" /\ s.intents[i] = None
                THEN s.moot \cup {i} ELSE s.moot,
   outcomes |-> [s.outcomes EXCEPT ![i] = outcome]]

(* In deviceSeq order; the sort is stable.                                 *)
InDeviceOrder(batch) ==
  [k \in DOMAIN batch |-> batch[CHOOSE n \in DOMAIN batch :
     k = 1 + Cardinality({o \in DOMAIN batch :
                            \/ batch[o].seq < batch[n].seq
                            \/ batch[o].seq = batch[n].seq /\ o < n})]]

(* The job's own transitions cannot be refused: the version is locked.     *)
MayBeRefused(i) == IF asks[i].table = "jobs" THEN {FALSE} ELSE BOOLEAN

(* The tables and the answer as a batch begins.                            *)
Begin(batch) == [job |-> job, intents |-> intents, applied |-> applied,
                 moot |-> moot, outcomes |-> [i \in IdsOf(batch) |-> None]]

After(S, e) ==
  {ingestOne(s, e.id, refused) : s \in S, refused \in MayBeRefused(e.id)}

(* What a batch may leave behind, by which of its rows are refused.        *)
Replayed(batch) ==
  LET order == InDeviceOrder(batch)
      after[n \in 0 .. Len(order)] ==
        IF n = 0 THEN {Begin(batch)} ELSE After(after[n - 1], order[n])
  IN after[Len(order)]

ingestSync(k) ==
  LET r == requests[k] IN
  \E end \in Replayed(r.batch) :
    /\ requests' = RemoveAt(requests, k)
    /\ responses' = IF r.from = "nobody" THEN responses
                    ELSE responses \cup
                         {[from |-> r.from, outcomes |-> end.outcomes]}
    /\ job' = end.job
    /\ intents' = end.intents
    /\ applied' = end.applied
    /\ moot' = end.moot
    /\ UNCHANGED <<made, asks, device, live, office>>

-----------------------------------------------------------------------------
(* The network and the office.                                             *)

(* A request is lost, or its transaction is rolled back.                   *)
LoseRequest(k) ==
  /\ requests' = RemoveAt(requests, k)
  /\ UNCHANGED <<made, asks, device, responses, office, server>>

LoseResponse(p) ==
  /\ responses' = responses \ {p}
  /\ UNCHANGED <<made, asks, device, requests, office, server>>

(* transitionJob and releaseAssignment, whole.                             *)
OfficeTransitions(to) ==
  /\ office < MaxOffice
  /\ to \in OfficeMoves(job)
  /\ job' = to
  /\ live' = (live /\ to # "cancelled")
  /\ office' = office + 1
  /\ UNCHANGED <<made, asks, device, requests, responses, intents, applied,
                 moot>>

OfficeReleases ==
  /\ office < MaxOffice
  /\ live /\ job = "assigned"
  /\ live' = FALSE /\ job' = "created"
  /\ office' = office + 1
  /\ UNCHANGED <<made, asks, device, requests, responses, intents, applied,
                 moot>>

-----------------------------------------------------------------------------
Serve(from) ==
  \E k \in DOMAIN requests : requests[k].from = from /\ ingestSync(k)

Answer == \E p \in responses : FlushDone(p)

Next ==
  \/ \E i \in Ids, m \in Mutations : enqueue(i, m)
  \/ FlushSend \/ FlushFail \/ Answer
  \/ \E i \in Ids : dismissAttention(i)
  \/ Reload \/ SignInAgain \/ OrphanFail
  \/ \E p \in responses : OrphanDone(p)
  \/ \E from \in {"session", "orphan", "nobody"} : Serve(from)
  \/ \E k \in DOMAIN requests : LoseRequest(k)
  \/ \E p \in responses : LoseResponse(p)
  \/ \E to \in JobStateWire : OfficeTransitions(to)
  \/ OfficeReleases

(* The ticker flushes whatever is queued; a fetch that is not answered     *)
(* fails in the end; a gateway that is asked again and again serves a      *)
(* request in the end, and of the answers to them one gets through; a      *)
(* request nobody waits for does not stay in the network for ever.         *)
Fairness ==
  /\ WF_vars(FlushSend) /\ WF_vars(FlushFail) /\ WF_vars(OrphanFail)
  /\ SF_vars(Serve("session")) /\ SF_vars(Answer)
  /\ WF_vars(\E k \in DOMAIN requests :
       requests[k].from = "nobody" /\ LoseRequest(k))

Spec == Init /\ [][Next]_vars /\ Fairness
-----------------------------------------------------------------------------
(* Properties.                                                             *)

(* However often a batch is sent, served, lost and sent again, an intent   *)
(* takes effect at most once.                                              *)
AppliedAtMostOnce ==
  \A p, q \in DOMAIN applied : applied[p] = applied[q] => p = q

MadeBefore(i, j) ==
  \E p, q \in DOMAIN made : p < q /\ made[p] = i /\ made[q] = j

(* Intents take effect in the order the technician made them, through      *)
(* reloads and requests that overtake each other; an intent once answered  *)
(* "duplicate" without a record is the exception.                          *)
AppliedInDeviceOrder ==
  \A p, q \in DOMAIN applied :
    p < q => ~MadeBefore(applied[q], applied[p]) \/ applied[q] \in moot

Settled(i) == intents[i] # None \/ i \in moot

(* A reload loses nothing: an intent the server has not settled is in the  *)
(* browser's storage.                                                      *)
UnsettledIsStored ==
  \A i \in Ids : asks[i] # None /\ ~Settled(i) => i \in IdsOf(store.queue)

(* What the device and the gateway do together is what the ledger allows.  *)
Ledger == INSTANCE IntentLedger WITH
            Rulings <- Outcomes \ {"duplicate"},
            made <- ToSet(made), held <- IdsOf(pending), ruling <- intents

ImplementsLedger == Ledger!Spec

(* The queue drains: every intent that is made is settled and leaves the   *)
(* queue, if the network is not dead for ever.                             *)
EveryIntentLeaves ==
  \A i \in Ids : i \in IdsOf(pending) ~> i \notin IdsOf(pending)

(* "surfaced instead, so a person reads it rather than the device silently *)
(* discarding it": an intent that was not simply applied leaves the retry  *)
(* queue only for the technician's attention.                              *)
NotSilentlyDiscarded ==
  [][\A i \in IdsOf(pending) :
       i \notin IdsOf(pending)' =>
         intents[i] \in {"applied", None} \/ i \in attention']_vars
=============================================================================
