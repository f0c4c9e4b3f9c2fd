------------------------------- MODULE Outbox -------------------------------
(***************************************************************************)
(* Events, from the unit of work that makes one to the surface that hears  *)
(* it.  A request writes a row, and its audit entry and event are kept in  *)
(* memory until the commit inserts both; relays claim unpublished outbox   *)
(* rows in occurrence order, NOTIFY and mark them in one transaction; the  *)
(* gateway's LISTEN connection and the surface's stream carry what is      *)
(* notified to a subscriber, while they are up.                            *)
(*                                                                         *)
(* A NOTIFY is delivered when its transaction commits, and not at all if   *)
(* it does not.                                                            *)
(***************************************************************************)
EXTENDS Naturals, FiniteSets

CONSTANTS
  Events,    \* mutations a request may apply, each with its event
  Strays,    \* rows put into the outbox around the gateway: unknown topics
  Requests,  \* units of work at once
  Relays,    \* relay processes
  BatchSize, \* rows a relay takes at a time
  PARKED     \* attempts at which a row is no longer read

ASSUME OutboxAssumption ==
  /\ Events \cap Strays = {}
  /\ BatchSize \in Nat \ {0} /\ PARKED \in Nat \ {0}

VARIABLES
  asked,     \* the mutations asked for so far
  wrote,     \* the rows each open transaction has written
  pending,   \* the audits and events each unit of work holds in memory
  facts,     \* the rows that are committed
  auditLog,  \* audit_log, by event id
  outbox,    \* the outbox's rows
  at,        \* occurred_at
  attempts,  \* outbox.attempts
  published, \* the rows with published_at set
  phase,     \* where each relay is: "idle", "claimed" or "notified"
  batch,     \* the rows each relay holds locked
  notices,   \* how often each row has been notified
  up,        \* whether LISTEN and the surface's stream are both open
  heard      \* the events the surface has been handed

uowVars   == <<asked, wrote, pending, facts, auditLog>>
relayVars == <<attempts, published, phase, batch, notices>>
vars == <<asked, wrote, pending, facts, auditLog, outbox, at, attempts,
          published, phase, batch, notices, up, heard>>

Rows == Events \cup Strays

Init ==
  /\ asked = {} /\ facts = {} /\ auditLog = {} /\ outbox = {}
  /\ wrote = [h \in Requests |-> {}]
  /\ pending = [h \in Requests |-> {}]
  /\ at = [e \in Rows |-> 0]
  /\ attempts = [e \in Rows |-> 0]
  /\ published = {}
  /\ phase = [r \in Relays |-> "idle"]
  /\ batch = [r \in Relays |-> {}]
  /\ notices = [e \in Rows |-> 0]
  /\ up = TRUE /\ heard = {}

-----------------------------------------------------------------------------
(* The unit of work.                                                       *)

Now == Cardinality(asked)

(* Mutant: the audit and the event are noted before the row is written.    *)
apply_NotedFirst(h, e, refused) ==
  /\ e \notin asked
  /\ asked' = asked \cup {e}
  /\ wrote' = [wrote EXCEPT ![h] = IF refused THEN @ ELSE @ \cup {e}]
  /\ pending' = [pending EXCEPT ![h] = @ \cup {e}]
  /\ at' = [at EXCEPT ![e] = Now]
  /\ UNCHANGED <<facts, auditLog, outbox, relayVars, up, heard>>

(* One mutation.  A row the database refuses is undone to a savepoint and  *)
(* the unit of work goes on without it, as sync.replay does.               *)
apply(h, e, refused) ==
  /\ e \notin asked
  /\ asked' = asked \cup {e}
  /\ wrote' = [wrote EXCEPT ![h] = IF refused THEN @ ELSE @ \cup {e}]
  /\ pending' = [pending EXCEPT ![h] = IF refused THEN @ ELSE @ \cup {e}]
  /\ at' = [at EXCEPT ![e] = Now]
  /\ UNCHANGED <<facts, auditLog, outbox, relayVars, up, heard>>

commit(h) ==
  /\ pending[h] # {}
  /\ facts' = facts \cup wrote[h]
  /\ auditLog' = auditLog \cup pending[h]
  /\ outbox' = outbox \cup pending[h]
  /\ wrote' = [wrote EXCEPT ![h] = {}]
  /\ pending' = [pending EXCEPT ![h] = {}]
  /\ UNCHANGED <<asked, at, relayVars, up, heard>>

(* The handler throws, or the process dies.                                *)
rollback(h) ==
  /\ pending[h] # {}
  /\ wrote' = [wrote EXCEPT ![h] = {}]
  /\ pending' = [pending EXCEPT ![h] = {}]
  /\ UNCHANGED <<asked, facts, auditLog, outbox, at, relayVars, up, heard>>

(* Something writes to the outbox around the gateway.                      *)
Stray(e) ==
  /\ e \notin outbox
  /\ outbox' = outbox \cup {e}
  /\ at' = [at EXCEPT ![e] = Now]
  /\ UNCHANGED <<uowVars, relayVars, up, heard>>

-----------------------------------------------------------------------------
(* relayOnce.                                                              *)

(* Mutant: the rows are read without FOR UPDATE SKIP LOCKED.               *)
Waiting_Unlocked == {e \in outbox \ published : attempts[e] < PARKED}

Waiting ==
  {e \in outbox \ published :
     attempts[e] < PARKED /\ \A r \in Relays : e \notin batch[r]}

(* ORDER BY occurred_at LIMIT batchSize.                                   *)
Oldest(rows) ==
  {b \in SUBSET rows :
     /\ Cardinality(b) <= BatchSize
     /\ Cardinality(b) < BatchSize => b = rows
     /\ \A x \in b, y \in rows \ b : at[x] <= at[y]}

Claim(r) ==
  /\ phase[r] = "idle"
  /\ Waiting # {}
  /\ \E b \in Oldest(Waiting) : batch' = [batch EXCEPT ![r] = b]
  /\ phase' = [phase EXCEPT ![r] = "claimed"]
  /\ UNCHANGED <<uowVars, outbox, at, attempts, published, notices, up, heard>>

(* Mutant: an event is published without a look at its topic.              *)
Good_AnyTopic(r) == batch[r]

(* A row whose topic is in the catalogue is an event; another is parked.   *)
Good(r) == batch[r] \cap Events
Bad(r)  == batch[r] \cap Strays

Publish(r) ==
  /\ phase[r] = "claimed"
  /\ phase' = [phase EXCEPT ![r] = "notified"]
  /\ UNCHANGED <<uowVars, outbox, at, attempts, published, batch, notices, up,
                 heard>>

Release(r) ==
  /\ phase' = [phase EXCEPT ![r] = "idle"]
  /\ batch' = [batch EXCEPT ![r] = {}]

(* Mutant: an outage parks rows.                                           *)
Tried_Uncapped(n) == n + 1

Tried(n) == IF n + 1 < PARKED THEN n + 1 ELSE PARKED - 1

(* The transport fails: back to the savepoint, count, commit, retry later. *)
PublishFailed(r) ==
  /\ phase[r] = "claimed" /\ Good(r) # {}
  /\ attempts' = [e \in Rows |->
                    IF e \in batch[r] THEN Tried(attempts[e]) ELSE attempts[e]]
  /\ Release(r)
  /\ UNCHANGED <<uowVars, outbox, at, published, notices, up, heard>>

(* Mutant: a row with an unknown topic is left as it is.                   *)
Parked_Left(n) == n

Parked(n) == n + PARKED

(* The rows are marked and the transaction commits; with it the notices.   *)
Mark(r) ==
  /\ phase[r] = "notified"
  /\ published' = published \cup Good(r)
  /\ attempts' = [e \in Rows |->
                    IF e \in Bad(r) THEN Parked(attempts[e]) ELSE attempts[e]]
  /\ notices' = [e \in Rows |->
                    IF e \in Good(r) THEN notices[e] + 1 ELSE notices[e]]
  /\ heard' = IF up THEN heard \cup Good(r) ELSE heard
  /\ Release(r)
  /\ UNCHANGED <<uowVars, outbox, at, up>>

(* The relay or its connection dies: the batch is as it was.               *)
RelayDies(r) ==
  /\ phase[r] # "idle"
  /\ Release(r)
  /\ UNCHANGED <<uowVars, outbox, at, attempts, published, notices, up, heard>>

-----------------------------------------------------------------------------
(* The way to the surface: reopened after a loss, with nothing asked for   *)
(* of what was missed.                                                     *)

StreamLost ==
  /\ up
  /\ up' = FALSE
  /\ UNCHANGED <<uowVars, outbox, at, relayVars, heard>>

StreamReopened ==
  /\ ~up
  /\ up' = TRUE
  /\ UNCHANGED <<uowVars, outbox, at, relayVars, heard>>

-----------------------------------------------------------------------------
Unit(h) ==
  \/ \E e \in Events, refused \in BOOLEAN : apply(h, e, refused)
  \/ commit(h) \/ rollback(h)

Relay(r) ==
  Claim(r) \/ Publish(r) \/ PublishFailed(r) \/ Mark(r) \/ RelayDies(r)

Next ==
  \/ \E h \in Requests : Unit(h)
  \/ \E e \in Strays : Stray(e)
  \/ \E r \in Relays : Relay(r)
  \/ StreamLost \/ StreamReopened

(* A relay runs every second; the transport is not down for ever, and a    *)
(* relay does not die in every batch; a lost stream is reopened.           *)
Fairness ==
  /\ \A r \in Relays :
       WF_vars(Claim(r)) /\ SF_vars(Publish(r)) /\ SF_vars(Mark(r))
  /\ WF_vars(StreamReopened)

Spec == Init /\ [][Next]_vars /\ Fairness

-----------------------------------------------------------------------------
(* Properties.                                                             *)

(* Every variable has the shape its table or its process gives it.         *)
TypeOK ==
  /\ asked \subseteq Events /\ facts \subseteq Events
  /\ auditLog \subseteq Events /\ outbox \subseteq Rows
  /\ wrote \in [Requests -> SUBSET Events]
  /\ pending \in [Requests -> SUBSET Events]
  /\ at \in [Rows -> Nat] /\ attempts \in [Rows -> Nat]
  /\ published \subseteq Events
  /\ phase \in [Relays -> {"idle", "claimed", "notified"}]
  /\ batch \in [Relays -> SUBSET Rows]
  /\ notices \in [Rows -> Nat]
  /\ up \in BOOLEAN /\ heard \subseteq Events

(* What the platform says happened is what happened: a committed row has   *)
(* its audit entry and its event, and there is neither without the row,    *)
(* whichever step of the request failed.  Nothing else is ever published.  *)
EventsAreFacts ==
  /\ auditLog = facts
  /\ outbox \cap Events = facts
  /\ published \cup heard \subseteq facts

(* Two relays, one of which may die at any point, notify a row once, when  *)
(* it is marked published, and never otherwise.                            *)
NotifiedOnce ==
  \A e \in Rows : notices[e] = IF e \in published THEN 1 ELSE 0

(* An outage of any length parks nothing: only a row with an unknown topic *)
(* reaches PARKED attempts.                                                *)
OnlyStraysAreParked == \A e \in Events : attempts[e] < PARKED

(* Every event is published in the end: a row with an unknown topic at the *)
(* head of the queue does not starve the rest.                             *)
EveryEventIsPublished ==
  \A e \in Events : e \in outbox ~> e \in published
=============================================================================
