-------------------------- MODULE WorkersProofs -----------------------------
(***************************************************************************)
(* What runs beside the requests: the relays of the outbox, and the        *)
(* worker's sweeps of the SLA timers, the quotes and the credentials, for  *)
(* any number of rows and of workers that overlap.                         *)
(***************************************************************************)
EXTENDS Outbox, SlaCascade, QuoteSweep, ExpirySweep, Integers, TLAPS,
        FiniteSetTheorems

-----------------------------------------------------------------------------
(***************************************************************************)
(* Outbox. What a unit of work holds in memory is what its transaction has *)
(* written (Noted), and a row that is being published is one relay's       *)
(* (Locked).                                                               *)
(***************************************************************************)

(* What a unit of work holds in memory is what its transaction has written.*)
Noted == \A h \in Requests : wrote[h] = pending[h]

(* A row is locked by one relay at most, and only while it is unpublished. *)
Locked ==
  /\ \A r \in Relays : batch[r] \subseteq outbox \ published
  /\ \A r, q \in Relays : r # q => batch[r] \cap batch[q] = {}

(* The inductive invariant.                                                *)
OutboxInv ==
  /\ TypeOK /\ IsFiniteSet(asked)
  /\ Noted /\ Locked
  /\ EventsAreFacts /\ NotifiedOnce /\ OnlyStraysAreParked

-----------------------------------------------------------------------------
(* A failed publish counts up to one short of PARKED and stops there.      *)
LEMMA TriedStopsShort ==
  ASSUME NEW n \in Nat
  PROVE  Tried(n) \in Nat /\ Tried(n) < PARKED
BY OutboxAssumption DEF Tried

(* A batch is taken from the rows that wait, whatever its order and size.  *)
LEMMA OldestIsPart ==
  ASSUME NEW rows, NEW b \in Oldest(rows)
  PROVE  b \subseteq rows
BY DEF Oldest

(* Nothing is written, claimed or published at the start.                  *)
LEMMA OutboxInitInv == Init => OutboxInv
<1> SUFFICES ASSUME Init PROVE OutboxInv
  OBVIOUS
<1>1. TypeOK
  BY DEF Init, TypeOK, Rows
<1>2. IsFiniteSet(asked)
  BY FS_EmptySet DEF Init
<1>3. Noted /\ Locked
  BY DEF Init, Noted, Locked
<1>4. EventsAreFacts /\ NotifiedOnce
  BY DEF Init, EventsAreFacts, NotifiedOnce
<1>5. OnlyStraysAreParked
  BY OutboxAssumption DEF Init, OnlyStraysAreParked, Rows
<1> QED
  BY <1>1, <1>2, <1>3, <1>4, <1>5 DEF OutboxInv

(* A mutation notes its audit and event with the row it writes, or neither.*)
LEMMA ApplyInv ==
  ASSUME OutboxInv, NEW h \in Requests, NEW e \in Events, NEW refused \in BOOLEAN,
         apply(h, e, refused)
  PROVE  OutboxInv'
<1> USE DEF OutboxInv
<1>1. Now \in Nat
  BY FS_CardinalityType DEF Now
<1>2. TypeOK'
  BY <1>1 DEF TypeOK, apply, relayVars, Rows
<1>3. IsFiniteSet(asked')
  BY FS_AddElement DEF apply
<1>4. Noted'
  BY DEF Noted, TypeOK, apply
<1>5. Locked'
  BY DEF Locked, apply, relayVars
<1>6. EventsAreFacts' /\ NotifiedOnce' /\ OnlyStraysAreParked'
  BY DEF EventsAreFacts, NotifiedOnce, OnlyStraysAreParked, apply, relayVars
<1> QED
  BY <1>2, <1>3, <1>4, <1>5, <1>6

(* A commit makes rows, audits and events permanent together.              *)
LEMMA UnitCommitInv ==
  ASSUME OutboxInv, NEW h \in Requests, commit(h)
  PROVE  OutboxInv'
<1> USE DEF OutboxInv
<1>1. TypeOK' /\ IsFiniteSet(asked')
  BY DEF TypeOK, commit, relayVars, Rows
<1>2. Noted'
  BY DEF Noted, TypeOK, commit
<1>3. Locked'
  BY DEF Locked, commit, relayVars
<1>4. EventsAreFacts'
  <2>1. wrote[h] = pending[h] /\ pending[h] \subseteq Events
    BY DEF Noted, TypeOK
  <2> QED
    BY <2>1 DEF EventsAreFacts, commit, relayVars
<1>5. NotifiedOnce' /\ OnlyStraysAreParked'
  BY DEF NotifiedOnce, OnlyStraysAreParked, commit, relayVars
<1> QED
  BY <1>1, <1>2, <1>3, <1>4, <1>5

(* A rollback leaves nothing of the unit of work.                          *)
LEMMA RollbackInv ==
  ASSUME OutboxInv, NEW h \in Requests, rollback(h)
  PROVE  OutboxInv'
<1> USE DEF OutboxInv
<1>1. TypeOK' /\ IsFiniteSet(asked')
  BY DEF TypeOK, rollback, relayVars
<1>2. Noted'
  BY DEF Noted, TypeOK, rollback
<1>3. Locked'
  BY DEF Locked, rollback, relayVars
<1>4. EventsAreFacts' /\ NotifiedOnce' /\ OnlyStraysAreParked'
  BY DEF EventsAreFacts, NotifiedOnce, OnlyStraysAreParked, rollback, relayVars
<1> QED
  BY <1>1, <1>2, <1>3, <1>4

(* A row written around the gateway is never taken for an event.           *)
LEMMA StrayInv ==
  ASSUME OutboxInv, NEW e \in Strays, Stray(e)
  PROVE  OutboxInv'
<1> USE DEF OutboxInv
<1>1. Now \in Nat
  BY FS_CardinalityType DEF Now
<1>2. TypeOK' /\ IsFiniteSet(asked')
  BY <1>1 DEF TypeOK, Stray, uowVars, relayVars, Rows
<1>3. Noted' /\ Locked'
  BY DEF Noted, Locked, Stray, uowVars, relayVars
<1>4. EventsAreFacts'
  BY OutboxAssumption DEF EventsAreFacts, Stray, uowVars, relayVars
<1>5. NotifiedOnce' /\ OnlyStraysAreParked'
  BY DEF NotifiedOnce, OnlyStraysAreParked, Stray, relayVars
<1> QED
  BY <1>2, <1>3, <1>4, <1>5

-----------------------------------------------------------------------------
(* A relay claims unpublished rows that no other relay holds.              *)
LEMMA ClaimInv ==
  ASSUME OutboxInv, NEW r \in Relays, Claim(r)
  PROVE  OutboxInv'
<1> USE DEF OutboxInv
<1>1. PICK b \in Oldest(Waiting) : batch' = [batch EXCEPT ![r] = b]
  BY DEF Claim
<1>2. /\ b \subseteq outbox \ published
      /\ \A q \in Relays : b \cap batch[q] = {}
  BY OldestIsPart DEF Waiting
<1>3. TypeOK' /\ IsFiniteSet(asked')
  BY <1>1, <1>2 DEF TypeOK, Claim, uowVars
<1>4. Noted'
  BY DEF Noted, Claim, uowVars
<1>5. Locked'
  BY <1>1, <1>2 DEF Locked, TypeOK, Claim
<1>6. EventsAreFacts' /\ NotifiedOnce' /\ OnlyStraysAreParked'
  BY DEF EventsAreFacts, NotifiedOnce, OnlyStraysAreParked, Claim, uowVars
<1> QED
  BY <1>3, <1>4, <1>5, <1>6

(* A NOTIFY is nothing to anyone until its transaction commits.            *)
LEMMA PublishInv ==
  ASSUME OutboxInv, NEW r \in Relays, Publish(r)
  PROVE  OutboxInv'
<1> USE DEF OutboxInv
<1>1. TypeOK' /\ IsFiniteSet(asked')
  BY DEF TypeOK, Publish, uowVars
<1>2. Noted' /\ Locked'
  BY DEF Noted, Locked, Publish, uowVars
<1>3. EventsAreFacts' /\ NotifiedOnce' /\ OnlyStraysAreParked'
  BY DEF EventsAreFacts, NotifiedOnce, OnlyStraysAreParked, Publish, uowVars
<1> QED
  BY <1>1, <1>2, <1>3

(* A relay that lets its batch go leaves the other batches as they are.    *)
LEMMA ReleaseLocked ==
  ASSUME TypeOK, Locked, NEW r \in Relays, Release(r),
         UNCHANGED <<outbox, published>>
  PROVE  Locked'
BY DEF TypeOK, Locked, Release

(* A transport that is down marks nothing and parks nothing.               *)
LEMMA PublishFailedInv ==
  ASSUME OutboxInv, NEW r \in Relays, PublishFailed(r)
  PROVE  OutboxInv'
<1> USE DEF OutboxInv
<1>1. \A e \in Rows : attempts[e] \in Nat
  BY DEF TypeOK
<1>2. attempts' \in [Rows -> Nat]
  BY <1>1, TriedStopsShort DEF PublishFailed
<1>3. TypeOK' /\ IsFiniteSet(asked')
  BY <1>2 DEF TypeOK, PublishFailed, Release, uowVars
<1>4. Noted'
  BY DEF Noted, PublishFailed, uowVars
<1>5. Locked'
  BY ReleaseLocked DEF PublishFailed
<1>6. EventsAreFacts' /\ NotifiedOnce'
  BY DEF EventsAreFacts, NotifiedOnce, PublishFailed, uowVars
<1>7. OnlyStraysAreParked'
  BY <1>1, TriedStopsShort DEF OnlyStraysAreParked, PublishFailed, Rows
<1> QED
  BY <1>3, <1>4, <1>5, <1>6, <1>7

(* The rows of a batch are published and notified for the first time.      *)
LEMMA MarkInv ==
  ASSUME OutboxInv, NEW r \in Relays, Mark(r)
  PROVE  OutboxInv'
<1> USE DEF OutboxInv
<1>1. /\ Good(r) \subseteq Events /\ Good(r) \subseteq batch[r]
      /\ Good(r) \cap published = {} /\ Good(r) \subseteq facts
  BY DEF Good, Locked, EventsAreFacts
<1>2. \A e \in Rows : attempts[e] \in Nat /\ notices[e] \in Nat
  BY DEF TypeOK
<1>3. attempts' \in [Rows -> Nat] /\ notices' \in [Rows -> Nat]
  BY <1>2, OutboxAssumption DEF Mark, Parked
<1>4. TypeOK' /\ IsFiniteSet(asked')
  BY <1>1, <1>3 DEF TypeOK, Mark, Release, uowVars
<1>5. Noted'
  BY DEF Noted, Mark, uowVars
<1>6. Locked'
  BY <1>1 DEF Locked, TypeOK, Mark, Release
<1>7. EventsAreFacts'
  BY <1>1 DEF EventsAreFacts, Mark, uowVars
<1>8. NotifiedOnce'
  BY <1>1, <1>2 DEF NotifiedOnce, Mark
<1>9. OnlyStraysAreParked'
  BY OutboxAssumption DEF OnlyStraysAreParked, Mark, Bad, Rows
<1> QED
  BY <1>4, <1>5, <1>6, <1>7, <1>8, <1>9

(* A relay that dies leaves its rows to the next one.                      *)
LEMMA RelayDiesInv ==
  ASSUME OutboxInv, NEW r \in Relays, RelayDies(r)
  PROVE  OutboxInv'
<1> USE DEF OutboxInv
<1>1. TypeOK' /\ IsFiniteSet(asked')
  BY DEF TypeOK, RelayDies, Release, uowVars
<1>2. Noted'
  BY DEF Noted, RelayDies, uowVars
<1>3. Locked'
  BY ReleaseLocked DEF RelayDies
<1>4. EventsAreFacts' /\ NotifiedOnce' /\ OnlyStraysAreParked'
  BY DEF EventsAreFacts, NotifiedOnce, OnlyStraysAreParked, RelayDies, uowVars
<1> QED
  BY <1>1, <1>2, <1>3, <1>4

(* The stream to the surface touches no table; nor does a step of nothing. *)
LEMMA StreamInv ==
  ASSUME OutboxInv, StreamLost \/ StreamReopened \/ UNCHANGED vars
  PROVE  OutboxInv'
<1> USE DEF OutboxInv
<1>1. UNCHANGED <<uowVars, outbox, at, relayVars, heard>> /\ up' \in BOOLEAN
  BY DEF StreamLost, StreamReopened, TypeOK, vars, uowVars, relayVars
<1>2. TypeOK' /\ IsFiniteSet(asked')
  BY <1>1 DEF TypeOK, uowVars, relayVars
<1>3. Noted' /\ Locked'
  BY <1>1 DEF Noted, Locked, uowVars, relayVars
<1>4. EventsAreFacts' /\ NotifiedOnce' /\ OnlyStraysAreParked'
  BY <1>1 DEF EventsAreFacts, NotifiedOnce, OnlyStraysAreParked, uowVars,
              relayVars
<1> QED
  BY <1>2, <1>3, <1>4

-----------------------------------------------------------------------------
(* Every step of every request, relay and stream keeps the invariant.      *)
LEMMA OutboxNextInv == OutboxInv /\ [Next]_vars => OutboxInv'
<1> SUFFICES ASSUME OutboxInv, [Next]_vars PROVE OutboxInv'
  OBVIOUS
<1>1. CASE \E h \in Requests : Unit(h)
  BY <1>1, ApplyInv, UnitCommitInv, RollbackInv DEF Unit
<1>2. CASE \E e \in Strays : Stray(e)
  BY <1>2, StrayInv
<1>3. CASE \E r \in Relays : Relay(r)
  BY <1>3, ClaimInv, PublishInv, PublishFailedInv, MarkInv, RelayDiesInv
  DEF Relay
<1>4. CASE StreamLost \/ StreamReopened \/ UNCHANGED vars
  BY <1>4, StreamInv
<1> QED
  BY <1>1, <1>2, <1>3, <1>4 DEF Next

(* The inductive invariant holds in every behaviour.                       *)
THEOREM OutboxInvariance == Spec => []OutboxInv
BY OutboxInitInv, OutboxNextInv, PTL DEF Spec

(* Every variable keeps its shape, and only rows with a topic of the       *)
(* catalogue are ever published or heard.                                  *)
THEOREM TypeCorrect == Spec => []TypeOK
<1>1. OutboxInv => TypeOK
  BY DEF OutboxInv
<1> QED
  BY <1>1, OutboxInvariance, PTL

(* Committed rows, audit entries and events are the same set, whatever     *)
(* rows were refused, units rolled back or relays lost.                    *)
THEOREM EventsAreTheFacts == Spec => []EventsAreFacts
<1>1. OutboxInv => EventsAreFacts
  BY DEF OutboxInv
<1> QED
  BY <1>1, OutboxInvariance, PTL

(* No row is notified twice or notified without being marked, by any       *)
(* number of relays that may die at any point.                             *)
THEOREM OneNoticePerRow == Spec => []NotifiedOnce
<1>1. OutboxInv => NotifiedOnce
  BY DEF OutboxInv
<1> QED
  BY <1>1, OutboxInvariance, PTL

(* However long the transport is down, no event reaches the parking mark.  *)
THEOREM OutagesParkNothing == Spec => []OnlyStraysAreParked
<1>1. OutboxInv => OnlyStraysAreParked
  BY DEF OutboxInv
<1> QED
  BY <1>1, OutboxInvariance, PTL

-----------------------------------------------------------------------------
(***************************************************************************)
(* SlaCascade. A row a sweep has read is the row that is there when it     *)
(* commits: no other sweep has it (OneReader), and neither an assignment   *)
(* nor an opening writes it meanwhile (ReadStands).                        *)
(***************************************************************************)

Stages == 0..3

TimerRow ==
  [open : BOOLEAN, due : Nat, satisfied : BOOLEAN, stage : Stages,
   breached : BOOLEAN]

Event == [before : Stages, after : Stages]

SlaTyped ==
  /\ tick \in Nat /\ timer \in [Timers -> TimerRow]
  /\ told \in [Timers -> Seq(Event)]
  /\ sweep \in [Cascades -> [now : Nat, read : [Timers -> TimerRow]]]

(* A row is held by one sweep.                                             *)
OneReader ==
  \A v, w \in Cascades, t \in Timers :
    sweep[v].read[t].open /\ sweep[w].read[t].open => v = w

(* What a sweep has read is still so, and was read no later than now.      *)
ReadStands ==
  \A w \in Cascades :
    /\ sweep[w].now <= tick
    /\ \A t \in Timers :
         sweep[w].read[t].open =>
           sweep[w].read[t] = timer[t] /\ ~timer[t].satisfied

(* A timer that is not open has not been raised.                           *)
FreshIsLow == \A t \in Timers : ~timer[t].open => timer[t].stage = 0

SlaInv == SlaTyped /\ OneReader /\ ReadStands /\ FreshIsLow
          /\ EscalationsChain /\ BreachIsDue

-----------------------------------------------------------------------------
(* StageAt counts the marks that have passed.                              *)
Past(row, t, now, share) ==
  10 * (now - (row.due - Window[t])) >= share * Window[t]

(* The stage is at least one, two or three as its mark is past.            *)
LEMMA StageCounts ==
  ASSUME NEW t \in Timers, NEW row \in TimerRow, NEW now \in Nat
  PROVE  /\ StageAt(row, t, now) \in Stages
         /\ StageAt(row, t, now) >= 1 <=> Past(row, t, now, 5)
         /\ StageAt(row, t, now) >= 2 <=> Past(row, t, now, 8)
         /\ StageAt(row, t, now) = 3 <=> Past(row, t, now, 10)
<1> DEFINE consumed(i) ==
             10 * (now - (row.due - Window[t])) >= Marks[i] * Window[t]
           reached == {i \in 1..3 : consumed(i)}
<1>1. StageAt(row, t, now) =
        IF reached = {} THEN 0
        ELSE CHOOSE i \in reached : \A k \in reached : k <= i
  BY DEF StageAt
<1>2. /\ consumed(1) <=> Past(row, t, now, 5)
      /\ consumed(2) <=> Past(row, t, now, 8)
      /\ consumed(3) <=> Past(row, t, now, 10)
  BY DEF Marks, Past
<1>3. /\ Past(row, t, now, 10) => Past(row, t, now, 8)
      /\ Past(row, t, now, 8) => Past(row, t, now, 5)
  BY SlaAssumption DEF Past, TimerRow
<1>4. /\ reached \subseteq 1..3
      /\ 1 \in reached <=> Past(row, t, now, 5)
      /\ 2 \in reached <=> Past(row, t, now, 8)
      /\ 3 \in reached <=> Past(row, t, now, 10)
  BY <1>2
<1> HIDE DEF reached
<1>5. CASE reached = {}
  BY <1>1, <1>4, <1>5 DEF Stages
<1>6. CASE reached # {}
  <2>1. \E i \in reached : \A k \in reached : k <= i
    <3>1. CASE 3 \in reached
      BY <1>4, <3>1
    <3>2. CASE 3 \notin reached /\ 2 \in reached
      BY <1>4, <3>2
    <3>3. CASE 3 \notin reached /\ 2 \notin reached
      <4>1. \A i \in reached : i = 1
        BY <1>4, <3>3
      <4> QED
        BY <1>6, <4>1
    <3> QED
      BY <3>1, <3>2, <3>3
  <2>2. PICK i \in reached : /\ \A k \in reached : k <= i
                             /\ StageAt(row, t, now) = i
    BY <1>1, <1>6, <2>1
  <2> QED
    BY <1>3, <1>4, <2>2 DEF Stages
<1> QED
  BY <1>5, <1>6

(* Time only raises it, and it depends on the due date alone.              *)
LEMMA StageRises ==
  ASSUME NEW t \in Timers, NEW row \in TimerRow, NEW same \in TimerRow,
         row.due = same.due, NEW now \in Nat, NEW later \in Nat, now <= later
  PROVE  StageAt(row, t, now) <= StageAt(same, t, later)
<1>1. \A share \in {5, 8, 10} :
        Past(row, t, now, share) => Past(same, t, later, share)
  BY SlaAssumption DEF Past, TimerRow
<1> QED
  BY <1>1, StageCounts DEF Stages

(* The last stage is the due date.                                         *)
LEMMA LastIsDue ==
  ASSUME NEW t \in Timers, NEW row \in TimerRow, NEW now \in Nat,
         StageAt(row, t, now) = 3
  PROVE  now >= row.due
BY StageCounts, SlaAssumption DEF Past, TimerRow

(* What is to be shown of a step for BreachIsDue.                          *)
LEMMA DueAfter ==
  BreachIsDue' <=>
    \A t \in Timers :
      /\ timer'[t].stage > 0 => timer'[t].stage <= StageAt(timer'[t], t, tick')
      /\ timer'[t].breached <=> timer'[t].stage = 3
      /\ timer'[t].breached => tick' >= timer'[t].due
BY DEF BreachIsDue, StageAt

(* A sweep that holds nothing has read nothing that could be otherwise.    *)
LEMMA ReadsAfter ==
  ASSUME SlaInv, tick' \in Nat, tick <= tick', NEW w \in Cascades,
         \A v \in Cascades \ {w} : sweep'[v] = sweep[v],
         \A v \in Cascades \ {w}, t \in Timers :
           sweep[v].read[t].open => timer'[t] = timer[t],
         sweep'[w].now \in Nat, sweep'[w].now <= tick',
         \A t \in Timers : sweep'[w].read[t].open =>
           sweep'[w].read[t] = timer'[t] /\ ~timer'[t].satisfied
  PROVE  ReadStands'
<1> SUFFICES ASSUME NEW v \in Cascades
             PROVE  /\ sweep'[v].now <= tick'
                    /\ \A t \in Timers :
                         sweep'[v].read[t].open =>
                           /\ sweep'[v].read[t] = timer'[t]
                           /\ ~timer'[t].satisfied
  BY DEF ReadStands
<1>1. CASE v = w
  BY <1>1
<1>2. CASE v # w
  <2>1. /\ sweep'[v] = sweep[v] /\ sweep[v].now <= tick
        /\ sweep[v].now \in Nat /\ tick \in Nat
    BY <1>2 DEF SlaInv, ReadStands, SlaTyped
  <2>2. sweep'[v].now <= tick'
    BY <2>1
  <2>3. ASSUME NEW t \in Timers, sweep'[v].read[t].open
        PROVE  /\ sweep'[v].read[t] = timer'[t] /\ ~timer'[t].satisfied
    BY <1>2, <2>1, <2>3 DEF SlaInv, ReadStands
  <2> QED
    BY <2>2, <2>3
<1> QED
  BY <1>1, <1>2

-----------------------------------------------------------------------------
(* No job is opened yet and no sweep runs.                                 *)
LEMMA SlaInitInv == SlaInit => SlaInv
<1> SUFFICES ASSUME SlaInit PROVE SlaInv
  OBVIOUS
<1>1. NoTimer \in TimerRow
  BY DEF NoTimer, TimerRow, Stages
<1>2. SlaTyped
  BY <1>1 DEF SlaInit, SlaTyped, Idle
<1>3. OneReader /\ ReadStands /\ FreshIsLow
  BY DEF SlaInit, OneReader, ReadStands, FreshIsLow, Idle, NoTimer
<1>4. EscalationsChain /\ BreachIsDue
  BY DEF SlaInit, EscalationsChain, BreachIsDue, NoTimer
<1> QED
  BY <1>2, <1>3, <1>4 DEF SlaInv

(* A timer is opened: nobody holds it, and its stages are ahead.           *)
LEMMA OpenInv ==
  ASSUME SlaInv, NEW t \in Timers, createJobTimer(t)
  PROVE  SlaInv'
<1>1. /\ tick' = tick /\ sweep' = sweep /\ told' = told /\ ~timer[t].open
      /\ timer' = [timer EXCEPT ![t].open = TRUE, ![t].due = deriveDueAt(t)]
  BY DEF createJobTimer
<1>2. timer' \in [Timers -> TimerRow]
  <2> DEFINE due == deriveDueAt(t)
             row == [timer[t] EXCEPT !.open = TRUE, !.due = due]
  <2>1. due \in Nat
    BY SlaAssumption DEF SlaInv, SlaTyped, deriveDueAt
  <2>2. timer \in [Timers -> TimerRow] /\ timer' = [timer EXCEPT ![t] = row]
    BY <1>1 DEF SlaInv, SlaTyped
  <2> HIDE DEF due
  <2>3. row \in TimerRow
    BY <2>1, <2>2 DEF TimerRow
  <2> QED
    BY <2>2, <2>3
<1>3. /\ timer'[t].open /\ timer'[t].stage = 0 /\ ~timer'[t].breached
      /\ timer[t].stage = 0
      /\ \A s \in Timers \ {t} : timer'[s] = timer[s]
  <2>1. /\ timer[t].stage = 0 /\ timer[t].breached = FALSE
        /\ timer \in [Timers -> TimerRow]
    BY <1>1 DEF SlaInv, SlaTyped, TimerRow, FreshIsLow, BreachIsDue
  <2> QED
    BY <1>1, <2>1 DEF TimerRow
<1>4. SlaTyped' /\ OneReader' /\ FreshIsLow'
  BY <1>1, <1>2, <1>3 DEF SlaInv, SlaTyped, OneReader, FreshIsLow
<1>5. ReadStands'
  <2> SUFFICES ASSUME NEW w \in Cascades
               PROVE  /\ sweep[w].now <= tick
                      /\ \A s \in Timers :
                           sweep[w].read[s].open =>
                             /\ sweep[w].read[s] = timer'[s]
                             /\ ~timer'[s].satisfied
    BY <1>1 DEF ReadStands
  <2>1. ~sweep[w].read[t].open
    BY <1>1 DEF SlaInv, ReadStands
  <2> QED
    BY <1>3, <2>1 DEF SlaInv, ReadStands
<1>6. EscalationsChain'
  BY <1>1, <1>3 DEF SlaInv, EscalationsChain
<1>7. BreachIsDue'
  <2> SUFFICES ASSUME NEW s \in Timers
               PROVE  /\ timer'[s].stage > 0
                           => timer'[s].stage <= StageAt(timer'[s], s, tick)
                      /\ timer'[s].breached <=> timer'[s].stage = 3
                      /\ timer'[s].breached => tick >= timer'[s].due
    BY <1>1, DueAfter
  <2>1. CASE s = t
    BY <1>3, <2>1
  <2>2. CASE s # t
    BY <1>3, <2>2 DEF SlaInv, BreachIsDue
  <2> QED
    BY <2>1, <2>2
<1> QED
  BY <1>4, <1>5, <1>6, <1>7 DEF SlaInv

(* A timer is answered: nobody holds it.                                   *)
LEMMA AnswerInv ==
  ASSUME SlaInv, NEW t \in Timers, assignAnswers(t)
  PROVE  SlaInv'
<1>1. /\ tick' = tick /\ sweep' = sweep /\ told' = told
      /\ timer' = [timer EXCEPT ![t].satisfied = TRUE]
      /\ \A w \in Cascades : ~sweep[w].read[t].open
  BY DEF assignAnswers, LockedBySweep
<1>2. timer' \in [Timers -> TimerRow]
  BY <1>1 DEF SlaInv, SlaTyped, TimerRow
<1>3. /\ \A s \in Timers : /\ timer'[s].open = timer[s].open
                           /\ timer'[s].due = timer[s].due
                           /\ timer'[s].stage = timer[s].stage
                           /\ timer'[s].breached = timer[s].breached
      /\ \A s \in Timers \ {t} : timer'[s] = timer[s]
  BY <1>1 DEF SlaInv, SlaTyped, TimerRow
<1>4. SlaTyped' /\ OneReader' /\ FreshIsLow'
  BY <1>1, <1>2, <1>3 DEF SlaInv, SlaTyped, OneReader, FreshIsLow
<1>5. ReadStands'
  BY <1>1, <1>3 DEF SlaInv, ReadStands
<1>6. EscalationsChain'
  BY <1>1, <1>3 DEF SlaInv, EscalationsChain
<1>7. BreachIsDue'
  BY <1>1, <1>3 DEF SlaInv, BreachIsDue, StageAt
<1> QED
  BY <1>4, <1>5, <1>6, <1>7 DEF SlaInv

(* Time passes.                                                            *)
LEMMA PassesInv ==
  ASSUME SlaInv, Passes
  PROVE  SlaInv'
<1>1. /\ tick' = tick + 1 /\ tick \in Nat /\ tick <= tick'
      /\ tick' \in Nat /\ timer' = timer /\ sweep' = sweep /\ told' = told
  BY DEF Passes, SlaInv, SlaTyped
<1>2. SlaTyped' /\ OneReader' /\ FreshIsLow' /\ EscalationsChain'
  BY <1>1 DEF SlaInv, SlaTyped, OneReader, FreshIsLow, EscalationsChain
<1>3. ReadStands'
  BY <1>1 DEF SlaInv, ReadStands, SlaTyped
<1>4. BreachIsDue'
  <2> SUFFICES ASSUME NEW t \in Timers
               PROVE  /\ timer[t].stage > 0
                           => timer[t].stage <= StageAt(timer[t], t, tick')
                      /\ timer[t].breached => tick' >= timer[t].due
    BY <1>1 DEF SlaInv, BreachIsDue, StageAt
  <2>1. timer[t] \in TimerRow /\ timer[t].stage \in Stages /\ timer[t].due \in Nat
    BY DEF SlaInv, SlaTyped, TimerRow
  <2>2. /\ StageAt(timer[t], t, tick) <= StageAt(timer[t], t, tick')
        /\ StageAt(timer[t], t, tick) \in Stages
        /\ StageAt(timer[t], t, tick') \in Stages
    BY <1>1, <2>1, StageRises, StageCounts
  <2>3. /\ timer[t].stage > 0 => timer[t].stage <= StageAt(timer[t], t, tick)
        /\ timer[t].breached => tick >= timer[t].due
    BY DEF SlaInv, BreachIsDue
  <2> QED
    BY <1>1, <2>1, <2>2, <2>3 DEF Stages
<1> QED
  BY <1>2, <1>3, <1>4 DEF SlaInv

-----------------------------------------------------------------------------
(* The cascade's own steps.                                                *)

(* A sweep takes rows nobody holds, as they are, unanswered.               *)
LEMMA SlaSelectInv ==
  ASSUME SlaInv, NEW w \in Cascades, sweepSelect(w)
  PROVE  SlaInv'
<1>1. PICK b \in SUBSET Selectable :
        sweep' = [sweep EXCEPT ![w] =
          [now |-> tick,
           read |-> [t \in Timers |-> IF t \in b THEN timer[t] ELSE NoTimer]]]
  BY DEF sweepSelect, Batches
<1>2. tick' = tick /\ timer' = timer /\ told' = told
  BY DEF sweepSelect
<1> DEFINE read == [t \in Timers |-> IF t \in b THEN timer[t] ELSE NoTimer]
<1>3. /\ read \in [Timers -> TimerRow]
      /\ \A t \in Timers : read[t].open =>
           /\ read[t] = timer[t] /\ ~timer[t].satisfied
           /\ \A v \in Cascades : ~sweep[v].read[t].open
  BY DEF NoTimer, Selectable, LockedBySweep, SlaInv, SlaTyped, TimerRow, Stages
<1>4. sweep' = [sweep EXCEPT ![w] = [now |-> tick, read |-> read]]
  BY <1>1
<1> HIDE DEF read
<1>5. /\ sweep' \in [Cascades -> [now : Nat, read : [Timers -> TimerRow]]]
      /\ sweep'[w] = [now |-> tick, read |-> read]
      /\ \A v \in Cascades \ {w} : sweep'[v] = sweep[v]
  BY <1>3, <1>4 DEF SlaInv, SlaTyped
<1>6. SlaTyped' /\ FreshIsLow' /\ EscalationsChain'
  BY <1>2, <1>5 DEF SlaInv, SlaTyped, FreshIsLow, EscalationsChain
<1>9. BreachIsDue'
  BY <1>2, DueAfter DEF SlaInv, BreachIsDue
<1>7. OneReader'
  BY <1>3, <1>5 DEF SlaInv, OneReader
<1>8. ReadStands'
  <2>1. tick \in Nat /\ tick' = tick /\ tick <= tick'
    BY <1>2 DEF SlaInv, SlaTyped
  <2>2. \A v \in Cascades \ {w}, t \in Timers :
          sweep[v].read[t].open => timer'[t] = timer[t]
    BY <1>2
  <2>3. /\ sweep'[w].now \in Nat /\ sweep'[w].now <= tick'
        /\ \A t \in Timers : sweep'[w].read[t].open =>
             sweep'[w].read[t] = timer'[t] /\ ~timer'[t].satisfied
    BY <1>2, <1>3, <1>5, <2>1
  <2> QED
    BY <1>5, <2>1, <2>2, <2>3, ReadsAfter
<1> QED
  BY <1>6, <1>7, <1>8, <1>9 DEF SlaInv

(* A sweep that is over holds nothing.                                     *)
LEMMA Released ==
  ASSUME SlaInv, NEW w \in Cascades, sweep' = [sweep EXCEPT ![w] = Idle]
  PROVE  /\ sweep' \in [Cascades -> [now : Nat, read : [Timers -> TimerRow]]]
         /\ sweep'[w].now = 0 /\ \A t \in Timers : ~sweep'[w].read[t].open
         /\ \A v \in Cascades \ {w} : sweep'[v] = sweep[v]
         /\ OneReader'
<1>1. NoTimer \in TimerRow /\ ~NoTimer.open
  BY DEF NoTimer, TimerRow, Stages
<1>2. /\ Idle \in [now : Nat, read : [Timers -> TimerRow]] /\ Idle.now = 0
      /\ \A t \in Timers : ~Idle.read[t].open
  BY <1>1 DEF Idle
<1>3. /\ sweep' \in [Cascades -> [now : Nat, read : [Timers -> TimerRow]]]
      /\ sweep'[w] = Idle /\ \A v \in Cascades \ {w} : sweep'[v] = sweep[v]
  BY <1>2 DEF SlaInv, SlaTyped
<1> QED
  BY <1>2, <1>3 DEF SlaInv, OneReader

(* A sweep that fails gives its rows up and changes nothing.               *)
LEMMA SlaLostInv ==
  ASSUME SlaInv, NEW w \in Cascades, sweepLost(w)
  PROVE  SlaInv'
<1>1. /\ tick' = tick /\ timer' = timer /\ told' = told
      /\ sweep' = [sweep EXCEPT ![w] = Idle]
  BY DEF sweepLost
<1>2. /\ sweep' \in [Cascades -> [now : Nat, read : [Timers -> TimerRow]]]
      /\ sweep'[w].now = 0 /\ \A t \in Timers : ~sweep'[w].read[t].open
      /\ \A v \in Cascades \ {w} : sweep'[v] = sweep[v]
      /\ OneReader'
  BY <1>1, Released
<1>3. SlaTyped' /\ FreshIsLow' /\ EscalationsChain'
  BY <1>1, <1>2 DEF SlaInv, SlaTyped, FreshIsLow, EscalationsChain
<1>4. BreachIsDue'
  BY <1>1, DueAfter DEF SlaInv, BreachIsDue
<1>5. tick \in Nat
  BY DEF SlaInv, SlaTyped
<1>6. ReadStands'
  BY <1>1, <1>2, <1>5, ReadsAfter
<1> QED
  BY <1>2, <1>3, <1>4, <1>6 DEF SlaInv

(* What a commit does to one timer.                                        *)
LEMMA CommitOne ==
  ASSUME SlaInv, NEW w \in Cascades, sweepCommit(w), NEW t \in Timers
  PROVE  \/ /\ ~sweep[w].read[t].open \/ ~Raises(w, t)
            /\ timer'[t] = timer[t] /\ told'[t] = told[t]
         \/ \E n \in Stages :
              /\ sweep[w].read[t].open /\ timer[t].open
              /\ ~timer[t].satisfied
              /\ n > timer[t].stage /\ n <= StageAt(timer[t], t, tick)
              /\ timer'[t] = [timer[t] EXCEPT !.stage = n,
                                 !.breached = n = 3 \/ timer[t].breached]
              /\ told'[t] = Append(told[t],
                              [before |-> timer[t].stage, after |-> n])
<1> DEFINE n == NewStage(w, t)
<1>1. CASE ~Raises(w, t)
  BY <1>1 DEF sweepCommit
<1>2. CASE Raises(w, t)
  <2>1. /\ sweep[w].read[t].open /\ n > sweep[w].read[t].stage
        /\ sweep[w].read[t] = timer[t] /\ ~timer[t].satisfied
        /\ sweep[w].now <= tick
    BY <1>2 DEF Raises, SlaInv, ReadStands
  <2>2. timer[t] \in TimerRow /\ tick \in Nat /\ sweep[w].now \in Nat
    BY DEF SlaInv, SlaTyped
  <2>3. n = StageAt(timer[t], t, sweep[w].now)
    BY <2>1 DEF NewStage
  <2>4. n \in Stages /\ n <= StageAt(timer[t], t, tick)
    BY <2>1, <2>2, <2>3, StageCounts, StageRises
  <2>5. /\ timer'[t] = [timer[t] EXCEPT !.stage = n,
                           !.breached = n = 3 \/ timer[t].breached]
        /\ told'[t] = Append(told[t],
                        [before |-> timer[t].stage, after |-> n])
    BY <1>2, <2>1 DEF sweepCommit
  <2> HIDE DEF n
  <2> QED
    BY <2>1, <2>4, <2>5
<1> QED
  BY <1>1, <1>2

(* What one raise does to what is said of the timer.                       *)
LEMMA RaiseOne ==
  ASSUME SlaInv, NEW t \in Timers, NEW n \in Stages, n > timer[t].stage,
         n <= StageAt(timer[t], t, tick), timer[t].open,
         timer'[t] = [timer[t] EXCEPT !.stage = n,
                        !.breached = n = 3 \/ timer[t].breached],
         told'[t] = Append(told[t], [before |-> timer[t].stage, after |-> n])
  PROVE  /\ timer'[t] \in TimerRow /\ told'[t] \in Seq(Event)
         /\ timer'[t].open /\ timer'[t].stage = n
         /\ timer'[t].due = timer[t].due
         /\ timer'[t].breached <=> n = 3
         /\ n = 3 => tick >= timer[t].due
         /\ n <= StageAt(timer'[t], t, tick)
<1>1. /\ timer[t] \in TimerRow /\ tick \in Nat /\ told[t] \in Seq(Event)
      /\ timer[t].stage \in Stages
  BY DEF SlaInv, SlaTyped, TimerRow
<1>2. timer[t].breached => timer[t].stage = 3
  BY DEF SlaInv, BreachIsDue
<1>3. ~timer[t].breached
  BY <1>1, <1>2 DEF Stages
<1>4. /\ timer'[t] \in TimerRow /\ timer'[t].open /\ timer'[t].stage = n
      /\ timer'[t].due = timer[t].due
      /\ timer'[t].breached <=> n = 3
  BY <1>1, <1>3 DEF TimerRow
<1>5. told'[t] \in Seq(Event)
  BY <1>1 DEF Event
<1>6. StageAt(timer[t], t, tick) \in Stages
  BY <1>1, StageCounts
<1>7. n = 3 => tick >= timer[t].due
  BY <1>1, <1>6, LastIsDue DEF Stages
<1>8. n <= StageAt(timer'[t], t, tick)
  <2>1. StageAt(timer[t], t, tick) <= StageAt(timer'[t], t, tick)
    <3>1. tick <= tick
      BY <1>1
    <3> QED
      BY <1>1, <1>4, <3>1, StageRises
  <2>2. StageAt(timer'[t], t, tick) \in Stages
    BY <1>1, <1>4, StageCounts
  <2> QED
    BY <1>6, <2>1, <2>2 DEF Stages
<1> QED
  BY <1>4, <1>5, <1>7, <1>8

(* A chain is carried on by an event that starts where it ends.            *)
LEMMA ChainGrows ==
  ASSUME NEW e \in Seq(Event), NEW before \in Stages, NEW after \in Stages,
         before < after,
         \A i \in 1..Len(e) : /\ e[i].before < e[i].after
                              /\ e[i].before = IF i = 1 THEN 0
                                               ELSE e[i - 1].after,
         before = IF Len(e) = 0 THEN 0 ELSE e[Len(e)].after,
         NEW f, f = Append(e, [before |-> before, after |-> after])
  PROVE  /\ \A i \in 1..Len(f) : /\ f[i].before < f[i].after
                                 /\ f[i].before = IF i = 1 THEN 0
                                                  ELSE f[i - 1].after
         /\ after = IF Len(f) = 0 THEN 0 ELSE f[Len(f)].after
<1>1. /\ Len(f) = Len(e) + 1 /\ Len(e) \in Nat
      /\ \A i \in 1..Len(e) : f[i] = e[i]
      /\ f[Len(e) + 1] = [before |-> before, after |-> after]
  BY DEF Event
<1>2. ASSUME NEW i \in 1..Len(f)
      PROVE  /\ f[i].before < f[i].after
             /\ f[i].before = IF i = 1 THEN 0 ELSE f[i - 1].after
  <2>1. CASE i = Len(e) + 1
    <3>1. Len(e) # 0 => f[Len(e)] = e[Len(e)]
      BY <1>1
    <3> QED
      BY <1>1, <2>1, <3>1
  <2>2. CASE i # Len(e) + 1
    <3>1. i \in 1..Len(e) /\ (i # 1 => i - 1 \in 1..Len(e))
      BY <1>1, <2>2
    <3> QED
      BY <1>1, <3>1
  <2> QED
    BY <2>1, <2>2
<1> QED
  BY <1>1, <1>2

(* A sweep raises the rows it has read, and no others.                     *)
LEMMA SlaCommitInv ==
  ASSUME SlaInv, NEW w \in Cascades, sweepCommit(w)
  PROVE  SlaInv'
<1>1. /\ tick' = tick /\ sweep' = [sweep EXCEPT ![w] = Idle]
      /\ DOMAIN timer' = Timers /\ DOMAIN told' = Timers
      /\ timer' = [t \in Timers |-> timer'[t]]
      /\ told' = [t \in Timers |-> told'[t]]
  BY DEF sweepCommit
<1>2. ASSUME NEW t \in Timers
      PROVE  /\ timer'[t] \in TimerRow /\ told'[t] \in Seq(Event)
             /\ ~timer'[t].open => timer'[t].stage = 0
             /\ timer'[t].stage > 0
                  => timer'[t].stage <= StageAt(timer'[t], t, tick)
             /\ timer'[t].breached <=> timer'[t].stage = 3
             /\ timer'[t].breached => tick >= timer'[t].due
  <2>1. CASE timer'[t] = timer[t] /\ told'[t] = told[t]
    BY <2>1 DEF SlaInv, SlaTyped, FreshIsLow, BreachIsDue
  <2>2. CASE timer'[t] # timer[t] \/ told'[t] # told[t]
    <3>1. PICK n \in Stages :
            /\ timer[t].open
            /\ n > timer[t].stage /\ n <= StageAt(timer[t], t, tick)
            /\ timer'[t] = [timer[t] EXCEPT !.stage = n,
                               !.breached = n = 3 \/ timer[t].breached]
            /\ told'[t] = Append(told[t],
                            [before |-> timer[t].stage, after |-> n])
      BY <2>2, CommitOne
    <3>2. /\ timer'[t] \in TimerRow /\ told'[t] \in Seq(Event)
          /\ timer'[t].open /\ timer'[t].stage = n
          /\ timer'[t].due = timer[t].due
          /\ timer'[t].breached <=> n = 3
          /\ n = 3 => tick >= timer[t].due
          /\ n <= StageAt(timer'[t], t, tick)
      BY <3>1, RaiseOne
    <3> QED
      BY <3>2
  <2> QED
    BY <2>1, <2>2
<1>3. SlaTyped'
  BY <1>1, <1>2, Released DEF SlaInv, SlaTyped
<1>4. FreshIsLow' /\ BreachIsDue'
  BY <1>1, <1>2, DueAfter DEF FreshIsLow
<1>5. EscalationsChain'
  <2> SUFFICES ASSUME NEW t \in Timers
               PROVE  /\ \A i \in 1..Len(told'[t]) :
                           /\ told'[t][i].before < told'[t][i].after
                           /\ told'[t][i].before =
                                IF i = 1 THEN 0 ELSE told'[t][i - 1].after
                      /\ timer'[t].stage = IF Len(told'[t]) = 0 THEN 0
                                           ELSE told'[t][Len(told'[t])].after
    BY DEF EscalationsChain
  <2>1. /\ told[t] \in Seq(Event) /\ timer[t].stage \in Stages
        /\ \A i \in 1..Len(told[t]) :
             /\ told[t][i].before < told[t][i].after
             /\ told[t][i].before = IF i = 1 THEN 0 ELSE told[t][i - 1].after
        /\ timer[t].stage = IF Len(told[t]) = 0 THEN 0
                            ELSE told[t][Len(told[t])].after
    BY DEF SlaInv, SlaTyped, TimerRow, EscalationsChain
  <2>2. CASE timer'[t] = timer[t] /\ told'[t] = told[t]
    BY <2>1, <2>2
  <2>3. ASSUME NEW n \in Stages, n > timer[t].stage,
               timer'[t].stage = n,
               told'[t] = Append(told[t],
                                 [before |-> timer[t].stage, after |-> n])
        PROVE  /\ \A i \in 1..Len(told'[t]) :
                    /\ told'[t][i].before < told'[t][i].after
                    /\ told'[t][i].before =
                         IF i = 1 THEN 0 ELSE told'[t][i - 1].after
               /\ timer'[t].stage = IF Len(told'[t]) = 0 THEN 0
                                    ELSE told'[t][Len(told'[t])].after
    <3>1. timer[t].stage < n
      BY <2>1, <2>3 DEF Stages
    <3> QED
      BY <2>1, <2>3, <3>1, ChainGrows
  <2>4. CASE timer'[t] # timer[t] \/ told'[t] # told[t]
    <3>1. PICK n \in Stages :
            /\ n > timer[t].stage
            /\ timer'[t] = [timer[t] EXCEPT !.stage = n,
                               !.breached = n = 3 \/ timer[t].breached]
            /\ told'[t] = Append(told[t],
                            [before |-> timer[t].stage, after |-> n])
      BY <2>4, CommitOne
    <3>2. timer'[t].stage = n
      BY <3>1 DEF SlaInv, SlaTyped, TimerRow
    <3> QED
      BY <2>3, <3>1, <3>2
  <2> QED
    BY <2>2, <2>4
<1>6. ReadStands'
  <2>1. ASSUME NEW v \in Cascades \ {w}, NEW t \in Timers,
               sweep[v].read[t].open
        PROVE  timer'[t] = timer[t]
    BY <2>1, CommitOne DEF SlaInv, OneReader
  <2>2. tick \in Nat
    BY DEF SlaInv, SlaTyped
  <2>3. /\ sweep'[w].now = 0 /\ \A t \in Timers : ~sweep'[w].read[t].open
        /\ \A v \in Cascades \ {w} : sweep'[v] = sweep[v]
    BY <1>1, Released
  <2> QED
    BY <1>1, <2>1, <2>2, <2>3, ReadsAfter
<1> QED
  BY <1>1, <1>3, <1>4, <1>5, <1>6, Released DEF SlaInv

-----------------------------------------------------------------------------
(* Every step keeps the invariant.                                         *)
LEMMA SlaNextInv == SlaInv /\ [SlaNext]_slaVars => SlaInv'
<1> SUFFICES ASSUME SlaInv, [SlaNext]_slaVars PROVE SlaInv'
  OBVIOUS
<1>1. CASE (\E t \in Timers : jobMoves(t)) \/ UNCHANGED slaVars
  <2>1. tick' = tick /\ timer' = timer /\ sweep' = sweep /\ told' = told
    BY <1>1 DEF jobMoves, slaVars
  <2>2. BreachIsDue'
    BY <2>1, DueAfter DEF SlaInv, BreachIsDue
  <2> QED
    BY <2>1, <2>2 DEF SlaInv, SlaTyped, OneReader, ReadStands, FreshIsLow,
                      EscalationsChain
<1> QED
  BY <1>1, OpenInv, AnswerInv, PassesInv, SlaSelectInv, SlaCommitInv, SlaLostInv
     DEF SlaNext

(* So it holds always.                                                     *)
LEMMA SlaInvariance == SlaSpec => []SlaInv
BY SlaInitInv, SlaNextInv, PTL DEF SlaSpec

(* Whatever the workers overlap, a timer's stages are told one after the   *)
(* other, each once.                                                       *)
THEOREM StagesAreToldOnce == SlaSpec => []EscalationsChain
<1>1. SlaInv => EscalationsChain
  BY DEF SlaInv
<1> QED
  BY <1>1, SlaInvariance, PTL

(* No stage is told early, and only what is late is breached.              *)
THEOREM NothingIsEarly == SlaSpec => []BreachIsDue
<1>1. SlaInv => BreachIsDue
  BY DEF SlaInv
<1> QED
  BY <1>1, SlaInvariance, PTL

(* A timer that is answered while a sweep runs is not told of.             *)
THEOREM AnsweredIsLeftAlone == SlaSpec => AnsweredIsNotPaged
<1>1. SlaInv /\ [SlaNext]_slaVars =>
        [\A t \in Timers : told'[t] # told[t] => ~timer[t].satisfied]_slaVars
  <2> SUFFICES ASSUME SlaInv, [SlaNext]_slaVars, NEW t \in Timers,
                      told'[t] # told[t]
               PROVE  ~timer[t].satisfied
    OBVIOUS
  <2>1. \E w \in Cascades : sweepCommit(w)
    BY DEF SlaNext, slaVars, createJobTimer, assignAnswers, jobMoves, Passes,
           sweepSelect, sweepLost
  <2> QED
    BY <2>1, CommitOne
<1> QED
  BY <1>1, SlaInvariance, PTL DEF SlaSpec, AnsweredIsNotPaged

-----------------------------------------------------------------------------
(***************************************************************************)
(* QuoteSweep. A report that one sweep has locked is skipped by the        *)
(* others, so it is without a job until that sweep ends.                   *)
(***************************************************************************)

QuoteTyped ==
  /\ opened \in [1..Reports -> Nat]
  /\ taken \in [Openers -> SUBSET (1..Reports)]
  /\ created \in Nat /\ created <= Reports

(* A report is taken by one worker, and has no job while it is.            *)
TakenApart ==
  \A v, w \in Openers : v # w => taken[v] \cap taken[w] = {}

TakenIsUnopened == \A w \in Openers : taken[w] \cap quoteJob = {}

QuoteInv == QuoteTyped /\ TakenApart /\ TakenIsUnopened /\ OneQuoteJob

(* Nobody has asked.                                                       *)
LEMMA QuoteInitInv == QuoteInit => QuoteInv
BY QuoteAssumption DEF QuoteInit, QuoteInv, QuoteTyped, TakenApart, TakenIsUnopened,
   OneQuoteJob

(* A sweep takes rows that no other has, and that have no job.             *)
LEMMA QuoteSelectInv ==
  ASSUME QuoteInv, NEW w \in Openers, quoteSelect(w)
  PROVE  QuoteInv'
<1>1. PICK b \in SUBSET Askers : taken' = [taken EXCEPT ![w] = b]
  BY DEF quoteSelect
<1>2. b \subseteq 1..Reports /\ b \cap quoteJob = {}
      /\ \A v \in Openers : b \cap taken[v] = {}
  <2>1. Askers \subseteq 1..Reports
    BY QuoteAssumption DEF Askers, QuoteInv, QuoteTyped
  <2>2. Askers \cap quoteJob = {}
    BY DEF Askers
  <2>3. \A v \in Openers : Askers \cap taken[v] = {}
    BY DEF Askers
  <2> QED
    BY <2>1, <2>2, <2>3
<1>3. UNCHANGED <<created, opened, quoteJob, quoteErr>>
  BY DEF quoteSelect
<1>4. QuoteTyped'
  BY <1>1, <1>2, <1>3 DEF QuoteInv, QuoteTyped
<1>5. TakenApart' /\ TakenIsUnopened'
  BY <1>1, <1>2, <1>3 DEF QuoteInv, QuoteTyped, TakenApart, TakenIsUnopened
<1> QED
  BY <1>3, <1>4, <1>5 DEF QuoteInv, OneQuoteJob

(* The jobs a sweep opens are the first of reports only it holds.          *)
LEMMA QuoteCommitInv ==
  ASSUME QuoteInv, NEW w \in Openers, quoteCommit(w)
  PROVE  QuoteInv'
<1>1. PICK failed \in SUBSET (taken[w] \ termless) :
        LET refused == (taken[w] \cap termless) \cup failed
            done == taken[w] \ refused IN
        /\ opened' = [r \in 1..Reports |->
                        IF r \in done THEN opened[r] + 1 ELSE opened[r]]
        /\ quoteJob' = quoteJob \cup done
        /\ quoteErr' = (quoteErr \ done) \cup refused
  BY DEF quoteCommit
<1> DEFINE refused == (taken[w] \cap termless) \cup failed
           done == taken[w] \ refused
<1>2. /\ done \subseteq taken[w] /\ refused \subseteq taken[w]
      /\ done \cap refused = {}
  OBVIOUS
<1>3. /\ opened' = [r \in 1..Reports |->
                      IF r \in done THEN opened[r] + 1 ELSE opened[r]]
      /\ quoteJob' = quoteJob \cup done
      /\ quoteErr' = (quoteErr \ done) \cup refused
  BY <1>1
<1> HIDE DEF done, refused
<1>4. taken' = [taken EXCEPT ![w] = {}] /\ created' = created
  BY DEF quoteCommit
<1>5. QuoteTyped'
  BY <1>3, <1>4 DEF QuoteInv, QuoteTyped
<1>6. TakenApart' /\ TakenIsUnopened'
  BY <1>2, <1>3, <1>4 DEF QuoteInv, QuoteTyped, TakenApart, TakenIsUnopened
<1>7. OneQuoteJob'
  BY <1>2, <1>3, <1>4 DEF QuoteInv, QuoteTyped, TakenIsUnopened, OneQuoteJob
<1> QED
  BY <1>5, <1>6, <1>7 DEF QuoteInv

(* So does every step of the reports and of the workers.                   *)
LEMMA QuoteNextInv == QuoteInv /\ [QuoteNext]_quoteVars => QuoteInv'
<1> SUFFICES ASSUME QuoteInv, [QuoteNext]_quoteVars PROVE QuoteInv'
  OBVIOUS
<1>1. CASE quoteAsked \/ (\E r \in 1..Reports : termAdded(r)) \/ UNCHANGED quoteVars
  BY <1>1, QuoteAssumption DEF quoteAsked, termAdded, quoteVars, QuoteInv, QuoteTyped, TakenApart,
     TakenIsUnopened, OneQuoteJob
<1>2. ASSUME NEW w \in Openers, quoteLost(w)
      PROVE  QuoteInv'
  BY <1>2 DEF quoteLost, QuoteInv, QuoteTyped, TakenApart, TakenIsUnopened,
     OneQuoteJob
<1> QED
  BY <1>1, <1>2, QuoteSelectInv, QuoteCommitInv DEF QuoteNext

(* However many workers sweep at once, and whichever sweeps are lost or    *)
(* refused in part, a report has at most one job and points to it.         *)
THEOREM OneJobPerReport == QuoteSpec => []OneQuoteJob
<1>1. QuoteInv => OneQuoteJob
  BY DEF QuoteInv
<1> QED
  BY <1>1, QuoteInitInv, QuoteNextInv, PTL DEF QuoteSpec

-----------------------------------------------------------------------------
(***************************************************************************)
(* ExpirySweep. Sweeps may disagree about the day; the advisory lock lets  *)
(* one of them at a time between what it has read as said and what it      *)
(* says.                                                                   *)
(***************************************************************************)

ExpTyped ==
  /\ DOMAIN look = Sweepers
  /\ warned \in [Papers -> [MarksOf -> Nat]]

(* The advisory lock: one sweep is between its read and its commit.        *)
OneLook ==
  \A v, w \in Sweepers : look[v].step = "read" /\ look[w].step = "read" => v = w

(* What a sweep is about to say has not been said.                         *)
SaysNews ==
  \A w \in Sweepers : look[w].step = "read" =>
    \A c \in Papers : \A m \in MarksOf :
      <<c, m>> \in look[w].says => warned[c][m] = 0

ExpInv == ExpTyped /\ OneLook /\ SaysNews /\ WarnedOncePerMark

(* Nothing has been said.                                                  *)
LEMMA ExpInitInv == ExpInit => ExpInv
BY DEF ExpInit, ExpInv, ExpTyped, OneLook, SaysNews, WarnedOncePerMark, NoLook

(* A sweep reads under the lock, and keeps what has not been said.         *)
LEMMA ExpReadInv ==
  ASSUME ExpInv, NEW w \in Sweepers, lookRead(w)
  PROVE  ExpInv'
<1> DEFINE says == {<<c, MarkAt(c, look[w].day)>> :
                      c \in {p \in Papers :
                               /\ DuePaper(p, look[w].day)
                               /\ Unsaid(p, MarkAt(p, look[w].day))}}
<1>1. look' = [look EXCEPT ![w].step = "read", ![w].says = says]
  BY DEF lookRead
<1>2. \A c, m : <<c, m>> \in says => warned[c][m] = 0
  BY DEF Unsaid
<1> HIDE DEF says
<1>3. warned' = warned /\ \A v \in Sweepers : look[v].step # "read"
  BY DEF lookRead, MayRead
<1>4. /\ \A v \in Sweepers : look'[v].step = "read" => v = w
      /\ look'[w].says = says
  BY <1>1, <1>3 DEF ExpInv, ExpTyped
<1> QED
  BY <1>1, <1>2, <1>3, <1>4
     DEF ExpInv, ExpTyped, OneLook, SaysNews, WarnedOncePerMark

(* The commit says it for the first time, and nobody else is to say it.    *)
LEMMA ExpSayInv ==
  ASSUME ExpInv, NEW w \in Sweepers, lookCommit(w)
  PROVE  ExpInv'
<1>1. /\ look[w].step = "read"
      /\ look' = [look EXCEPT ![w] = NoLook]
      /\ \A c \in Papers : \A m \in MarksOf :
           warned'[c][m] = IF <<c, m>> \in look[w].says
                           THEN warned[c][m] + 1 ELSE warned[c][m]
  BY DEF lookCommit
<1>2. ExpTyped'
  BY DEF lookCommit, ExpInv, ExpTyped
<1>3. \A v \in Sweepers : look'[v].step # "read"
  BY <1>1 DEF ExpInv, ExpTyped, OneLook, NoLook
<1>4. WarnedOncePerMark'
  <2>1. SUFFICES ASSUME NEW c \in Papers, NEW m \in MarksOf
                 PROVE  warned'[c][m] <= 1
    BY DEF WarnedOncePerMark
  <2>2. warned[c][m] \in Nat /\ warned[c][m] <= 1
    BY DEF ExpInv, ExpTyped, WarnedOncePerMark
  <2>3. <<c, m>> \in look[w].says => warned[c][m] = 0
    BY <1>1 DEF ExpInv, SaysNews
  <2>4. warned'[c][m] = IF <<c, m>> \in look[w].says
                        THEN warned[c][m] + 1 ELSE warned[c][m]
    BY <1>1
  <2> QED
    BY <2>2, <2>3, <2>4
<1> QED
  BY <1>2, <1>3, <1>4 DEF ExpInv, OneLook, SaysNews

(* So does every step of the gateway, the calendar and the workers.        *)
LEMMA ExpNextInv == ExpInv /\ [ExpNext]_expVars => ExpInv'
<1> SUFFICES ASSUME ExpInv, [ExpNext]_expVars PROVE ExpInv'
  OBVIOUS
<1>1. CASE UNCHANGED <<look, warned>>
  BY <1>1 DEF ExpInv, ExpTyped, OneLook, SaysNews, WarnedOncePerMark
<1>2. ASSUME NEW w \in Sweepers, lookStart(w) \/ lookLost(w)
      PROVE  ExpInv'
  <2>1. /\ DOMAIN look' = Sweepers /\ warned' = warned
        /\ look'[w].step # "read"
        /\ \A v \in Sweepers \ {w} : look'[v] = look[v]
    BY <1>2 DEF lookStart, lookLost, ExpInv, ExpTyped, NoLook
  <2> QED
    BY <2>1 DEF ExpInv, ExpTyped, OneLook, SaysNews, WarnedOncePerMark
<1> QED
  BY <1>1, <1>2, ExpReadInv, ExpSayInv
     DEF ExpNext, expVars, filePaper, verifyPaper, crewRetires, DayPasses

(* For any number of credentials, marks and workers, on whichever day each *)
(* worker believes it is, a mark is said once.                             *)
THEOREM EachMarkIsSaidOnce == ExpSpec => []WarnedOncePerMark
<1>1. ExpInv => WarnedOncePerMark
  BY DEF ExpInv
<1> QED
  BY <1>1, ExpInitInv, ExpNextInv, PTL DEF ExpSpec
=============================================================================
