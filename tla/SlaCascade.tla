----------------------------- MODULE SlaCascade -----------------------------
(***************************************************************************)
(* The response timer of a job and the worker's cascade over it.  Every    *)
(* minute a worker selects, oldest due date first and Limit rows at a      *)
(* time, the timers nobody has answered whose job still owes a response,   *)
(* locks them (FOR UPDATE OF t SKIP LOCKED), raises each to the highest    *)
(* stage whose share of the window has passed, and commits stage and event *)
(* together.  Meanwhile dispatch assigns jobs, which answers their timers, *)
(* and the office and the field move the jobs on.                          *)
(*                                                                         *)
(* Each timer stands for its job, too: a job has one timer.  Time is       *)
(* counted in ticks; the marks are tenths of the window.                   *)
(***************************************************************************)
EXTENDS JobLifecycle, Sequences, FiniteSets

CONSTANTS
  Timers,    \* the response timers, one for each job
  Window,    \* the ticks each timer's response term allows
  Cascades,  \* worker processes that run the cascade
  SlaLimit,  \* rows a sweep takes at a time
  MaxTick    \* bound: the last tick

ASSUME SlaAssumption ==
  /\ Window \in [Timers -> Nat \ {0}]
  /\ SlaLimit \in Nat \ {0} /\ MaxTick \in Nat

VARIABLES
  tick,      \* the time
  timer,     \* sla_timers: open, due, satisfied, stage, breached
  jobState,  \* jobs.state, of each timer's job
  sweep,     \* what each worker's transaction holds: now, and the rows as read
  told       \* sla.escalated and sla.breached, as committed: [before, after]

slaVars == <<tick, timer, jobState, sweep, told>>

NoTimer == [open |-> FALSE, due |-> 0, satisfied |-> FALSE, stage |-> 0,
            breached |-> FALSE]

(* No transaction: no row is read.                                         *)
Idle == [now |-> 0, read |-> [t \in Timers |-> NoTimer]]

SlaInit ==
  /\ tick = 0
  /\ timer = [t \in Timers |-> NoTimer]
  /\ jobState = [t \in Timers |-> "created"]
  /\ sweep = [w \in Cascades |-> Idle]
  /\ told = [t \in Timers |-> <<>>]

-----------------------------------------------------------------------------
(* The gateway's part.                                                     *)

(* The job and its timer are inserted in one transaction; the due date is  *)
(* the opening plus the window of the term that was resolved.              *)
deriveDueAt(t) == tick + Window[t]

createJobTimer(t) ==
  /\ ~timer[t].open
  /\ timer' = [timer EXCEPT ![t].open = TRUE, ![t].due = deriveDueAt(t)]
  /\ UNCHANGED <<tick, jobState, sweep, told>>

(* Mutant: the sweep reads its rows without locking them.                  *)
LockedBySweep_Never(t) == FALSE

LockedBySweep(t) == \E w \in Cascades : sweep[w].read[t].open

(* A crew is assigned: the job moves and its timer is answered.  The       *)
(* update waits for a sweep that holds the timer.                          *)
assignAnswers(t) ==
  /\ timer[t].open /\ jobState[t] \in DISPATCHABLE
  /\ ~LockedBySweep(t)
  /\ jobState' = [jobState EXCEPT ![t] = "assigned"]
  /\ timer' = [timer EXCEPT ![t].satisfied = TRUE]
  /\ UNCHANGED <<tick, sweep, told>>

(* Any other move of the job: the timer is neither read nor written.  Once *)
(* it is answered, the cascade no longer asks for the job's state, and the *)
(* moves after that are left out.                                          *)
jobMoves(t) ==
  /\ timer[t].open /\ ~timer[t].satisfied
  /\ \E to \in (JOB_TRANSITIONS[jobState[t]] \cup OfficeMoves(jobState[t]))
               \ {"assigned", "reassigned"} :
       jobState' = [jobState EXCEPT ![t] = to]
  /\ UNCHANGED <<tick, timer, sweep, told>>

Passes ==
  /\ tick < MaxTick
  /\ tick' = tick + 1
  /\ UNCHANGED <<timer, jobState, sweep, told>>

-----------------------------------------------------------------------------
(* The cascade.                                                            *)

SLA_NOT_OWED_STATES ==
  {"cancelled", "aborted", "quote_requested", "quote_submitted"}
    \cup WORK_DONE_STATES

Owed(t) == timer[t].open /\ jobState[t] \notin SLA_NOT_OWED_STATES

(* Mutant: the rows are read without FOR UPDATE SKIP LOCKED.               *)
Selectable_Unlocked ==
  {t \in Timers : Owed(t) /\ ~timer[t].satisfied /\ timer[t].stage < 3}

(* Mutant: a timer at stage two is taken to be finished with.              *)
Selectable_TwoIsLast ==
  {t \in Timers : /\ Owed(t) /\ ~timer[t].satisfied /\ timer[t].stage < 2
                  /\ ~LockedBySweep(t)}

Selectable ==
  {t \in Timers : /\ Owed(t) /\ ~timer[t].satisfied /\ timer[t].stage < 3
                  /\ ~LockedBySweep(t)}

(* ORDER BY due_at LIMIT 500.                                              *)
Batches(rows) ==
  {b \in SUBSET rows :
     /\ Cardinality(b) <= SlaLimit
     /\ Cardinality(b) < SlaLimit => b = rows
     /\ \A x \in b, y \in rows \ b : timer[x].due <= timer[y].due}

sweepSelect(w) ==
  /\ sweep[w] = Idle /\ Selectable # {}
  /\ \E b \in Batches(Selectable) :
       sweep' = [sweep EXCEPT ![w] =
         [now |-> tick,
          read |-> [t \in Timers |-> IF t \in b THEN timer[t] ELSE NoTimer]]]
  /\ UNCHANGED <<tick, timer, jobState, told>>

(* Half, four fifths and all of the window.                                *)
Marks == <<5, 8, 10>>

(* Mutant: the window is measured up to the opening, not from it.          *)
StageAt_Early(row, t, now) ==
  LET consumed(i) == 10 * now >= Marks[i] * Window[t]
      reached == {i \in 1..3 : consumed(i)} IN
  IF reached = {} THEN 0 ELSE CHOOSE i \in reached : \A k \in reached : k <= i

StageAt(row, t, now) ==
  LET consumed(i) ==
        10 * (now - (row.due - Window[t])) >= Marks[i] * Window[t]
      reached == {i \in 1..3 : consumed(i)} IN
  IF reached = {} THEN 0 ELSE CHOOSE i \in reached : \A k \in reached : k <= i

(* evaluateCascade: the stage to raise a row to, if it is above the row's. *)
NewStage(w, t) == StageAt(sweep[w].read[t], t, sweep[w].now)

Raises(w, t) == /\ sweep[w].read[t].open
                /\ NewStage(w, t) > sweep[w].read[t].stage

(* Every raised timer is updated and told of, and the transaction commits. *)
sweepCommit(w) ==
  /\ sweep[w] # Idle
  /\ timer' = [t \in Timers |->
       IF Raises(w, t)
       THEN [timer[t] EXCEPT !.stage = NewStage(w, t),
                             !.breached = NewStage(w, t) = 3 \/ @]
       ELSE timer[t]]
  /\ told' = [t \in Timers |->
       IF Raises(w, t)
       THEN Append(told[t], [before |-> sweep[w].read[t].stage,
                             after |-> NewStage(w, t)])
       ELSE told[t]]
  /\ sweep' = [sweep EXCEPT ![w] = Idle]
  /\ UNCHANGED <<tick, jobState>>

(* The worker dies or a statement fails: rolled back, tried next minute.   *)
sweepLost(w) ==
  /\ sweep[w] # Idle
  /\ sweep' = [sweep EXCEPT ![w] = Idle]
  /\ UNCHANGED <<tick, timer, jobState, told>>

-----------------------------------------------------------------------------
SlaNext ==
  \/ \E t \in Timers : createJobTimer(t) \/ assignAnswers(t) \/ jobMoves(t)
  \/ Passes
  \/ \E w \in Cascades : sweepSelect(w) \/ sweepCommit(w) \/ sweepLost(w)

(* A worker starts a sweep every minute, and of the sweeps that hold a     *)
(* timer not every one fails.                                              *)
SlaFairness ==
  /\ \A w \in Cascades : WF_slaVars(sweepSelect(w))
  /\ \A t \in Timers :
       SF_slaVars(\E w \in Cascades : sweep[w].read[t].open /\ sweepCommit(w))

SlaSpec == SlaInit /\ [][SlaNext]_slaVars

-----------------------------------------------------------------------------
(* The events about a timer are its history: each starts from the stage    *)
(* the one before it reached, each goes up, and the last one's stage is    *)
(* the timer's.  Two workers that read the same row would tell a stage     *)
(* twice, or bring a timer back down.                                      *)
EscalationsChain ==
  \A t \in Timers :
    LET e == told[t] n == Len(e) IN
    /\ \A i \in 1..n : /\ e[i].before < e[i].after
                       /\ e[i].before = IF i = 1 THEN 0 ELSE e[i - 1].after
    /\ timer[t].stage = IF n = 0 THEN 0 ELSE e[n].after

(* A stage is never reached before its share of the window is consumed,    *)
(* and a breach is recorded exactly with the last stage, on or after the   *)
(* due date, whatever the clock did between the sweep's read and commit.   *)
BreachIsDue ==
  \A t \in Timers :
    /\ timer[t].stage > 0 => timer[t].stage <= StageAt(timer[t], t, tick)
    /\ timer[t].breached <=> timer[t].stage = 3
    /\ timer[t].breached => tick >= timer[t].due

(* Nobody is told of a timer that has been answered, nor of one whose      *)
(* answer is being written: assignment and cascade take the timer's lock.  *)
AnsweredIsNotPaged ==
  [][\A t \in Timers : told'[t] # told[t] => ~timer[t].satisfied]_slaVars

(* A response that stays owed past its due date is breached, however the   *)
(* workers' sweeps overlap, fail and take turns.                           *)
ConsumedIsBreached ==
  \A t \in Timers :
    (Owed(t) /\ ~timer[t].satisfied /\ tick >= timer[t].due)
      ~> (timer[t].stage = 3 \/ timer[t].satisfied \/ ~Owed(t))
=============================================================================
