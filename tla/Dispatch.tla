------------------------------ MODULE Dispatch ------------------------------
(***************************************************************************)
(* The gateway handlers that share a job: jobs.create, jobs.transition,    *)
(* dispatch.assign, dispatch.release, sync.replay, jobs.attachMedia and    *)
(* jobs.wrapUp, run by concurrent request handlers against one Postgres.   *)
(*                                                                         *)
(* Each handler is one READ COMMITTED transaction.  It is split where      *)
(* another transaction can come in between: at every statement that reads  *)
(* a row it does not hold, and at every wait for a row lock.  The writes   *)
(* of a transaction become visible together, at its commit, which is the   *)
(* handler's last step; a step that may wait has the lock as its guard.    *)
(*                                                                         *)
(* A statement SELECT ... FOR UPDATE OF j that waits for j re-reads j when *)
(* it is granted, but what it computed from OTHER tables is of the         *)
(* statement's own, earlier snapshot: crewJobOf and crewJob therefore take *)
(* two steps, the snapshot (the crew's standing) and the grant.            *)
(*                                                                         *)
(* Tenancy, sessions and the write allowlist are decided before any of     *)
(* this and are not repeated here.  The compliance verdict and the crew    *)
(* kind check are an arbitrary yes or no.                                  *)
(***************************************************************************)
EXTENDS JobLifecycle, FiniteSets

CONSTANTS
  Jobs,          \* ids of jobs that may be opened
  Crews,         \* crews; each works through one shift device
  Handlers,      \* requests in flight at once, at most one per handler
  Rows,          \* ids of assignments rows
  MutationIds,   \* ids of mutations devices replay
  WrapUpIds,     \* ids of completion reports
  Photos,        \* mutation ids of photos
  MinPhotos,     \* WRAP_UP_MIN_PHOTOS / QUOTE_MIN_PHOTOS
  JOB_MEDIA_MAX, \* the photos and signatures a job carries at most
  MaxVersion,    \* bound on jobs.version
  None           \* NULL, and no one

ASSUME DispatchAssumption ==
  /\ None \notin Jobs \cup Crews \cup Handlers \cup Rows
  /\ None \notin MutationIds \cup WrapUpIds \cup Photos
  /\ MinPhotos \in Nat /\ JOB_MEDIA_MAX \in Nat
  /\ MaxVersion \in Nat

VARIABLES
  state,     \* jobs.state; "none" until the job is opened
  version,   \* jobs.version
  tail,      \* the newest job_state_events row of each job
  timer,     \* sla_timers: "none", "open" or "satisfied"
  asg,       \* assignments
  intents,   \* sync_mutations by mutation id
  media,     \* job_media: the photos of each job
  wrapUps,   \* job_wrap_ups by wrap_up_id
  answers,   \* the last answer a device got about each wrap-up
  jobLock,   \* the holder of each jobs row's lock
  rowLock,   \* the holder of each assignments row's lock
  pc,        \* where each handler's transaction is
  req,       \* the request it serves
  row,       \* the assignments row it is about, once known
  read,      \* the job's state and version as it read them
  standing   \* the crew's standing as its statement's snapshot has it

db    == <<state, version, tail, timer, asg, intents, media, wrapUps>>
locks == <<jobLock, rowLock>>
txs   == <<pc, req, row, read, standing>>
vars  == <<state, version, tail, timer, asg, intents, media, wrapUps,
           answers, jobLock, rowLock, pc, req, row, read, standing>>

NoEvent == [from |-> "none", to |-> "none", by |-> None]
NoRow   == [job |-> None, crew |-> None, released |-> TRUE]
NoMutation == [table |-> "none", to |-> "none"]
NoRead == [state |-> "none", version |-> 0]

OfficeReq(j, c, to) ==
  [job |-> j, crew |-> c, to |-> to, id |-> None, mut |-> NoMutation,
   photos |-> {}]
FieldReq(j, c, i, m, ps) ==
  [job |-> j, crew |-> c, to |-> "none", id |-> i, mut |-> m, photos |-> ps]
NoReq == OfficeReq(None, None, "none")

Init ==
  /\ state   = [j \in Jobs |-> "none"]
  /\ version = [j \in Jobs |-> 0]
  /\ tail    = [j \in Jobs |-> NoEvent]
  /\ timer   = [j \in Jobs |-> "none"]
  /\ asg     = [a \in Rows |-> NoRow]
  /\ intents = [i \in MutationIds |-> None]
  /\ media   = [j \in Jobs |-> {}]
  /\ wrapUps = [w \in WrapUpIds |-> None]
  /\ answers = [w \in WrapUpIds |-> "none"]
  /\ jobLock = [j \in Jobs |-> None]
  /\ rowLock = [a \in Rows |-> None]
  /\ pc      = [h \in Handlers |-> "idle"]
  /\ req     = [h \in Handlers |-> NoReq]
  /\ row     = [h \in Handlers |-> None]
  /\ read    = [h \in Handlers |-> NoRead]
  /\ standing = [h \in Handlers |-> "none"]

-----------------------------------------------------------------------------
(* Reads.                                                                  *)

LiveRows(j) == {a \in Rows : asg[a].job = j /\ ~asg[a].released}

Released(a) ==
  [job |-> asg[a].job, crew |-> asg[a].crew, released |-> TRUE]

Holds(c, j) == \E a \in LiveRows(j) : asg[a].crew = c

(* What crewJobOf's two EXISTS say of a crew and a job.                    *)
Standing(c, j) ==
  IF Holds(c, j) THEN "live"
  ELSE IF \E a \in Rows : asg[a].job = j /\ asg[a].crew = c THEN "released"
  ELSE "never"

Unlocked(lock, h) == lock \in {None, h}

InFlight == {h \in Handlers : pc[h] # "idle"}

(* The bound: every request in flight moves its job at most once.          *)
Room(j) == version[j] + Cardinality(InFlight) < MaxVersion

FreeRows == {a \in Rows : asg[a].job = None}

-----------------------------------------------------------------------------
(* The ends of a transaction.                                              *)

Begin(h, label, r) ==
  /\ pc[h] = "idle"
  /\ pc'  = [pc EXCEPT ![h] = label]
  /\ req' = [req EXCEPT ![h] = r]

Goto(h, label) == pc' = [pc EXCEPT ![h] = label]

ReadJob(h, j) ==
  read' = [read EXCEPT ![h] = [state |-> state[j], version |-> version[j]]]

Forget(h) ==
  /\ pc'   = [pc EXCEPT ![h] = "idle"]
  /\ req'  = [req EXCEPT ![h] = NoReq]
  /\ row'  = [row EXCEPT ![h] = None]
  /\ read' = [read EXCEPT ![h] = NoRead]
  /\ standing' = [standing EXCEPT ![h] = "none"]

(* COMMIT or ROLLBACK: either way every lock is given up.                  *)
End(h) ==
  /\ Forget(h)
  /\ jobLock' = [j \in Jobs |-> IF jobLock[j] = h THEN None ELSE jobLock[j]]
  /\ rowLock' = [a \in Rows |-> IF rowLock[a] = h THEN None ELSE rowLock[a]]

(* Mutant: a refusal that forgets its ROLLBACK keeps its locks.            *)
Refuse_KeepsLocks(h) ==
  /\ Forget(h)
  /\ UNCHANGED <<db, answers, locks>>

Refuse(h) == End(h) /\ UNCHANGED <<db, answers>>

(* UPDATE jobs SET state, version and the job_state_events row beside it.  *)
Move(j, from, to, by) ==
  /\ state'   = [state EXCEPT ![j] = to]
  /\ version' = [version EXCEPT ![j] = @ + 1]
  /\ tail'    = [tail EXCEPT ![j] = [from |-> from, to |-> to, by |-> by]]

LockJob(h, j) ==
  /\ jobLock' = [jobLock EXCEPT ![j] = h]
  /\ UNCHANGED rowLock

-----------------------------------------------------------------------------
(* jobs.create: the job and its SLA timer in one unit of work.             *)

createJob(j) ==
  /\ state[j] = "none"
  /\ state'   = [state EXCEPT ![j] = "created"]
  /\ version' = [version EXCEPT ![j] = 1]
  /\ timer'   = [timer EXCEPT ![j] = "open"]
  /\ UNCHANGED <<tail, asg, intents, media, wrapUps, answers, locks, txs>>

-----------------------------------------------------------------------------
(* jobs.transition: the office's hand.  The job is read without a lock;    *)
(* a cancellation locks the live assignment; the UPDATE names the state    *)
(* and the version that were read.                                         *)

TransitionRead(h, j, to) ==
  /\ state[j] # "none" /\ to \in OfficeMoves(state[j]) /\ Room(j)
  /\ Begin(h, IF to = "cancelled" THEN "cancel_see" ELSE "transition_write",
           OfficeReq(j, None, to))
  /\ ReadJob(h, j)
  /\ UNCHANGED <<db, answers, locks, row, standing>>

(* The snapshot of SELECT ... WHERE released_at IS NULL FOR UPDATE.        *)
CancelSee(h) ==
  LET j == req[h].job IN
  /\ pc[h] = "cancel_see"
  /\ \/ /\ LiveRows(j) = {}
        /\ Goto(h, "transition_write")
        /\ UNCHANGED row
     \/ /\ \E a \in LiveRows(j) : row' = [row EXCEPT ![h] = a]
        /\ Goto(h, "cancel_lock")
  /\ UNCHANGED <<db, answers, locks, req, read, standing>>

(* The row is granted, and dropped if it was released meanwhile.           *)
CancelLock(h) ==
  LET a == row[h] IN
  /\ pc[h] = "cancel_lock"
  /\ Unlocked(rowLock[a], h)
  /\ \/ /\ ~asg[a].released
        /\ rowLock' = [rowLock EXCEPT ![a] = h]
        /\ UNCHANGED row
     \/ /\ asg[a].released
        /\ row' = [row EXCEPT ![h] = None]
        /\ UNCHANGED rowLock
  /\ Goto(h, "transition_write")
  /\ UNCHANGED <<db, answers, jobLock, req, read, standing>>

(* Mutant: the UPDATE names neither the state nor the version it read.     *)
StillAsRead_Unguarded(h) == TRUE

StillAsRead(h) ==
  LET j == req[h].job IN
  state[j] = read[h].state /\ version[j] = read[h].version

TransitionWrite(h) ==
  LET j == req[h].job IN
  /\ pc[h] = "transition_write"
  /\ Unlocked(jobLock[j], h)
  /\ StillAsRead(h)
  /\ Move(j, read[h].state, req[h].to, None)
  /\ asg' = [a \in Rows |-> IF a = row[h] THEN Released(a) ELSE asg[a]]
  /\ End(h)
  /\ UNCHANGED <<timer, intents, media, wrapUps, answers>>

TransitionStale(h) ==
  /\ pc[h] = "transition_write"
  /\ Unlocked(jobLock[req[h].job], h)
  /\ ~StillAsRead(h)
  /\ Refuse(h)

-----------------------------------------------------------------------------
(* dispatch.assign.                                                        *)

AssignBegin(h, j, c) ==
  /\ state[j] # "none" /\ Room(j)
  /\ Cardinality(FreeRows) > Cardinality(InFlight)
  /\ Begin(h, "assign_lock", OfficeReq(j, c, "none"))
  /\ UNCHANGED <<db, answers, locks, row, read, standing>>

(* Mutant: the job is read without FOR UPDATE.                             *)
AssignLock_NoLock(h) ==
  LET j == req[h].job IN
  /\ pc[h] = "assign_lock"
  /\ \/ /\ state[j] \in DISPATCHABLE
        /\ ReadJob(h, j)
        /\ Goto(h, "assign_write")
        /\ UNCHANGED <<db, answers, locks, req, row, standing>>
     \/ /\ state[j] \notin DISPATCHABLE
        /\ Refuse(h)

AssignLock(h) ==
  LET j == req[h].job IN
  /\ pc[h] = "assign_lock"
  /\ Unlocked(jobLock[j], h)
  /\ \/ /\ state[j] \in DISPATCHABLE
        /\ LockJob(h, j)
        /\ ReadJob(h, j)
        /\ Goto(h, "assign_write")
        /\ UNCHANGED <<db, answers, req, row, standing>>
     \/ /\ state[j] \notin DISPATCHABLE
        /\ Refuse(h)

(* The wrong kind of crew, or a compliance refusal: nothing is written to  *)
(* any of these tables.                                                    *)
AssignRefused(h) ==
  /\ pc[h] = "assign_write"
  /\ Refuse(h)

(* Mutant: the SLA timer is left running.                                  *)
AssignWrite_NoTimer(h) ==
  LET j == req[h].job IN
  /\ pc[h] = "assign_write"
  /\ \A a \in LiveRows(j) : Unlocked(rowLock[a], h)
  /\ \E new \in FreeRows :
       asg' = [a \in Rows |->
            IF a = new
            THEN [job |-> j, crew |-> req[h].crew, released |-> FALSE]
            ELSE IF a \in LiveRows(j)
            THEN Released(a) ELSE asg[a]]
  /\ IF state[j] \in DISPATCHABLE
     THEN /\ state'   = [state EXCEPT ![j] = "assigned"]
          /\ version' = [version EXCEPT ![j] = @ + 1]
     ELSE UNCHANGED <<state, version>>
  /\ tail'  = [tail EXCEPT ![j] =
                 [from |-> read[h].state, to |-> "assigned", by |-> None]]
  /\ End(h)
  /\ UNCHANGED <<timer, intents, media, wrapUps, answers>>

(* The live assignment, if any, comes off; the new one goes on; the job    *)
(* moves if it is still dispatchable; the timer is satisfied.              *)
AssignWrite(h) ==
  LET j == req[h].job IN
  /\ pc[h] = "assign_write"
  /\ \A a \in LiveRows(j) : Unlocked(rowLock[a], h)
  /\ \E new \in FreeRows :
       asg' = [a \in Rows |->
            IF a = new
            THEN [job |-> j, crew |-> req[h].crew, released |-> FALSE]
            ELSE IF a \in LiveRows(j)
            THEN Released(a) ELSE asg[a]]
  /\ IF state[j] \in DISPATCHABLE
     THEN /\ state'   = [state EXCEPT ![j] = "assigned"]
          /\ version' = [version EXCEPT ![j] = @ + 1]
     ELSE UNCHANGED <<state, version>>
  /\ tail'  = [tail EXCEPT ![j] =
                 [from |-> read[h].state, to |-> "assigned", by |-> None]]
  /\ timer' = [timer EXCEPT ![j] = "satisfied"]
  /\ End(h)
  /\ UNCHANGED <<intents, media, wrapUps, answers>>

-----------------------------------------------------------------------------
(* dispatch.release: the job is locked first, then the assignment.         *)

ReleaseBegin(h, a) ==
  /\ asg[a].job # None /\ Room(asg[a].job)
  /\ Begin(h, "release_job", OfficeReq(asg[a].job, None, "none"))
  /\ row' = [row EXCEPT ![h] = a]
  /\ UNCHANGED <<db, answers, locks, read, standing>>

ReleaseLockJob(h) ==
  LET j == req[h].job IN
  /\ pc[h] = "release_job"
  /\ Unlocked(jobLock[j], h)
  /\ LockJob(h, j)
  /\ ReadJob(h, j)
  /\ Goto(h, "release_row")
  /\ UNCHANGED <<db, answers, req, row, standing>>

ReleaseWrite(h) ==
  LET j == req[h].job
      mayRelease == /\ ~asg[row[h]].released
                    /\ read[h].state = "assigned" /\ state[j] = "assigned"
  IN
  /\ pc[h] = "release_row"
  /\ Unlocked(rowLock[row[h]], h)
  /\ \/ /\ mayRelease
        /\ asg' = [asg EXCEPT ![row[h]] = Released(row[h])]
        /\ Move(j, "assigned", "created", None)
        /\ End(h)
        /\ UNCHANGED <<timer, intents, media, wrapUps, answers>>
     \/ /\ ~mayRelease
        /\ Refuse(h)

-----------------------------------------------------------------------------
(* sync.replay, one mutation of a batch.  A device replays one batch at a  *)
(* time (the advisory lock), so its seen set cannot change under it; a     *)
(* mutation already recorded is answered "duplicate" and nothing happens.  *)

SyncPCs == {"sync_wait", "sync_write"}

SyncSee(h, c, j, m, i) ==
  /\ state[j] # "none" /\ Room(j)
  /\ intents[i] = None
  /\ \A g \in Handlers :
       pc[g] \in SyncPCs => req[g].crew # c /\ req[g].id # i
  /\ Begin(h, "sync_wait", FieldReq(j, c, i, m, {}))
  /\ standing' = [standing EXCEPT ![h] = Standing(c, j)]
  /\ UNCHANGED <<db, answers, locks, row, read>>

(* The job row, as it is when the lock is granted.                         *)
SyncGrant(h) ==
  LET j == req[h].job IN
  /\ pc[h] = "sync_wait"
  /\ standing[h] # "never"
  /\ Unlocked(jobLock[j], h)
  /\ LockJob(h, j)
  /\ ReadJob(h, j)
  /\ Goto(h, "sync_write")
  /\ UNCHANGED <<db, answers, req, row, standing>>

(* Mutant: an outcome the CHECK on sync_mutations.outcome does not admit.  *)
ingestOutcome_Unknown(h) ==
  IF standing[h] = "never" THEN "rejected"
  ELSE IF standing[h] = "released" THEN "crew_released"
  ELSE resolveMutation(req[h].mut, read[h].state)

ingestOutcome(h) ==
  IF standing[h] = "never" THEN "rejected"
  ELSE IF standing[h] = "released" THEN "queued_for_human"
  ELSE resolveMutation(req[h].mut, read[h].state)

RecordIntent(h, outcome) ==
  intents' = [intents EXCEPT ![req[h].id] =
    [crew |-> req[h].crew, job |-> req[h].job, outcome |-> outcome]]

(* A crew never sent to the job: no row comes back, so none is locked.     *)
SyncStranger(h) ==
  /\ pc[h] = "sync_wait"
  /\ standing[h] = "never"
  /\ RecordIntent(h, ingestOutcome(h))
  /\ End(h)
  /\ UNCHANGED <<state, version, tail, timer, asg, media, wrapUps, answers>>

(* An applied transition: the UPDATE names the version it was decided on.  *)
SyncMove(h) ==
  LET j == req[h].job IN
  /\ pc[h] = "sync_write"
  /\ ingestOutcome(h) = "applied" /\ req[h].mut.table = "jobs"
  /\ version[j] = read[h].version
  /\ Move(j, read[h].state, req[h].mut.to, req[h].crew)
  /\ RecordIntent(h, "applied")
  /\ End(h)
  /\ UNCHANGED <<timer, asg, media, wrapUps, answers>>

(* Everything else the decision can be: a field row, a conflict for a      *)
(* person, a rejection.  Only the intent record is kept of it.             *)
SyncRecord(h) ==
  /\ pc[h] = "sync_write"
  /\ ingestOutcome(h) # "duplicate"
  /\ ~(ingestOutcome(h) = "applied" /\ req[h].mut.table = "jobs")
  /\ RecordIntent(h, ingestOutcome(h))
  /\ End(h)
  /\ UNCHANGED <<state, version, tail, timer, asg, media, wrapUps, answers>>

(* The database refuses the row: back to the savepoint, and the intent is  *)
(* recorded as rejected.                                                   *)
SyncRowRefused(h) ==
  /\ pc[h] = "sync_write"
  /\ ingestOutcome(h) = "applied" /\ req[h].mut.table # "jobs"
  /\ RecordIntent(h, "rejected")
  /\ End(h)
  /\ UNCHANGED <<state, version, tail, timer, asg, media, wrapUps, answers>>

(* The job is already where the device wants it: not even recorded.        *)
SyncDuplicate(h) ==
  /\ pc[h] = "sync_write"
  /\ ingestOutcome(h) = "duplicate"
  /\ Refuse(h)

-----------------------------------------------------------------------------
(* jobs.attachMedia.                                                       *)

AttachSee(h, c, j, p) ==
  /\ state[j] # "none" /\ Room(j)
  /\ Begin(h, "attach_wait", FieldReq(j, c, None, NoMutation, {p}))
  /\ standing' = [standing EXCEPT ![h] = Standing(c, j)]
  /\ UNCHANGED <<db, answers, locks, row, read>>

(* A photo that is already there is a retried upload, and answered so.     *)
MayAttach(h) ==
  LET j == req[h].job IN
  /\ standing[h] = "live"
  /\ ~(req[h].photos \subseteq media[j])
  /\ Cardinality(media[j]) < JOB_MEDIA_MAX

attachJobMedia(h) ==
  LET j == req[h].job IN
  /\ pc[h] = "attach_wait"
  /\ Unlocked(jobLock[j], h)
  /\ \/ /\ MayAttach(h)
        /\ media' = [media EXCEPT ![j] = @ \cup req[h].photos]
        /\ End(h)
        /\ UNCHANGED <<state, version, tail, timer, asg, intents, wrapUps,
                       answers>>
     \/ /\ ~MayAttach(h)
        /\ Refuse(h)

-----------------------------------------------------------------------------
(* jobs.wrapUp: a report already recorded is answered before the crew is   *)
(* asked for, and again once the job is locked.                            *)

Answer(w, a) == answers' = [answers EXCEPT ![w] = a]

WrapUpBegin(h, c, j, w, ps) ==
  /\ state[j] # "none" /\ Room(j)
  /\ wrapUps[w] = None
  /\ Begin(h, "wrapup_see", FieldReq(j, c, w, NoMutation, ps))
  /\ UNCHANGED <<db, answers, locks, row, read, standing>>

WrapUpReplayed(w) ==
  /\ wrapUps[w] # None
  /\ answers[w] # "duplicate"
  /\ Answer(w, "duplicate")
  /\ UNCHANGED <<db, locks, txs>>

WrapUpSee(h) ==
  /\ pc[h] = "wrapup_see"
  /\ standing' = [standing EXCEPT ![h] = Standing(req[h].crew, req[h].job)]
  /\ Goto(h, "wrapup_wait")
  /\ UNCHANGED <<db, answers, locks, req, row, read>>

(* Mutant: the second replay check is dropped.                             *)
wrapUpVerdict_OneCheck(h) ==
  IF standing[h] # "live" THEN "not_your_job"
  ELSE IF state[req[h].job] # "in_progress" THEN "not_in_progress"
  ELSE IF Cardinality(req[h].photos) < MinPhotos THEN "too_few_photos"
  ELSE IF ~(req[h].photos \subseteq media[req[h].job]) THEN "media_not_uploaded"
  ELSE "closed"

(* What the handler answers once it holds the job.                         *)
wrapUpVerdict(h) ==
  IF standing[h] # "live" THEN "not_your_job"
  ELSE IF wrapUps[req[h].id] # None THEN "duplicate"
  ELSE IF state[req[h].job] # "in_progress" THEN "not_in_progress"
  ELSE IF Cardinality(req[h].photos) < MinPhotos THEN "too_few_photos"
  ELSE IF ~(req[h].photos \subseteq media[req[h].job]) THEN "media_not_uploaded"
  ELSE "closed"

wrapUpJob(h) ==
  LET j == req[h].job IN
  /\ pc[h] = "wrapup_wait"
  /\ Unlocked(jobLock[j], h)
  /\ Answer(req[h].id, wrapUpVerdict(h))
  /\ IF wrapUpVerdict(h) = "closed"
     THEN /\ Move(j, "in_progress", "complete", req[h].crew)
          /\ wrapUps' = [wrapUps EXCEPT ![req[h].id] = j]
     ELSE UNCHANGED <<state, version, tail, wrapUps>>
  /\ End(h)
  /\ UNCHANGED <<timer, asg, intents, media>>

-----------------------------------------------------------------------------
(* The connection is lost, the object store does not answer, or the        *)
(* process dies: Postgres rolls back.                                      *)

Abort(h) ==
  /\ pc[h] # "idle"
  /\ Refuse(h)

(* Who a handler waits for.                                                *)
WaitsFor(h) ==
  LET holder ==
        IF \/ pc[h] \in {"assign_lock", "release_job", "transition_write",
                         "attach_wait", "wrapup_wait"}
           \/ pc[h] = "sync_wait" /\ standing[h] # "never"
        THEN jobLock[req[h].job]
        ELSE IF pc[h] \in {"cancel_lock", "release_row"}
        THEN rowLock[row[h]]
        ELSE None
  IN {holder} \ {None, h}

Deadlocked(h) == \E g \in WaitsFor(h) : h \in WaitsFor(g)

(* Postgres ends a deadlock by aborting one of its transactions.           *)
DeadlockVictim(h) ==
  /\ Deadlocked(h)
  /\ Refuse(h)

-----------------------------------------------------------------------------
Request(h) ==
  \/ \E j \in Jobs, to \in JobStateWire : TransitionRead(h, j, to)
  \/ \E j \in Jobs, c \in Crews : AssignBegin(h, j, c)
  \/ \E a \in Rows : ReleaseBegin(h, a)
  \/ \E c \in Crews, j \in Jobs, m \in DeviceMutations, i \in MutationIds :
       SyncSee(h, c, j, m, i)
  \/ \E c \in Crews, j \in Jobs, p \in Photos : AttachSee(h, c, j, p)
  \/ \E c \in Crews, j \in Jobs, w \in WrapUpIds, ps \in SUBSET Photos :
       WrapUpBegin(h, c, j, w, ps)

Proceed(h) ==
  \/ CancelSee(h) \/ CancelLock(h) \/ TransitionWrite(h) \/ TransitionStale(h)
  \/ AssignLock(h) \/ AssignRefused(h) \/ AssignWrite(h)
  \/ ReleaseLockJob(h) \/ ReleaseWrite(h)
  \/ SyncGrant(h) \/ SyncStranger(h) \/ SyncMove(h) \/ SyncRecord(h)
  \/ SyncRowRefused(h) \/ SyncDuplicate(h)
  \/ attachJobMedia(h) \/ WrapUpSee(h) \/ wrapUpJob(h)

Next ==
  \/ \E j \in Jobs : createJob(j)
  \/ \E w \in WrapUpIds : WrapUpReplayed(w)
  \/ \E h \in Handlers :
       Request(h) \/ Proceed(h) \/ Abort(h) \/ DeadlockVictim(h)

(* A handler that can go on does: the event loop runs it, Postgres grants  *)
(* row locks in the order they were asked for (so a waiter is not passed   *)
(* over forever), and its deadlock detector always ends a deadlock.        *)
Fairness ==
  \A h \in Handlers : SF_vars(Proceed(h)) /\ WF_vars(DeadlockVictim(h))

Spec == Init /\ [][Next]_vars /\ Fairness

-----------------------------------------------------------------------------
(* Properties.                                                             *)

PCs == {"idle", "cancel_see", "cancel_lock", "transition_write",
        "assign_lock", "assign_write", "release_job", "release_row",
        "sync_wait", "sync_write", "attach_wait", "wrapup_see", "wrapup_wait"}

ReqType ==
  [job : Jobs \cup {None}, crew : Crews \cup {None},
   to : JobStateWire \cup {"none"},
   id : MutationIds \cup WrapUpIds \cup {None},
   mut : DeviceMutations \cup {NoMutation}, photos : SUBSET Photos]

IntentType == [crew : Crews, job : Jobs, outcome : Outcomes]

AnswerType ==
  {"none", "not_your_job", "duplicate", "not_in_progress", "too_few_photos",
   "media_not_uploaded", "closed"}

(* Every variable has the shape its table or its handler gives it.         *)
TypeOK ==
  /\ state   \in [Jobs -> JobStateWire \cup {"none"}]
  /\ version \in [Jobs -> Nat]
  /\ tail    \in [Jobs -> [from : JobStateWire \cup {"none"},
                           to : JobStateWire \cup {"none"},
                           by : Crews \cup {None}]]
  /\ timer   \in [Jobs -> {"none", "open", "satisfied"}]
  /\ asg     \in [Rows -> [job : Jobs \cup {None}, crew : Crews \cup {None},
                           released : BOOLEAN]]
  /\ intents \in [MutationIds -> IntentType \cup {None}]
  /\ media   \in [Jobs -> SUBSET Photos]
  /\ wrapUps \in [WrapUpIds -> Jobs \cup {None}]
  /\ answers \in [WrapUpIds -> AnswerType]
  /\ jobLock \in [Jobs -> Handlers \cup {None}]
  /\ rowLock \in [Rows -> Handlers \cup {None}]
  /\ pc      \in [Handlers -> PCs]
  /\ req     \in [Handlers -> ReqType]
  /\ row     \in [Handlers -> Rows \cup {None}]
  /\ read    \in [Handlers -> [state : JobStateWire \cup {"none"},
                               version : Nat]]
  /\ standing \in [Handlers -> {"none", "live", "released", "never"}]

UncrewedStates ==
  {"none", "created", "quote_requested", "quote_submitted", "cancelled"}

(* A job that waits for a crew or was cancelled holds no live assignment,  *)
(* and any other job holds exactly one: no interleaving of assignCrew,     *)
(* releaseAssignment, transitionJob, sync and wrapUpJob leaves a crew on a *)
(* cancelled job, two crews on one, or a dispatched job with nobody.       *)
CrewMatchesState ==
  \A j \in Jobs :
    IF state[j] \in UncrewedStates
    THEN LiveRows(j) = {}
    ELSE \E a \in Rows : LiveRows(j) = {a}

(* Once a job has been dispatched its response timer is satisfied: the     *)
(* cascade has nothing to escalate on a job in the field, and              *)
(* awaiting_customer needs no place in SLA_NOT_OWED_STATES.                *)
DispatchedIsAnswered ==
  \A j \in Jobs : state[j] \notin UncrewedStates => timer[j] = "satisfied"

LegalMove(from, to) ==
  \/ from = "none" /\ to = "created"
  \/ from = "assigned" /\ to = "created"
  \/ from # "none" /\ to \in JOB_TRANSITIONS[from] \cup OfficeMoves(from)

(* A job only ever moves along an edge some table allows, one version at a *)
(* time: a decision made on a state that has since changed is never        *)
(* written over the new one.                                               *)
MovesAreLegal ==
  [][\A j \in Jobs : state'[j] # state[j] =>
       LegalMove(state[j], state'[j]) /\ version'[j] = version[j] + 1]_vars

(* job_state_events is the job's true history: a new event starts where    *)
(* the job was and ends where it now is, and no move goes unrecorded       *)
(* (opening a job writes none).                                            *)
HistoryIsTrue ==
  [][\A j \in Jobs :
       /\ tail'[j] # tail[j] => /\ tail'[j].from = state[j]
                               /\ tail'[j].to = state'[j]
                               /\ state'[j] # state[j]
       /\ state'[j] # state[j] /\ state[j] # "none" => tail'[j] # tail[j]]_vars

(* A retry of a completion report the office already has is never told     *)
(* that the job is not in progress, even when it was sent while the first  *)
(* submit was still in flight.                                             *)
RetriedWrapUpIsRecognised ==
  [][\A w \in WrapUpIds :
       answers'[w] # answers[w] /\ answers'[w] = "not_in_progress"
         => wrapUps[w] = None]_vars

(* A crew that has been released applies nothing: each field row or        *)
(* transition sync applies is of a crew that holds the job as it commits.  *)
ReleasedCrewAppliesNothing ==
  [][\A i \in MutationIds :
       intents'[i] # intents[i] /\ intents'[i].outcome = "applied"
         => Holds(intents'[i].crew, intents'[i].job)]_vars

(* Every request is answered: locks are always given up, and a deadlock    *)
(* is always ended.                                                        *)
EveryRequestEnds ==
  \A h \in Handlers : pc[h] # "idle" ~> pc[h] = "idle"
=============================================================================
