--------------------------- MODULE DispatchProofs ---------------------------
(***************************************************************************)
(* The invariants of Dispatch, for every number of jobs, crews, requests   *)
(* and rows.                                                               *)
(***************************************************************************)
EXTENDS Dispatch, TLAPS

-----------------------------------------------------------------------------
(* The inductive invariant.                                                *)

(* What a transaction has read is about rows that exist.                   *)
TxReads(h) ==
  /\ pc[h] # "idle" => req[h].job \in Jobs /\ state[req[h].job] # "none"
  /\ pc[h] \in {"assign_lock", "assign_write", "sync_wait", "sync_write",
                "attach_wait", "wrapup_see", "wrapup_wait"}
       => req[h].crew \in Crews
  /\ pc[h] \in SyncPCs =>
       req[h].id \in MutationIds /\ req[h].mut \in DeviceMutations
  /\ pc[h] \in {"wrapup_see", "wrapup_wait"} => req[h].id \in WrapUpIds
  /\ pc[h] \in {"cancel_lock", "release_job", "release_row"} =>
       row[h] \in Rows /\ asg[row[h]].job = req[h].job

(* What an office move has decided, and that no version goes backwards.    *)
TxDecides(h) ==
  /\ pc[h] \in {"cancel_see", "cancel_lock", "transition_write"} =>
       /\ read[h].state # "none"
       /\ req[h].to \in OfficeMoves(read[h].state)
       /\ read[h].version <= version[req[h].job]
  /\ pc[h] \in {"cancel_see", "cancel_lock"} => req[h].to = "cancelled"
  /\ pc[h] = "transition_write" /\ row[h] # None => req[h].to = "cancelled"
  /\ pc[h] \in {"idle", "cancel_see"} => row[h] = None

(* What a lock holder has read is still so.                                *)
LocksHold(h) ==
  /\ pc[h] \in {"assign_write", "release_row", "sync_write"} =>
       jobLock[req[h].job] = h /\ read[h].state = state[req[h].job]
  /\ pc[h] = "assign_write" => read[h].state \in DISPATCHABLE
  /\ pc[h] = "sync_write" => read[h].version = version[req[h].job]
  /\ pc[h] = "transition_write" /\ row[h] # None =>
       /\ row[h] \in Rows
       /\ rowLock[row[h]] = h
       /\ asg[row[h]].job = req[h].job
       /\ ~asg[row[h]].released

(* On a job not moved since a cancellation read it, the crew the           *)
(* cancellation saw is still on it, and if it saw none there is none.      *)
CancelKnows(h) ==
  pc[h] \in {"cancel_lock", "transition_write"} /\ StillAsRead(h) =>
    /\ pc[h] = "cancel_lock" => ~asg[row[h]].released
    /\ pc[h] = "transition_write" /\ req[h].to = "cancelled" /\ row[h] = None
         => LiveRows(req[h].job) = {}

TxInv(h) == TxReads(h) /\ TxDecides(h) /\ LocksHold(h) /\ CancelKnows(h)

(* A job that was never opened has no version and no assignment, and the   *)
(* last event of any other ends where the job is.                          *)
TablesAgree ==
  /\ \A j \in Jobs :
       /\ state[j] = "none" => version[j] = 0
       /\ tail[j].to \in {"none", state[j]}
  /\ \A a \in Rows : asg[a].job # None => state[asg[a].job] # "none"

IInv ==
  /\ TypeOK
  /\ \A h \in Handlers : TxInv(h)
  /\ CrewMatchesState
  /\ DispatchedIsAnswered
  /\ TablesAgree

-----------------------------------------------------------------------------
(* Type correctness.                                                       *)

(* The request records are well typed.                                     *)
LEMMA NoReqType == NoReq \in ReqType /\ NoMutation \notin DeviceMutations
BY DEF NoReq, OfficeReq, ReqType, NoMutation, DeviceMutations,
       CONFLICT_POLICIES

(* An office request is a well-typed request record.                       *)
LEMMA OfficeReqType ==
  ASSUME NEW j \in Jobs, NEW c \in Crews \cup {None},
         NEW to \in JobStateWire \cup {"none"}
  PROVE  OfficeReq(j, c, to) \in ReqType
BY DEF OfficeReq, ReqType

(* So is a device's.                                                       *)
LEMMA FieldReqType ==
  ASSUME NEW j \in Jobs, NEW c \in Crews,
         NEW i \in MutationIds \cup WrapUpIds \cup {None},
         NEW m \in DeviceMutations \cup {NoMutation}, NEW ps \in SUBSET Photos
  PROVE  FieldReq(j, c, i, m, ps) \in ReqType
BY DEF FieldReq, ReqType

(* The decision about a mutation is one of the five outcomes.              *)
LEMMA OutcomeType ==
  ASSUME NEW h, req[h].mut \in DeviceMutations
  PROVE  ingestOutcome(h) \in Outcomes
<1>1. req[h].mut.table \in DOMAIN CONFLICT_POLICIES
  BY DEF DeviceMutations, CONFLICT_POLICIES
<1>2. ResolveTransition(read[h].state, req[h].mut.to) \in Outcomes
  BY DEF ResolveTransition, Outcomes
<1>3. resolveMutation(req[h].mut, read[h].state) \in Outcomes
  BY <1>1, <1>2 DEF resolveMutation, CONFLICT_POLICIES, Outcomes
<1>4. QED
  BY <1>3 DEF ingestOutcome, Outcomes

(* The moves the office may make are job states.                           *)
LEMMA OfficeMovesType ==
  ASSUME NEW s PROVE OfficeMoves(s) \subseteq JobStateWire
BY DEF OfficeMoves, OFFICE_JOB_TRANSITIONS, JobStateWire

(* A transaction that ends keeps the types of what handlers hold.          *)
LEMMA EndType ==
  ASSUME TypeOK, NEW h \in Handlers, End(h)
  PROVE  /\ jobLock' \in [Jobs -> Handlers \cup {None}]
         /\ rowLock' \in [Rows -> Handlers \cup {None}]
         /\ pc' \in [Handlers -> PCs]
         /\ req' \in [Handlers -> ReqType]
         /\ row' \in [Handlers -> Rows \cup {None}]
         /\ read' \in [Handlers -> [state : JobStateWire \cup {"none"},
                                    version : Nat]]
         /\ standing' \in [Handlers -> {"none", "live", "released", "never"}]
BY NoReqType DEF End, Forget, TypeOK, PCs, NoRead

(* A refusal keeps every type.                                             *)
LEMMA RefuseType ==
  ASSUME TypeOK, NEW h \in Handlers, Refuse(h) PROVE TypeOK'
BY EndType DEF Refuse, TypeOK, db

(* A move is well typed when its ends are states and its actor a crew.     *)
LEMMA MoveType ==
  ASSUME TypeOK, NEW j \in Jobs, NEW from \in JobStateWire \cup {"none"},
         NEW to \in JobStateWire \cup {"none"}, NEW by \in Crews \cup {None},
         Move(j, from, to, by)
  PROVE  /\ state' \in [Jobs -> JobStateWire \cup {"none"}]
         /\ version' \in [Jobs -> Nat]
         /\ tail' \in [Jobs -> [from : JobStateWire \cup {"none"},
                               to : JobStateWire \cup {"none"},
                               by : Crews \cup {None}]]
BY DEF Move, TypeOK

(* The empty tables and idle handlers are well typed.                      *)
LEMMA InitType == Init => TypeOK
BY NoReqType DEF Init, TypeOK, NoEvent, NoRow, AnswerType, PCs, NoRead

(* A request that begins, or goes on without writing a table, keeps types. *)
LEMMA RequestType ==
  ASSUME TypeOK, NEW h \in Handlers, Request(h) PROVE TypeOK'
<1> USE DEF TypeOK, Begin, db, locks, PCs
<1>1. ASSUME NEW j \in Jobs, NEW to \in JobStateWire, TransitionRead(h, j, to)
      PROVE  TypeOK'
  BY <1>1, OfficeReqType DEF TransitionRead, ReadJob
<1>2. ASSUME NEW j \in Jobs, NEW c \in Crews, AssignBegin(h, j, c)
      PROVE  TypeOK'
  BY <1>2, OfficeReqType DEF AssignBegin
<1>3. ASSUME NEW a \in Rows, ReleaseBegin(h, a) PROVE TypeOK'
  BY <1>3, OfficeReqType DEF ReleaseBegin
<1>4. ASSUME NEW c \in Crews, NEW j \in Jobs, NEW m \in DeviceMutations,
             NEW i \in MutationIds, SyncSee(h, c, j, m, i)
      PROVE  TypeOK'
  BY <1>4, FieldReqType DEF SyncSee, Standing
<1>5. ASSUME NEW c \in Crews, NEW j \in Jobs, NEW p \in Photos,
             AttachSee(h, c, j, p)
      PROVE  TypeOK'
  BY <1>5, FieldReqType DEF AttachSee, Standing
<1>6. ASSUME NEW c \in Crews, NEW j \in Jobs, NEW w \in WrapUpIds,
             NEW ps \in SUBSET Photos, WrapUpBegin(h, c, j, w, ps)
      PROVE  TypeOK'
  BY <1>6, FieldReqType DEF WrapUpBegin
<1>7. QED
  BY <1>1, <1>2, <1>3, <1>4, <1>5, <1>6 DEF Request

(* Every later step of a request keeps types.                              *)
LEMMA ProceedType ==
  ASSUME TypeOK, NEW h \in Handlers, TxReads(h), Proceed(h) PROVE TypeOK'
<1> USE DEF TypeOK
<1>0. /\ pc[h] # "idle" => req[h].job \in Jobs
      /\ pc[h] \in {"assign_write", "sync_wait", "sync_write", "wrapup_wait"}
           => req[h].crew \in Crews
      /\ pc[h] \in {"sync_wait", "sync_write"} =>
           req[h].id \in MutationIds /\ req[h].mut \in DeviceMutations
      /\ pc[h] = "wrapup_wait" => req[h].id \in WrapUpIds
      /\ pc[h] = "release_row" => row[h] \in Rows
  BY DEF TxReads, SyncPCs
<1>1. CASE CancelSee(h)
  <2>1. row' \in [Handlers -> Rows \cup {None}]
    BY <1>1 DEF CancelSee, LiveRows
  <2>2. pc' \in [Handlers -> PCs]
    BY <1>1 DEF CancelSee, Goto, PCs
  <2>3. QED
    BY <1>1, <2>1, <2>2 DEF CancelSee, db, locks
<1>2. CASE CancelLock(h)
  <2>1. pc' \in [Handlers -> PCs]
    BY <1>2 DEF CancelLock, Goto, PCs
  <2>2. row' \in [Handlers -> Rows \cup {None}]
    BY <1>2 DEF CancelLock
  <2>3. rowLock' \in [Rows -> Handlers \cup {None}]
    BY <1>2 DEF CancelLock
  <2>4. QED
    BY <1>2, <2>1, <2>2, <2>3 DEF CancelLock, db
<1>3. CASE TransitionWrite(h)
  BY <1>3, <1>0, EndType DEF TransitionWrite, Move, Released, ReqType
<1>4. CASE TransitionStale(h)
  BY <1>4, RefuseType DEF TransitionStale
<1>5. CASE AssignLock(h)
  <2>1. CASE state[req[h].job] \notin DISPATCHABLE
    BY <1>5, <2>1, RefuseType DEF AssignLock
  <2>2. CASE state[req[h].job] \in DISPATCHABLE
    <3>1. /\ req[h].job \in Jobs
          /\ LockJob(h, req[h].job) /\ ReadJob(h, req[h].job)
          /\ Goto(h, "assign_write")
          /\ UNCHANGED <<db, answers, req, row, standing>>
      BY <1>5, <2>2, <1>0 DEF AssignLock
    <3>2. QED
      BY <3>1 DEF LockJob, ReadJob, Goto, PCs, db
  <2>3. QED
    BY <2>1, <2>2
<1>6. CASE AssignRefused(h)
  BY <1>6, RefuseType DEF AssignRefused
<1>7. CASE AssignWrite(h)
  <2>1. req[h].job \in Jobs /\ req[h].crew \in Crews
    BY <1>7, <1>0 DEF AssignWrite
  <2>2. asg' \in [Rows -> [job : Jobs \cup {None}, crew : Crews \cup {None},
                          released : BOOLEAN]]
    BY <1>7, <2>1 DEF AssignWrite, Released
  <2>3. /\ state' \in [Jobs -> JobStateWire \cup {"none"}]
        /\ version' \in [Jobs -> Nat]
    <3>1. CASE state[req[h].job] \in DISPATCHABLE
      <4>1. /\ state' = [state EXCEPT ![req[h].job] = "assigned"]
            /\ version' = [version EXCEPT ![req[h].job] = @ + 1]
        BY <1>7, <3>1 DEF AssignWrite
      <4>2. QED
        BY <2>1, <4>1 DEF JobStateWire
    <3>2. CASE state[req[h].job] \notin DISPATCHABLE
      BY <1>7, <3>2 DEF AssignWrite
    <3>3. QED
      BY <3>1, <3>2
  <2>4. tail' \in [Jobs -> [from : JobStateWire \cup {"none"},
                           to : JobStateWire \cup {"none"},
                           by : Crews \cup {None}]]
    BY <1>7, <2>1 DEF AssignWrite, JobStateWire
  <2>5. QED
    BY <1>7, <2>2, <2>3, <2>4, EndType DEF AssignWrite
<1>8. CASE ReleaseLockJob(h)
  BY <1>8, <1>0 DEF ReleaseLockJob, LockJob, ReadJob, Goto, PCs, db
<1>9. CASE ReleaseWrite(h)
  <2> DEFINE mayRelease ==
        /\ ~asg[row[h]].released
        /\ read[h].state = "assigned" /\ state[req[h].job] = "assigned"
  <2>1. CASE ~mayRelease
    BY <1>9, <2>1, RefuseType DEF ReleaseWrite
  <2>2. CASE mayRelease
    <3>1. /\ req[h].job \in Jobs /\ row[h] \in Rows
          /\ asg' = [asg EXCEPT ![row[h]] = Released(row[h])]
          /\ Move(req[h].job, "assigned", "created", None)
          /\ End(h)
          /\ UNCHANGED <<timer, intents, media, wrapUps, answers>>
      BY <1>9, <2>2, <1>0 DEF ReleaseWrite
    <3>2. asg' \in [Rows -> [job : Jobs \cup {None}, crew : Crews \cup {None},
                            released : BOOLEAN]]
      BY <3>1 DEF Released
    <3>3. "assigned" \in JobStateWire /\ "created" \in JobStateWire
      BY DEF JobStateWire
    <3>4. QED
      BY <3>1, <3>2, <3>3, EndType, MoveType
  <2>3. QED
    BY <2>1, <2>2
<1>10. CASE SyncGrant(h)
  BY <1>10, <1>0 DEF SyncGrant, LockJob, ReadJob, Goto, PCs, db
<1>11. CASE SyncStranger(h)
  BY <1>11, <1>0, EndType, OutcomeType DEF SyncStranger, RecordIntent, IntentType
<1>12. CASE SyncMove(h)
  BY <1>12, <1>0, EndType DEF SyncMove, RecordIntent, Move, IntentType,
       Outcomes, DeviceMutations, CONFLICT_POLICIES, DEVICE_TRANSITIONS, JobStateWire
<1>13. CASE SyncRecord(h)
  BY <1>13, <1>0, EndType, OutcomeType DEF SyncRecord, RecordIntent, IntentType
<1>14. CASE SyncRowRefused(h)
  BY <1>14, <1>0, EndType DEF SyncRowRefused, RecordIntent, IntentType, Outcomes
<1>15. CASE SyncDuplicate(h)
  BY <1>15, RefuseType DEF SyncDuplicate
<1>16. CASE attachJobMedia(h)
  <2>1. CASE ~MayAttach(h)
    BY <1>16, <2>1, RefuseType DEF attachJobMedia
  <2>2. CASE MayAttach(h)
    <3>1. /\ media' = [media EXCEPT ![req[h].job] = @ \cup req[h].photos]
          /\ End(h)
          /\ UNCHANGED <<state, version, tail, timer, asg, intents, wrapUps,
                         answers>>
      BY <1>16, <2>2 DEF attachJobMedia
    <3>2. req[h].photos \subseteq Photos
      BY DEF ReqType
    <3>3. media' \in [Jobs -> SUBSET Photos]
      BY <3>1, <3>2
    <3>4. QED
      BY <3>1, <3>3, EndType
  <2>3. QED
    BY <2>1, <2>2
<1>17. CASE WrapUpSee(h)
  BY <1>17 DEF WrapUpSee, Goto, Standing, PCs, db, locks
<1>18. CASE wrapUpJob(h)
  <2>1. /\ req[h].job \in Jobs /\ req[h].crew \in Crews
        /\ req[h].id \in WrapUpIds
    BY <1>18, <1>0 DEF wrapUpJob
  <2>2. wrapUpVerdict(h) \in AnswerType
    BY DEF wrapUpVerdict, AnswerType
  <2>3. answers' \in [WrapUpIds -> AnswerType]
    BY <1>18, <2>1, <2>2 DEF wrapUpJob, Answer
  <2>4. CASE wrapUpVerdict(h) = "closed"
    <3>1. /\ Move(req[h].job, "in_progress", "complete", req[h].crew)
          /\ wrapUps' = [wrapUps EXCEPT ![req[h].id] = req[h].job]
          /\ End(h)
          /\ UNCHANGED <<timer, asg, intents, media>>
      BY <1>18, <2>4 DEF wrapUpJob
    <3>2. "in_progress" \in JobStateWire /\ "complete" \in JobStateWire
      BY DEF JobStateWire
    <3>3. QED
      BY <2>1, <2>3, <3>1, <3>2, EndType, MoveType
  <2>5. CASE wrapUpVerdict(h) # "closed"
    BY <1>18, <2>3, <2>5, EndType DEF wrapUpJob
  <2>6. QED
    BY <2>4, <2>5
<1>19. QED
  BY <1>1, <1>2, <1>3, <1>4, <1>5, <1>6, <1>7, <1>8, <1>9, <1>10, <1>11,
     <1>12, <1>13, <1>14, <1>15, <1>16, <1>17, <1>18 DEF Proceed

(* Every step keeps types.                                                 *)
LEMMA NextType ==
  ASSUME TypeOK, \A h \in Handlers : TxReads(h), [Next]_vars PROVE TypeOK'
<1>1. ASSUME NEW j \in Jobs, createJob(j) PROVE TypeOK'
  BY <1>1 DEF createJob, TypeOK, JobStateWire, locks, txs
<1>2. ASSUME NEW w \in WrapUpIds, WrapUpReplayed(w) PROVE TypeOK'
  BY <1>2 DEF WrapUpReplayed, Answer, AnswerType, TypeOK, db, locks, txs
<1>3. ASSUME NEW h \in Handlers, Abort(h) PROVE TypeOK'
  BY <1>3, RefuseType DEF Abort
<1>4. ASSUME NEW h \in Handlers, DeadlockVictim(h) PROVE TypeOK'
  BY <1>4, RefuseType DEF DeadlockVictim
<1>5. CASE UNCHANGED vars
  BY <1>5 DEF vars, TypeOK
<1>6. QED
  BY <1>1, <1>2, <1>3, <1>4, <1>5, RequestType, ProceedType DEF Next
-----------------------------------------------------------------------------
(* What a step of one handler leaves to the others.                        *)

(* The others' transactions, and the locks they hold, are untouched.       *)
OthersKeepTheirs(h) ==
  \A g \in Handlers \ {h} :
    /\ pc'[g] = pc[g] /\ req'[g] = req[g] /\ row'[g] = row[g]
    /\ read'[g] = read[g] /\ standing'[g] = standing[g]
    /\ \A x \in Jobs : jobLock[x] = g => jobLock'[x] = g
    /\ \A a \in Rows : rowLock[a] = g => rowLock'[a] = g

(* Versions only grow, nothing about a job changes at the same version, a  *)
(* job or a row another handler has locked does not change, and a row      *)
(* never changes jobs.                                                     *)
TablesKept(h) ==
  /\ \A x \in Jobs :
       /\ version[x] <= version'[x]
       /\ state[x] # "none" => state'[x] # "none"
       /\ version'[x] = version[x] =>
            /\ state'[x] = state[x]
            /\ \A a \in Rows : asg'[a].job = x /\ ~asg'[a].released
                              <=> asg[a].job = x /\ ~asg[a].released
       /\ state[x] # "none" /\ jobLock[x] \in Handlers \ {h} =>
            version'[x] = version[x]
  /\ \A a \in Rows : asg[a].job # None =>
       /\ asg'[a].job = asg[a].job
       /\ rowLock[a] \in Handlers \ {h} => asg'[a] = asg[a]

(* Such a step preserves what is known about every other transaction.      *)
LEMMA OthersInv ==
  ASSUME TypeOK, TypeOK', NEW h, NEW g \in Handlers \ {h}, TxInv(g),
         OthersKeepTheirs(h), TablesKept(h)
  PROVE  TxInv(g)'
<1>1. /\ pc'[g] = pc[g] /\ req'[g] = req[g] /\ row'[g] = row[g]
      /\ read'[g] = read[g]
      /\ \A x \in Jobs : jobLock[x] = g => jobLock'[x] = g
      /\ \A a \in Rows : rowLock[a] = g => rowLock'[a] = g
  BY DEF OthersKeepTheirs
<1>2. TxReads(g)'
  BY <1>1, DispatchAssumption DEF TxInv, TxReads, TablesKept
<1>3. TxDecides(g)'
  BY <1>1, <1>2 DEF TxInv, TxReads, TxDecides, TablesKept, TypeOK
<1>4. LocksHold(g)'
  <2>1. ASSUME pc[g] \in {"assign_write", "release_row", "sync_write"}
        PROVE  /\ jobLock'[req[g].job] = g
               /\ state'[req[g].job] = state[req[g].job]
               /\ version'[req[g].job] = version[req[g].job]
    BY <2>1, <1>1 DEF TxInv, TxReads, LocksHold, TablesKept
  <2>2. ASSUME pc[g] = "transition_write", row[g] # None
        PROVE  rowLock'[row[g]] = g /\ asg'[row[g]] = asg[row[g]]
    BY <2>2, <1>1, DispatchAssumption
    DEF TxInv, TxReads, LocksHold, TablesKept
  <2>3. QED
    BY <1>1, <2>1, <2>2 DEF TxInv, LocksHold
<1>5. CancelKnows(g)'
  <2> SUFFICES ASSUME pc[g] \in {"cancel_lock", "transition_write"},
                      StillAsRead(g)'
               PROVE  /\ pc[g] = "cancel_lock" => ~asg'[row[g]].released
                      /\ (pc[g] = "transition_write"
                          /\ req[g].to = "cancelled" /\ row[g] = None)
                           => \A a \in Rows : ~(/\ asg'[a].job = req[g].job
                                                /\ ~asg'[a].released)
    BY <1>1 DEF CancelKnows, LiveRows
  <2>1. PICK x \in Jobs : x = req[g].job /\ read[g].version <= version[x]
    BY DEF TxInv, TxReads, TxDecides
  <2>2. state'[x] = read[g].state /\ version'[x] = read[g].version
    BY <1>1, <2>1 DEF StillAsRead
  <2>3. read[g].version \in Nat /\ version[x] \in Nat /\ version'[x] \in Nat
    BY DEF TypeOK
  <2>4. version[x] <= version'[x]
    BY DEF TablesKept
  <2>5. version'[x] = version[x]
    BY <2>1, <2>2, <2>3, <2>4
  <2>6. /\ state'[x] = state[x]
        /\ \A a \in Rows : asg'[a].job = x /\ ~asg'[a].released
                          <=> asg[a].job = x /\ ~asg[a].released
    BY <2>5 DEF TablesKept
  <2>7. StillAsRead(g)
    BY <2>1, <2>2, <2>5, <2>6 DEF StillAsRead
  <2>8. CASE pc[g] = "cancel_lock"
    <3>1. row[g] \in Rows /\ asg[row[g]].job = x
      BY <2>1, <2>8 DEF TxInv, TxReads
    <3>2. ~asg[row[g]].released
      BY <2>7, <2>8 DEF TxInv, CancelKnows
    <3>3. QED
      BY <2>6, <2>8, <3>1, <3>2
  <2>9. CASE pc[g] = "transition_write"
    BY <2>1, <2>6, <2>7, <2>9 DEF TxInv, CancelKnows, LiveRows
  <2>10. QED
    BY <2>8, <2>9
<1>6. QED
  BY <1>2, <1>3, <1>4, <1>5 DEF TxInv

-----------------------------------------------------------------------------
(* Steps that leave the jobs and their crews alone.                        *)

(* A step that leaves jobs and crews alone keeps what is said of them.     *)
LEMMA QuietKept ==
  ASSUME IInv, NEW h, UNCHANGED <<state, version, tail, timer, asg>>
  PROVE  /\ TablesKept(h)
         /\ CrewMatchesState' /\ DispatchedIsAnswered' /\ TablesAgree'
<1>1. TablesKept(h)
  BY DEF IInv, TypeOK, TablesKept
<1>2. CrewMatchesState'
  BY DEF IInv, CrewMatchesState, LiveRows
<1>3. DispatchedIsAnswered' /\ TablesAgree'
  BY DEF IInv, DispatchedIsAnswered, TablesAgree
<1>4. QED
  BY <1>1, <1>2, <1>3

(* A transaction that has ended holds nothing and owes nothing.            *)
LEMMA EndInv ==
  ASSUME TypeOK, NEW h \in Handlers, End(h)
  PROVE  TxInv(h)' /\ OthersKeepTheirs(h)
<1>1. pc'[h] = "idle" /\ row'[h] = None
  BY DEF TypeOK, End, Forget
<1>2. TxInv(h)'
  BY <1>1 DEF TxInv, TxReads, TxDecides, LocksHold, CancelKnows, SyncPCs
<1>3. OthersKeepTheirs(h)
  BY DEF TypeOK, End, Forget, OthersKeepTheirs
<1>4. QED
  BY <1>2, <1>3

(* The pieces of the invariant put together again after a step.            *)
LEMMA StepInv ==
  ASSUME IInv, TypeOK', NEW h \in Handlers, TxInv(h)',
         OthersKeepTheirs(h), TablesKept(h),
         CrewMatchesState', DispatchedIsAnswered', TablesAgree'
  PROVE  IInv'
<1>1. ASSUME NEW g \in Handlers PROVE TxInv(g)'
  <2>1. CASE g = h
    BY <2>1
  <2>2. CASE g # h
    BY <2>2, OthersInv DEF IInv
  <2>3. QED
    BY <2>1, <2>2
<1>2. QED
  BY <1>1 DEF IInv

(* A transaction that ends having changed no job or crew.                  *)
LEMMA QuietEnd ==
  ASSUME IInv, TypeOK', NEW h \in Handlers, End(h),
         UNCHANGED <<state, version, tail, timer, asg>>
  PROVE  IInv'
BY QuietKept, EndInv, StepInv DEF IInv

(* A refused request leaves the invariant as it found it.                  *)
LEMMA RefuseInv ==
  ASSUME IInv, NEW h \in Handlers, Refuse(h) PROVE IInv'
<1>1. TypeOK'
  BY RefuseType DEF IInv
<1>2. End(h) /\ UNCHANGED <<state, version, tail, timer, asg>>
  BY DEF Refuse, db
<1>3. QED
  BY <1>1, <1>2, QuietEnd

(* The invariant holds with no job open.                                   *)
LEMMA InitInv == Init => IInv
<1> SUFFICES ASSUME Init PROVE IInv
  OBVIOUS
<1>1. TypeOK
  BY InitType
<1>2. ASSUME NEW h \in Handlers PROVE TxInv(h)
  BY DEF Init, TxInv, TxReads, TxDecides, LocksHold, CancelKnows, SyncPCs
<1>3. CrewMatchesState
  BY DispatchAssumption DEF Init, CrewMatchesState, UncrewedStates, LiveRows, NoRow
<1>4. DispatchedIsAnswered /\ TablesAgree
  BY DEF Init, DispatchedIsAnswered, TablesAgree, UncrewedStates, NoEvent,
         NoRow
<1>5. QED
  BY <1>1, <1>2, <1>3, <1>4 DEF IInv
-----------------------------------------------------------------------------
(* Requests that begin.                                                    *)

(* A request may begin at any time.                                        *)
LEMMA RequestInv ==
  ASSUME IInv, NEW h \in Handlers, Request(h) PROVE IInv'
<1> USE DEF IInv, TypeOK, Begin
<1>1. ASSUME NEW j \in Jobs, NEW to \in JobStateWire,
             TransitionRead(h, j, to)
      PROVE  TxInv(h)' /\ OthersKeepTheirs(h)
  <2>1. OthersKeepTheirs(h)
    BY <1>1 DEF TransitionRead, ReadJob, OthersKeepTheirs, locks
  <2>2. TxInv(h)'
    BY <1>1 DEF TransitionRead, ReadJob, OfficeReq, StillAsRead, db, locks,
         TxInv, TxReads, TxDecides, LocksHold, CancelKnows, SyncPCs
  <2>3. QED
    BY <2>1, <2>2
<1>2. ASSUME NEW j \in Jobs, NEW c \in Crews,
             AssignBegin(h, j, c)
      PROVE  TxInv(h)' /\ OthersKeepTheirs(h)
  <2>1. OthersKeepTheirs(h)
    BY <1>2 DEF AssignBegin, OthersKeepTheirs, locks
  <2>2. TxInv(h)'
    BY <1>2 DEF AssignBegin, OfficeReq, db, locks,
         TxInv, TxReads, TxDecides, LocksHold, CancelKnows, SyncPCs
  <2>3. QED
    BY <2>1, <2>2
<1>3. ASSUME NEW a \in Rows,
             ReleaseBegin(h, a)
      PROVE  TxInv(h)' /\ OthersKeepTheirs(h)
  <2>1. OthersKeepTheirs(h)
    BY <1>3 DEF ReleaseBegin, OthersKeepTheirs, locks
  <2>2. TxInv(h)'
    BY <1>3 DEF ReleaseBegin, OfficeReq, TablesAgree, db, locks,
         TxInv, TxReads, TxDecides, LocksHold, CancelKnows, SyncPCs
  <2>3. QED
    BY <2>1, <2>2
<1>4. ASSUME NEW c \in Crews, NEW j \in Jobs, NEW m \in DeviceMutations,
             NEW i \in MutationIds,
             SyncSee(h, c, j, m, i)
      PROVE  TxInv(h)' /\ OthersKeepTheirs(h)
  <2>1. OthersKeepTheirs(h)
    BY <1>4 DEF SyncSee, OthersKeepTheirs, locks
  <2>2. TxInv(h)'
    BY <1>4 DEF SyncSee, FieldReq, db, locks,
         TxInv, TxReads, TxDecides, LocksHold, CancelKnows, SyncPCs
  <2>3. QED
    BY <2>1, <2>2
<1>5. ASSUME NEW c \in Crews, NEW j \in Jobs, NEW p \in Photos,
             AttachSee(h, c, j, p)
      PROVE  TxInv(h)' /\ OthersKeepTheirs(h)
  <2>1. OthersKeepTheirs(h)
    BY <1>5 DEF AttachSee, OthersKeepTheirs, locks
  <2>2. TxInv(h)'
    BY <1>5 DEF AttachSee, FieldReq, db, locks,
         TxInv, TxReads, TxDecides, LocksHold, CancelKnows, SyncPCs
  <2>3. QED
    BY <2>1, <2>2
<1>6. ASSUME NEW c \in Crews, NEW j \in Jobs, NEW w \in WrapUpIds,
             NEW ps \in SUBSET Photos,
             WrapUpBegin(h, c, j, w, ps)
      PROVE  TxInv(h)' /\ OthersKeepTheirs(h)
  <2>1. OthersKeepTheirs(h)
    BY <1>6 DEF WrapUpBegin, OthersKeepTheirs, locks
  <2>2. TxInv(h)'
    BY <1>6 DEF WrapUpBegin, FieldReq, db, locks,
         TxInv, TxReads, TxDecides, LocksHold, CancelKnows, SyncPCs
  <2>3. QED
    BY <2>1, <2>2
<1>7. TxInv(h)' /\ OthersKeepTheirs(h)
  BY <1>1, <1>2, <1>3, <1>4, <1>5, <1>6 DEF Request
<1>8. UNCHANGED <<state, version, tail, timer, asg>>
  BY DEF Request, TransitionRead, AssignBegin, ReleaseBegin, SyncSee,
         AttachSee, WrapUpBegin, db
<1>9. TypeOK'
  BY RequestType
<1>10. QED
  BY <1>7, <1>8, <1>9, QuietKept, StepInv
-----------------------------------------------------------------------------
(* Steps that read and lock.                                               *)

(* Taking a job's lock when no one else holds it.                          *)
LEMMA LockJobOthers ==
  ASSUME TypeOK, NEW h \in Handlers, NEW j \in Jobs, Unlocked(jobLock[j], h),
         NEW label, LockJob(h, j), ReadJob(h, j), Goto(h, label),
         UNCHANGED <<req, row, standing>>
  PROVE  OthersKeepTheirs(h) /\ jobLock'[j] = h
BY DispatchAssumption DEF TypeOK, Unlocked, LockJob, ReadJob, Goto, OthersKeepTheirs

(* A cancellation that looks for the crew knows what it saw.               *)
LEMMA CancelSeeInv ==
  ASSUME IInv, NEW h \in Handlers, CancelSee(h)
  PROVE  TxInv(h)' /\ OthersKeepTheirs(h)
<1> USE DEF IInv, TypeOK
<1>1. TxInv(h) /\ pc[h] = "cancel_see" /\ row[h] = None /\ req[h].job \in Jobs
  BY DEF CancelSee, TxInv, TxReads, TxDecides
<1>2. OthersKeepTheirs(h)
  BY DEF CancelSee, Goto, OthersKeepTheirs, locks
<1>3. CASE row' = row
  <2>1. LiveRows(req[h].job) = {} /\ pc'[h] = "transition_write"
    <3>1. ASSUME NEW a \in LiveRows(req[h].job), row' = [row EXCEPT ![h] = a]
          PROVE  FALSE
      BY <1>1, <1>3, <3>1, DispatchAssumption DEF LiveRows
    <3>2. QED
      BY <3>1 DEF CancelSee, Goto
  <2>2. QED
    BY <1>1, <1>2, <1>3, <2>1 DEF CancelSee, db, locks, TxInv, TxReads,
         TxDecides, LocksHold, CancelKnows, StillAsRead, LiveRows, SyncPCs
<1>4. CASE row' # row
  <2>1. PICK a \in LiveRows(req[h].job) : row' = [row EXCEPT ![h] = a]
    BY <1>4 DEF CancelSee
  <2>2. pc'[h] = "cancel_lock"
    BY <1>4 DEF CancelSee, Goto
  <2>3. row'[h] = a /\ a \in Rows /\ asg[a].job = req[h].job /\ ~asg[a].released
    BY <2>1 DEF LiveRows
  <2>4. QED
    BY <1>1, <1>2, <2>2, <2>3 DEF CancelSee, db, locks, TxInv, TxReads,
         TxDecides, LocksHold, CancelKnows, StillAsRead, SyncPCs
<1>5. QED
  BY <1>3, <1>4

(* Having waited for the crew's row, it still knows it.                    *)
LEMMA CancelLockInv ==
  ASSUME IInv, NEW h \in Handlers, CancelLock(h)
  PROVE  TxInv(h)' /\ OthersKeepTheirs(h)
<1> USE DEF IInv, TypeOK
<1>1. /\ TxInv(h) /\ pc[h] = "cancel_lock" /\ req[h].job \in Jobs
      /\ row[h] \in Rows /\ asg[row[h]].job = req[h].job
  BY DEF CancelLock, TxInv, TxReads
<1>2. OthersKeepTheirs(h)
  BY <1>1, DispatchAssumption
  DEF CancelLock, Goto, Unlocked, OthersKeepTheirs
<1>3. /\ pc'[h] = "transition_write"
      /\ UNCHANGED <<state, version, asg, jobLock, req, read>>
  BY DEF CancelLock, Goto, db
<1>4. CASE ~asg[row[h]].released
  <2>1. row' = row /\ rowLock'[row[h]] = h
    BY <1>1, <1>4 DEF CancelLock
  <2>2. QED
    BY <1>1, <1>2, <1>3, <1>4, <2>1, DispatchAssumption
    DEF TxInv, TxReads, TxDecides, LocksHold, CancelKnows, SyncPCs
<1>5. CASE asg[row[h]].released
  <2>1. row'[h] = None
    BY <1>1, <1>5 DEF CancelLock
  <2>2. ~StillAsRead(h)
    BY <1>1, <1>5 DEF TxInv, CancelKnows
  <2>3. ~StillAsRead(h)'
    BY <1>3, <2>2 DEF StillAsRead
  <2>4. QED
    BY <1>1, <1>2, <1>3, <2>1, <2>3
    DEF TxInv, TxReads, TxDecides, LocksHold, CancelKnows, SyncPCs
<1>6. QED
  BY <1>4, <1>5

(* An assignment reads the job under its lock.                             *)
LEMMA AssignLockInv ==
  ASSUME IInv, NEW h \in Handlers, AssignLock(h),
         state[req[h].job] \in DISPATCHABLE
  PROVE  TxInv(h)' /\ OthersKeepTheirs(h)
<1> USE DEF IInv, TypeOK
<1>1. /\ TxInv(h) /\ pc[h] = "assign_lock" /\ req[h].job \in Jobs
      /\ Unlocked(jobLock[req[h].job], h)
      /\ LockJob(h, req[h].job) /\ ReadJob(h, req[h].job)
      /\ Goto(h, "assign_write")
      /\ UNCHANGED <<db, answers, req, row, standing>>
  BY DEF AssignLock, TxInv, TxReads
<1>2. OthersKeepTheirs(h) /\ jobLock'[req[h].job] = h
  BY <1>1, LockJobOthers
<1>3. QED
  BY <1>1, <1>2 DEF ReadJob, Goto, db, TxInv, TxReads, TxDecides, LocksHold,
       CancelKnows, SyncPCs

(* A release reads the job under its lock.                                 *)
LEMMA ReleaseLockJobInv ==
  ASSUME IInv, NEW h \in Handlers, ReleaseLockJob(h)
  PROVE  TxInv(h)' /\ OthersKeepTheirs(h)
<1> USE DEF IInv, TypeOK
<1>1. /\ TxInv(h) /\ pc[h] = "release_job" /\ req[h].job \in Jobs
      /\ Unlocked(jobLock[req[h].job], h)
      /\ LockJob(h, req[h].job) /\ ReadJob(h, req[h].job)
      /\ Goto(h, "release_row")
      /\ UNCHANGED <<db, answers, req, row, standing>>
  BY DEF ReleaseLockJob, TxInv, TxReads
<1>2. OthersKeepTheirs(h) /\ jobLock'[req[h].job] = h
  BY <1>1, LockJobOthers
<1>3. QED
  BY <1>1, <1>2 DEF ReadJob, Goto, db, TxInv, TxReads, TxDecides, LocksHold,
       CancelKnows, SyncPCs

(* A replayed mutation reads the job under its lock.                       *)
LEMMA SyncGrantInv ==
  ASSUME IInv, NEW h \in Handlers, SyncGrant(h)
  PROVE  TxInv(h)' /\ OthersKeepTheirs(h)
<1> USE DEF IInv, TypeOK
<1>1. /\ TxInv(h) /\ pc[h] = "sync_wait" /\ req[h].job \in Jobs
      /\ Unlocked(jobLock[req[h].job], h)
      /\ LockJob(h, req[h].job) /\ ReadJob(h, req[h].job)
      /\ Goto(h, "sync_write")
      /\ UNCHANGED <<db, answers, req, row, standing>>
  BY DEF SyncGrant, TxInv, TxReads
<1>2. OthersKeepTheirs(h) /\ jobLock'[req[h].job] = h
  BY <1>1, LockJobOthers
<1>3. QED
  BY <1>1, <1>2 DEF ReadJob, Goto, db, TxInv, TxReads, TxDecides, LocksHold,
       CancelKnows, SyncPCs

(* A completion report that waits for its job has decided nothing yet.     *)
LEMMA WrapUpSeeInv ==
  ASSUME IInv, NEW h \in Handlers, WrapUpSee(h)
  PROVE  TxInv(h)' /\ OthersKeepTheirs(h)
<1> USE DEF IInv, TypeOK
<1>1. TxInv(h) /\ pc[h] = "wrapup_see" /\ pc'[h] = "wrapup_wait"
  BY DEF WrapUpSee, Goto
<1>2. OthersKeepTheirs(h)
  BY DEF WrapUpSee, Goto, OthersKeepTheirs, locks
<1>3. QED
  BY <1>1, <1>2 DEF WrapUpSee, db, locks, TxInv, TxReads, TxDecides,
       LocksHold, CancelKnows, SyncPCs
-----------------------------------------------------------------------------
(* The tables.                                                             *)

(* The office's hand neither dispatches a job nor takes it back, except to *)
(* cancel it, and never leaves it where it was.                            *)
LEMMA OfficeEdges ==
  ASSUME NEW from, NEW to \in OfficeMoves(from)
  PROVE  /\ to # from
         /\ to # "cancelled" =>
              (from \in UncrewedStates <=> to \in UncrewedStates)
BY DEF OfficeMoves, OFFICE_JOB_TRANSITIONS, UncrewedStates

(* A transition a device applies is an edge of the domain's table, between *)
(* two states of a dispatched job.                                         *)
LEMMA DeviceEdges ==
  ASSUME NEW from \in JobStateWire, NEW to,
         ResolveTransition(from, to) = "applied"
  PROVE  /\ to \in JOB_TRANSITIONS[from]
         /\ to # from
         /\ to \in JobStateWire
         /\ from \notin UncrewedStates /\ to \notin UncrewedStates
BY DEF ResolveTransition, DEVICE_TRANSITIONS, JOB_TRANSITIONS, JobStateWire,
       UncrewedStates

-----------------------------------------------------------------------------
(* Steps that move a job.                                                  *)

(* A move that changes no crew, between two dispatched states, between two *)
(* others, or out of a job that has nobody.                                *)
LEMMA MoveKept ==
  ASSUME IInv, NEW h \in Handlers, NEW j \in Jobs, Unlocked(jobLock[j], h),
         state[j] # "none", NEW to \in JobStateWire, NEW by,
         Move(j, state[j], to, by), UNCHANGED <<asg, timer>>,
         \/ state[j] \in UncrewedStates <=> to \in UncrewedStates
         \/ LiveRows(j) = {} /\ to \in UncrewedStates
  PROVE  /\ TablesKept(h)
         /\ CrewMatchesState' /\ DispatchedIsAnswered' /\ TablesAgree'
<1> USE DEF IInv, TypeOK
<1>1. /\ state' = [state EXCEPT ![j] = to]
      /\ version' = [version EXCEPT ![j] = @ + 1]
      /\ tail' = [tail EXCEPT ![j] = [from |-> state[j], to |-> to, by |-> by]]
  BY DEF Move
<1>2. to # "none"
  BY DEF JobStateWire
<1>3. TablesKept(h)
  BY <1>1, <1>2, DispatchAssumption DEF TablesKept, Unlocked
<1>4. CrewMatchesState'
  <2> SUFFICES ASSUME NEW x \in Jobs
               PROVE  IF state'[x] \in UncrewedStates THEN LiveRows(x) = {}
                      ELSE \E a \in Rows : LiveRows(x) = {a}
    BY DEF CrewMatchesState, LiveRows
  <2>1. CASE x = j
    BY <1>1, <2>1 DEF CrewMatchesState
  <2>2. CASE x # j
    BY <1>1, <2>2 DEF CrewMatchesState
  <2>3. QED
    BY <2>1, <2>2
<1>5. DispatchedIsAnswered'
  BY <1>1 DEF DispatchedIsAnswered
<1>6. TablesAgree'
  BY <1>1, <1>2 DEF TablesAgree
<1>7. QED
  BY <1>3, <1>4, <1>5, <1>6

(* A move that takes the job's crew off it and leaves it undispatched.     *)
LEMMA ReleaseKept ==
  ASSUME IInv, NEW h \in Handlers, NEW j \in Jobs, Unlocked(jobLock[j], h),
         NEW b \in Rows, asg[b].job = j, ~asg[b].released,
         Unlocked(rowLock[b], h),
         NEW to \in JobStateWire, to \in UncrewedStates, NEW by,
         Move(j, state[j], to, by), UNCHANGED timer,
         asg' = [asg EXCEPT ![b] = Released(b)]
  PROVE  /\ TablesKept(h)
         /\ CrewMatchesState' /\ DispatchedIsAnswered' /\ TablesAgree'
<1> USE DEF IInv, TypeOK
<1>1. /\ state' = [state EXCEPT ![j] = to]
      /\ version' = [version EXCEPT ![j] = @ + 1]
      /\ tail' = [tail EXCEPT ![j] = [from |-> state[j], to |-> to, by |-> by]]
  BY DEF Move
<1>2. to # "none"
  BY DEF JobStateWire
<1>3. /\ asg'[b].job = j /\ asg'[b].released
      /\ \A a \in Rows : a # b => asg'[a] = asg[a]
  BY DEF Released
<1>4. TablesKept(h)
  BY <1>1, <1>2, <1>3, DispatchAssumption DEF TablesKept, Unlocked
<1>5. LiveRows(j) = {b}
  <2>1. b \in LiveRows(j)
    BY DEF LiveRows
  <2>2. PICK a \in Rows : LiveRows(j) = {a}
    BY <2>1 DEF CrewMatchesState
  <2>3. QED
    BY <2>1, <2>2
<1>6. CrewMatchesState'
  <2>1. \A a \in Rows : ~(asg'[a].job = j /\ ~asg'[a].released)
    BY <1>3, <1>5 DEF LiveRows
  <2>2. LiveRows(j)' = {}
    BY <2>1 DEF LiveRows
  <2>3. ASSUME NEW x \in Jobs, x # j PROVE LiveRows(x)' = LiveRows(x)
    BY <2>3, <1>3 DEF LiveRows
  <2>4. QED
    BY <1>1, <2>2, <2>3 DEF CrewMatchesState
<1>7. DispatchedIsAnswered'
  BY <1>1 DEF DispatchedIsAnswered
<1>8. TablesAgree'
  BY <1>1, <1>2, <1>3 DEF TablesAgree
<1>9. QED
  BY <1>4, <1>6, <1>7, <1>8

(* What the steps that move a job establish about the tables.              *)
LEMMA TransitionWriteKept ==
  ASSUME IInv, NEW h \in Handlers, TransitionWrite(h)
  PROVE  /\ TablesKept(h)
         /\ CrewMatchesState' /\ DispatchedIsAnswered' /\ TablesAgree'
<1> USE DEF IInv, TypeOK
<1>1. PICK j \in Jobs : j = req[h].job
  BY DEF TransitionWrite, TxInv, TxReads
<1>2. /\ TxInv(h) /\ pc[h] = "transition_write"
      /\ Unlocked(jobLock[j], h)
      /\ StillAsRead(h)
      /\ Move(j, read[h].state, req[h].to, None)
      /\ asg' = [a \in Rows |-> IF a = row[h] THEN Released(a) ELSE asg[a]]
      /\ UNCHANGED timer
  BY <1>1 DEF TransitionWrite
<1>3. state[j] = read[h].state /\ state[j] # "none"
  BY <1>1, <1>2 DEF StillAsRead, TxInv, TxDecides
<1>4. req[h].to \in OfficeMoves(state[j]) /\ req[h].to \in JobStateWire
  BY <1>2, <1>3, OfficeMovesType DEF TxInv, TxDecides
<1>5. Move(j, state[j], req[h].to, None)
  BY <1>2, <1>3
<1>6. CASE row[h] = None
  <2>1. asg' = asg
    BY <1>2, <1>6, DispatchAssumption
  <2>2. CASE req[h].to # "cancelled"
    <3> HIDE DEF IInv, TypeOK
    <3>1. state[j] \in UncrewedStates <=> req[h].to \in UncrewedStates
      BY <1>4, <2>2, OfficeEdges
    <3>2. QED
      BY <1>2, <1>3, <1>4, <1>5, <2>1, <3>1, MoveKept
  <2>3. CASE req[h].to = "cancelled"
    <3>1. LiveRows(j) = {}
      BY <1>1, <1>2, <1>6, <2>3 DEF TxInv, CancelKnows
    <3>2. req[h].to \in UncrewedStates
      BY <2>3 DEF UncrewedStates
    <3> HIDE DEF IInv, TypeOK
    <3>3. QED
      BY <1>2, <1>3, <1>4, <1>5, <2>1, <3>1, <3>2, MoveKept
  <2>4. QED
    BY <2>2, <2>3
<1>7. CASE row[h] # None
  <2>1. /\ row[h] \in Rows /\ rowLock[row[h]] = h
        /\ asg[row[h]].job = j /\ ~asg[row[h]].released
        /\ req[h].to = "cancelled"
    BY <1>1, <1>2, <1>7 DEF TxInv, LocksHold, TxDecides
  <2>2. req[h].to \in UncrewedStates /\ Unlocked(rowLock[row[h]], h)
    BY <2>1 DEF UncrewedStates, Unlocked
  <2>3. asg' = [asg EXCEPT ![row[h]] = Released(row[h])]
    BY <1>2, <2>1
  <2> HIDE DEF IInv, TypeOK
  <2>4. QED
    BY <1>2, <1>4, <1>5, <2>1, <2>2, <2>3, ReleaseKept
<1>8. QED
  BY <1>6, <1>7

(* A release takes the only crew off, and the job with it.                 *)
LEMMA ReleaseWriteKept ==
  ASSUME IInv, NEW h \in Handlers, ReleaseWrite(h),
         ~asg[row[h]].released,
         read[h].state = "assigned" /\ state[req[h].job] = "assigned"
  PROVE  /\ End(h) /\ TablesKept(h)
         /\ CrewMatchesState' /\ DispatchedIsAnswered' /\ TablesAgree'
<1>1. PICK j \in Jobs, b \in Rows :
        /\ j = req[h].job /\ b = row[h]
        /\ asg[b].job = j /\ jobLock[j] = h
  BY DEF IInv, TypeOK, ReleaseWrite, TxInv, TxReads, LocksHold
<1>2. /\ Unlocked(rowLock[row[h]], h)
      /\ asg' = [asg EXCEPT ![row[h]] = Released(row[h])]
      /\ Move(req[h].job, "assigned", "created", None)
      /\ End(h)
      /\ timer' = timer
  BY DEF ReleaseWrite
<1>3. Unlocked(jobLock[j], h)
  BY <1>1 DEF Unlocked
<1>4. "created" \in JobStateWire /\ "created" \in UncrewedStates
  BY DEF JobStateWire, UncrewedStates
<1>5. /\ ~asg[b].released /\ Unlocked(rowLock[b], h)
      /\ asg' = [asg EXCEPT ![b] = Released(b)]
  BY <1>1, <1>2
<1>6. state[j] = "assigned" /\ Move(j, state[j], "created", None)
  BY <1>1, <1>2
<1>7. QED
  BY <1>1, <1>2, <1>3, <1>4, <1>5, <1>6, ReleaseKept

(* A mutation that is applied follows an edge between dispatched states.   *)
LEMMA SyncMoveEdge ==
  ASSUME IInv, NEW h \in Handlers, SyncMove(h)
  PROVE  /\ req[h].job \in Jobs /\ jobLock[req[h].job] = h
         /\ read[h].state = state[req[h].job]
         /\ state[req[h].job] \in JobStateWire
         /\ ResolveTransition(state[req[h].job], req[h].mut.to) = "applied"
<1> USE DEF IInv, TypeOK
<1>1. /\ req[h].job \in Jobs /\ state[req[h].job] # "none"
      /\ jobLock[req[h].job] = h /\ read[h].state = state[req[h].job]
  BY DEF SyncMove, TxInv, TxReads, LocksHold
<1>2. resolveMutation(req[h].mut, read[h].state) = "applied"
  BY DEF SyncMove, ingestOutcome
<1>3. CONFLICT_POLICIES[req[h].mut.table] = "state_machine"
  BY DEF SyncMove, CONFLICT_POLICIES
<1>4. ResolveTransition(read[h].state, req[h].mut.to) = "applied"
  BY <1>2, <1>3 DEF resolveMutation
<1>5. QED
  BY <1>1, <1>4

(* So the crew stays on the job it moves.                                  *)
LEMMA SyncMoveKept ==
  ASSUME IInv, NEW h \in Handlers, SyncMove(h)
  PROVE  /\ TablesKept(h)
         /\ CrewMatchesState' /\ DispatchedIsAnswered' /\ TablesAgree'
<1> DEFINE j == req[h].job
           to == req[h].mut.to
<1>1. /\ j \in Jobs /\ jobLock[j] = h /\ read[h].state = state[j]
      /\ state[j] \in JobStateWire
      /\ ResolveTransition(state[j], to) = "applied"
  BY SyncMoveEdge
<1>2. /\ to \in JobStateWire
      /\ state[j] \notin UncrewedStates /\ to \notin UncrewedStates
  BY <1>1, DeviceEdges
<1>3. /\ Move(j, state[j], to, req[h].crew)
      /\ UNCHANGED <<timer, asg>>
  BY <1>1 DEF SyncMove
<1>4. Unlocked(jobLock[j], h) /\ state[j] # "none"
  BY <1>1 DEF Unlocked, JobStateWire
<1>5. QED
  BY <1>1, <1>2, <1>3, <1>4, MoveKept

(* A report completes the job of the crew that wrote it.                   *)
LEMMA WrapUpKept ==
  ASSUME IInv, NEW h \in Handlers, wrapUpJob(h)
  PROVE  /\ TablesKept(h)
         /\ CrewMatchesState' /\ DispatchedIsAnswered' /\ TablesAgree'
<1> DEFINE j == req[h].job
<1>1. j \in Jobs /\ Unlocked(jobLock[j], h) /\ UNCHANGED <<timer, asg>>
  BY DEF IInv, TypeOK, wrapUpJob, TxInv, TxReads
<1>2. CASE wrapUpVerdict(h) = "closed"
  <2>1. state[j] = "in_progress"
    BY <1>2 DEF wrapUpVerdict
  <2>2. Move(j, state[j], "complete", req[h].crew)
    BY <1>2, <2>1 DEF wrapUpJob
  <2>3. /\ "complete" \in JobStateWire /\ "complete" \notin UncrewedStates
        /\ "in_progress" \notin UncrewedStates
    BY DEF JobStateWire, UncrewedStates
  <2>4. QED
    BY <1>1, <2>1, <2>2, <2>3, MoveKept
<1>3. CASE wrapUpVerdict(h) # "closed"
  BY <1>1, <1>3, QuietKept DEF wrapUpJob
<1>4. QED
  BY <1>2, <1>3

(* An assignment puts one crew on a job that had none.                     *)
LEMMA AssignWriteKept ==
  ASSUME IInv, NEW h \in Handlers, AssignWrite(h)
  PROVE  /\ TablesKept(h)
         /\ CrewMatchesState' /\ DispatchedIsAnswered' /\ TablesAgree'
<1> USE DEF IInv, TypeOK
<1>1. PICK j \in Jobs :
        /\ j = req[h].job /\ jobLock[j] = h
        /\ read[h].state = state[j] /\ state[j] \in DISPATCHABLE
  BY DEF AssignWrite, TxInv, TxReads, LocksHold
<1>2. /\ state' = [state EXCEPT ![j] = "assigned"]
      /\ version' = [version EXCEPT ![j] = @ + 1]
      /\ tail' = [tail EXCEPT ![j] =
                    [from |-> state[j], to |-> "assigned", by |-> None]]
      /\ timer' = [timer EXCEPT ![j] = "satisfied"]
  BY <1>1 DEF AssignWrite
<1>3. \A a \in LiveRows(j) : Unlocked(rowLock[a], h)
  BY <1>1 DEF AssignWrite
<1>4. PICK new \in FreeRows :
        asg' = [a \in Rows |->
          IF a = new
          THEN [job |-> j, crew |-> req[h].crew, released |-> FALSE]
          ELSE IF a \in LiveRows(j) THEN Released(a) ELSE asg[a]]
  BY <1>1 DEF AssignWrite
<1>5. new \in Rows /\ asg[new].job = None
  BY DEF FreeRows
<1>6. asg'[new].job = j /\ ~asg'[new].released
  BY <1>4, <1>5
<1>7. ASSUME NEW a \in Rows, a # new
      PROVE  /\ asg'[a].job = asg[a].job
             /\ a \in LiveRows(j) => asg'[a].released
             /\ a \notin LiveRows(j) => asg'[a] = asg[a]
  BY <1>4, <1>7 DEF Released
<1>8. ASSUME NEW a \in Rows, a # new, asg'[a].job = j PROVE asg'[a].released
  BY <1>7, <1>8 DEF LiveRows
<1>9. TablesKept(h)
  <2>1. ASSUME NEW x \in Jobs
        PROVE  /\ version[x] <= version'[x]
               /\ state[x] # "none" => state'[x] # "none"
               /\ state[x] # "none" /\ jobLock[x] \in Handlers \ {h} =>
                    version'[x] = version[x]
    BY <1>1, <1>2
  <2>2. ASSUME NEW x \in Jobs, version'[x] = version[x]
        PROVE  /\ state'[x] = state[x]
               /\ \A a \in Rows : asg'[a].job = x /\ ~asg'[a].released
                                 <=> asg[a].job = x /\ ~asg[a].released
    <3>1. x # j
      BY <1>2, <2>2
    <3>2. ASSUME NEW a \in Rows
          PROVE  asg'[a].job = x /\ ~asg'[a].released
                   <=> asg[a].job = x /\ ~asg[a].released
      <4>1. CASE a = new
        BY <1>5, <1>6, <3>1, <4>1, DispatchAssumption
      <4>2. CASE a # new
        BY <1>7, <3>1, <4>2 DEF LiveRows
      <4>3. QED
        BY <4>1, <4>2
    <3>3. QED
      BY <1>2, <3>1, <3>2
  <2>3. ASSUME NEW a \in Rows, asg[a].job # None
        PROVE  /\ asg'[a].job = asg[a].job
               /\ rowLock[a] \in Handlers \ {h} => asg'[a] = asg[a]
    BY <1>3, <1>5, <1>7, <2>3, DispatchAssumption DEF Unlocked
  <2>4. QED
    BY <2>1, <2>2, <2>3 DEF TablesKept
<1>10. CrewMatchesState'
  <2>1. LiveRows(j)' = {new}
    BY <1>5, <1>6, <1>8 DEF LiveRows
  <2>2. "assigned" \notin UncrewedStates
    BY DEF UncrewedStates
  <2>3. ASSUME NEW x \in Jobs, x # j PROVE LiveRows(x)' = LiveRows(x)
    <3>1. ASSUME NEW a \in Rows PROVE a \in LiveRows(x)' <=> a \in LiveRows(x)
      <4>1. CASE a = new
        BY <1>5, <1>6, <2>3, <4>1, DispatchAssumption DEF LiveRows
      <4>2. CASE a # new
        BY <1>7, <2>3, <4>2 DEF LiveRows
      <4>3. QED
        BY <4>1, <4>2
    <3>2. QED
      BY <3>1 DEF LiveRows
  <2>4. QED
    BY <1>2, <1>5, <2>1, <2>2, <2>3 DEF CrewMatchesState
<1>11. DispatchedIsAnswered'
  BY <1>2 DEF DispatchedIsAnswered
<1>12. TablesAgree'
  <2>1. state[j] # "none"
    BY <1>1 DEF DISPATCHABLE
  <2>2. QED
    BY <1>2, <1>6, <1>7, <2>1 DEF TablesAgree
<1>13. QED
  BY <1>9, <1>10, <1>11, <1>12

-----------------------------------------------------------------------------
(* The invariant is inductive.                                             *)

(* Every later step of a request keeps the invariant.                      *)
LEMMA ProceedInv ==
  ASSUME IInv, NEW h \in Handlers, Proceed(h) PROVE IInv'
<1>0. TypeOK'
  BY ProceedType DEF IInv, TxInv
<1>1. CASE CancelSee(h)
  BY <1>0, <1>1, CancelSeeInv, QuietKept, StepInv DEF CancelSee, db
<1>2. CASE CancelLock(h)
  BY <1>0, <1>2, CancelLockInv, QuietKept, StepInv DEF CancelLock, db
<1>3. CASE TransitionWrite(h)
  BY <1>0, <1>3, TransitionWriteKept, EndInv, StepInv DEF TransitionWrite, IInv
<1>4. CASE TransitionStale(h)
  BY <1>4, RefuseInv DEF TransitionStale
<1>5. CASE AssignLock(h)
  <2>1. CASE state[req[h].job] \in DISPATCHABLE
    <3>1. UNCHANGED db
      BY <1>5, <2>1 DEF AssignLock
    <3>2. UNCHANGED <<state, version, tail, timer, asg>>
      BY <3>1 DEF db
    <3>3. QED
      BY <1>0, <1>5, <2>1, <3>2, AssignLockInv, QuietKept, StepInv
  <2>2. CASE state[req[h].job] \notin DISPATCHABLE
    BY <1>5, <2>2, RefuseInv DEF AssignLock
  <2>3. QED
    BY <2>1, <2>2
<1>6. CASE AssignRefused(h)
  BY <1>6, RefuseInv DEF AssignRefused
<1>7. CASE AssignWrite(h)
  BY <1>0, <1>7, AssignWriteKept, EndInv, StepInv DEF AssignWrite, IInv
<1>8. CASE ReleaseLockJob(h)
  BY <1>0, <1>8, ReleaseLockJobInv, QuietKept, StepInv DEF ReleaseLockJob, db
<1>9. CASE ReleaseWrite(h)
  <2> DEFINE mayRelease ==
        /\ ~asg[row[h]].released
        /\ read[h].state = "assigned" /\ state[req[h].job] = "assigned"
  <2>1. CASE ~mayRelease
    BY <1>9, <2>1, RefuseInv DEF ReleaseWrite
  <2>2. CASE mayRelease
    BY <1>0, <1>9, <2>2, ReleaseWriteKept, EndInv, StepInv DEF IInv
  <2>3. QED
    BY <2>1, <2>2
<1>10. CASE SyncGrant(h)
  BY <1>0, <1>10, SyncGrantInv, QuietKept, StepInv DEF SyncGrant, db
<1>11. CASE SyncStranger(h)
  BY <1>0, <1>11, QuietEnd DEF SyncStranger
<1>12. CASE SyncMove(h)
  BY <1>0, <1>12, SyncMoveKept, EndInv, StepInv DEF SyncMove, IInv
<1>13. CASE SyncRecord(h)
  BY <1>0, <1>13, QuietEnd DEF SyncRecord
<1>14. CASE SyncRowRefused(h)
  BY <1>0, <1>14, QuietEnd DEF SyncRowRefused
<1>15. CASE SyncDuplicate(h)
  BY <1>15, RefuseInv DEF SyncDuplicate
<1>16. CASE attachJobMedia(h)
  <2>1. CASE MayAttach(h)
    <3>1. End(h) /\ UNCHANGED <<state, version, tail, timer, asg>>
      BY <1>16, <2>1 DEF attachJobMedia
    <3>2. QED
      BY <1>0, <3>1, QuietEnd
  <2>2. CASE ~MayAttach(h)
    BY <1>16, <2>2, RefuseInv DEF attachJobMedia
  <2>3. QED
    BY <2>1, <2>2
<1>17. CASE WrapUpSee(h)
  BY <1>0, <1>17, WrapUpSeeInv, QuietKept, StepInv DEF WrapUpSee, db
<1>18. CASE wrapUpJob(h)
  BY <1>0, <1>18, WrapUpKept, EndInv, StepInv DEF wrapUpJob, IInv
<1>19. QED
  BY <1>1, <1>2, <1>3, <1>4, <1>5, <1>6, <1>7, <1>8, <1>9, <1>10, <1>11,
     <1>12, <1>13, <1>14, <1>15, <1>16, <1>17, <1>18 DEF Proceed

(* Opening a job disturbs no one.                                          *)
LEMMA CreateInv ==
  ASSUME IInv, NEW j \in Jobs, createJob(j) PROVE IInv'
<1> USE DEF IInv, TypeOK
<1>1. /\ state[j] = "none"
      /\ state' = [state EXCEPT ![j] = "created"]
      /\ version' = [version EXCEPT ![j] = 1]
      /\ timer' = [timer EXCEPT ![j] = "open"]
      /\ UNCHANGED <<tail, asg, jobLock, rowLock, pc, req, row, read, standing>>
  BY DEF createJob, locks, txs
<1>2. TypeOK'
  BY <1>1 DEF createJob, JobStateWire
<1>3. OthersKeepTheirs(None) /\ TablesKept(None)
  BY <1>1 DEF OthersKeepTheirs, TablesKept, TablesAgree
<1>4. \A h \in Handlers : TxInv(h)'
  <2>1. TypeOK /\ \A h \in Handlers : h \in Handlers \ {None} /\ TxInv(h)
    BY DispatchAssumption
  <2> HIDE DEF IInv, TypeOK
  <2>2. QED
    BY <1>2, <1>3, <2>1, OthersInv
<1>5. CrewMatchesState'
  <2>1. \A x \in Jobs : LiveRows(x)' = LiveRows(x)
    BY <1>1 DEF LiveRows
  <2>2. LiveRows(j) = {}
    BY <1>1 DEF CrewMatchesState, UncrewedStates
  <2>3. \A x \in Jobs : x # j => state'[x] = state[x]
    BY <1>1
  <2>4. state'[j] \in UncrewedStates
    BY <1>1 DEF UncrewedStates
  <2>5. QED
    BY <2>1, <2>2, <2>3, <2>4 DEF CrewMatchesState
<1>6. DispatchedIsAnswered' /\ TablesAgree'
  BY <1>1 DEF DispatchedIsAnswered, TablesAgree, UncrewedStates
<1>7. QED
  BY <1>2, <1>4, <1>5, <1>6

(* Every step of the system keeps the invariant.                           *)
LEMMA NextInv ==
  ASSUME IInv, [Next]_vars PROVE IInv'
<1>1. ASSUME NEW j \in Jobs, createJob(j) PROVE IInv'
  BY <1>1, CreateInv
<1>2. ASSUME UNCHANGED <<state, version, tail, timer, asg, locks, txs>>
      PROVE  IInv'
  <2>1. TypeOK'
    BY NextType DEF IInv, TxInv
  <2>2. \A h \in Handlers : TxInv(h)'
    BY <1>2 DEF IInv, locks, txs, TxInv, TxReads, TxDecides, LocksHold,
         CancelKnows, StillAsRead, LiveRows
  <2>3. QED
    BY <1>2, <2>1, <2>2, QuietKept DEF IInv
<1>3. ASSUME NEW w \in WrapUpIds, WrapUpReplayed(w) PROVE IInv'
  BY <1>2, <1>3 DEF WrapUpReplayed, db
<1>4. ASSUME NEW h \in Handlers, Abort(h) \/ DeadlockVictim(h) PROVE IInv'
  BY <1>4, RefuseInv DEF Abort, DeadlockVictim
<1>5. CASE UNCHANGED vars
  BY <1>2, <1>5 DEF vars, locks, txs
<1>6. QED
  BY <1>1, <1>3, <1>4, <1>5, RequestInv, ProceedInv DEF Next

-----------------------------------------------------------------------------
(* The theorems.                                                           *)

(* The inductive invariant holds in every reachable state.                 *)
THEOREM Invariance == Spec => []IInv
<1>1. Init => IInv
  BY InitInv
<1>2. IInv /\ [Next]_vars => IInv'
  BY NextInv
<1>3. QED
  BY <1>1, <1>2, PTL DEF Spec

(* Every table and every handler keeps its shape.                          *)
THEOREM TypeCorrect == Spec => []TypeOK
<1>1. IInv => TypeOK
  BY DEF IInv
<1>2. QED
  BY <1>1, Invariance, PTL

(* Whatever the requests and however they interleave, a dispatched job has *)
(* exactly one live assignment and any other job has none.                 *)
THEOREM OneCrewPerDispatchedJob == Spec => []CrewMatchesState
<1>1. IInv => CrewMatchesState
  BY DEF IInv
<1>2. QED
  BY <1>1, Invariance, PTL

(* The response timer of a dispatched job is satisfied.                    *)
THEOREM DispatchAnswersTheTimer == Spec => []DispatchedIsAnswered
<1>1. IInv => DispatchedIsAnswered
  BY DEF IInv
<1>2. QED
  BY <1>1, Invariance, PTL

-----------------------------------------------------------------------------
(* Action properties, from the same invariant.                             *)

(* A step that moves one job along a legal edge and says so.               *)
LegalStep(j, to, by) ==
  /\ Move(j, state[j], to, by)
  /\ state[j] # "none" /\ to # "none" /\ to # state[j]
  /\ LegalMove(state[j], to)

(* No job's state or history is touched.                                   *)
NoMove == UNCHANGED <<state, version, tail>>

(* An office transition follows an edge of the office's table.             *)
LEMMA TransitionIsLegal ==
  ASSUME IInv, NEW h \in Handlers, TransitionWrite(h)
  PROVE  \E j \in Jobs : \E to, by : LegalStep(j, to, by)
<1>1. PICK j \in Jobs : j = req[h].job
  BY DEF IInv, TransitionWrite, TxInv, TxReads
<1>2. /\ TxInv(h) /\ pc[h] = "transition_write" /\ StillAsRead(h)
      /\ Move(j, read[h].state, req[h].to, None)
  BY <1>1 DEF TransitionWrite, IInv
<1>3. /\ state[j] = read[h].state /\ state[j] # "none"
      /\ req[h].to \in OfficeMoves(state[j])
  BY <1>1, <1>2 DEF StillAsRead, TxInv, TxDecides
<1>4. req[h].to # state[j] /\ req[h].to # "none"
  BY <1>3, OfficeEdges, OfficeMovesType DEF JobStateWire
<1>5. LegalMove(state[j], req[h].to)
  BY <1>3 DEF LegalMove
<1>6. LegalStep(j, req[h].to, None)
  BY <1>2, <1>3, <1>4, <1>5 DEF LegalStep
<1>7. QED
  BY <1>6

(* An assignment moves a dispatchable job to assigned.                     *)
LEMMA AssignIsLegal ==
  ASSUME IInv, NEW h \in Handlers, AssignWrite(h)
  PROVE  \E j \in Jobs : \E to, by : LegalStep(j, to, by)
<1>1. PICK j \in Jobs :
        /\ j = req[h].job
        /\ read[h].state = state[j] /\ state[j] \in DISPATCHABLE
  BY DEF IInv, TypeOK, AssignWrite, TxInv, TxReads, LocksHold
<1>2. Move(j, state[j], "assigned", None)
  BY <1>1 DEF AssignWrite, Move
<1>3. state[j] # "none" /\ state[j] # "assigned"
  BY <1>1 DEF DISPATCHABLE
<1>4. LegalMove(state[j], "assigned")
  BY <1>1 DEF LegalMove, DISPATCHABLE, JOB_TRANSITIONS
<1>5. LegalStep(j, "assigned", None)
  BY <1>2, <1>3, <1>4 DEF LegalStep
<1>6. QED
  BY <1>5

(* A release moves an assigned job back to created.                        *)
LEMMA ReleaseIsLegal ==
  ASSUME IInv, NEW h \in Handlers, ReleaseWrite(h),
         ~asg[row[h]].released,
         read[h].state = "assigned" /\ state[req[h].job] = "assigned"
  PROVE  \E j \in Jobs : \E to, by : LegalStep(j, to, by)
<1>1. PICK j \in Jobs : j = req[h].job
  BY DEF IInv, ReleaseWrite, TxInv, TxReads
<1>2. Move(req[h].job, "assigned", "created", None)
  BY Zenon DEF ReleaseWrite
<1>3. state[j] = "assigned" /\ Move(j, state[j], "created", None)
  BY <1>1, <1>2
<1>4. LegalStep(j, "created", None)
  BY <1>3 DEF LegalStep, LegalMove
<1>5. QED
  BY <1>4

(* A replayed transition follows an edge of the device's table.            *)
LEMMA SyncIsLegal ==
  ASSUME IInv, NEW h \in Handlers, SyncMove(h)
  PROVE  \E j \in Jobs : \E to, by : LegalStep(j, to, by)
<1>1. PICK j \in Jobs :
        /\ j = req[h].job /\ read[h].state = state[j]
        /\ state[j] \in JobStateWire
        /\ ResolveTransition(state[j], req[h].mut.to) = "applied"
  BY SyncMoveEdge
<1>2. /\ req[h].mut.to \in JOB_TRANSITIONS[state[j]]
      /\ req[h].mut.to # state[j] /\ req[h].mut.to # "none"
  BY <1>1, DeviceEdges DEF JobStateWire
<1>3. Move(j, state[j], req[h].mut.to, req[h].crew)
  BY <1>1 DEF SyncMove
<1>4. state[j] # "none"
  BY <1>1 DEF JobStateWire
<1>5. LegalStep(j, req[h].mut.to, req[h].crew)
  BY <1>2, <1>3, <1>4 DEF LegalStep, LegalMove
<1>6. QED
  BY <1>5

(* A completion report moves a job in progress to complete.                *)
LEMMA WrapUpIsLegal ==
  ASSUME IInv, NEW h \in Handlers, wrapUpJob(h),
         wrapUpVerdict(h) = "closed"
  PROVE  \E j \in Jobs : \E to, by : LegalStep(j, to, by)
<1>1. PICK j \in Jobs : j = req[h].job
  BY DEF IInv, wrapUpJob, TxInv, TxReads
<1>2. state[j] = "in_progress"
  BY <1>1 DEF wrapUpVerdict
<1>3. Move(j, state[j], "complete", req[h].crew)
  BY <1>1, <1>2 DEF wrapUpJob
<1>4. LegalMove("in_progress", "complete")
  BY DEF LegalMove, JOB_TRANSITIONS
<1>5. LegalStep(j, "complete", req[h].crew)
  BY <1>2, <1>3, <1>4 DEF LegalStep
<1>6. QED
  BY <1>5

(* Every step opens a job, moves one legally, or moves none.               *)
LEMMA StepKinds ==
  ASSUME IInv, [Next]_vars
  PROVE  \/ \E j \in Jobs : createJob(j)
         \/ \E j \in Jobs : \E to, by : LegalStep(j, to, by)
         \/ NoMove
<1> DEFINE G == \/ \E j \in Jobs : \E to, by : LegalStep(j, to, by)
                \/ NoMove
<1>1. ASSUME NEW h \in Handlers, Refuse(h) PROVE NoMove
  BY <1>1 DEF Refuse, db, NoMove
<1>2. ASSUME NEW h \in Handlers, Request(h) PROVE NoMove
  BY <1>2 DEF Request, TransitionRead, AssignBegin, ReleaseBegin, SyncSee,
              AttachSee, WrapUpBegin, db, NoMove
<1>3. ASSUME NEW h \in Handlers, Proceed(h) PROVE G
  <2>1. CASE TransitionWrite(h)
    BY <2>1, TransitionIsLegal
  <2>2. CASE AssignWrite(h)
    BY <2>2, AssignIsLegal
  <2>3. CASE ReleaseWrite(h)
    <3> DEFINE mayRelease ==
          /\ ~asg[row[h]].released
          /\ read[h].state = "assigned" /\ state[req[h].job] = "assigned"
    <3>1. CASE mayRelease
      BY <2>3, <3>1, ReleaseIsLegal
    <3>2. CASE ~mayRelease
      BY <2>3, <3>2, <1>1 DEF ReleaseWrite
    <3>3. QED
      BY <3>1, <3>2
  <2>4. CASE SyncMove(h)
    BY <2>4, SyncIsLegal
  <2>5. CASE wrapUpJob(h)
    <3>1. CASE wrapUpVerdict(h) = "closed"
      BY <2>5, <3>1, WrapUpIsLegal
    <3>2. CASE wrapUpVerdict(h) # "closed"
      BY <2>5, <3>2 DEF wrapUpJob, NoMove
    <3>3. QED
      BY <3>1, <3>2
  <2>6. CASE AssignLock(h)
    BY <2>6, <1>1 DEF AssignLock, db, NoMove
  <2>7. CASE attachJobMedia(h)
    BY <2>7, <1>1 DEF attachJobMedia, NoMove
  <2>8. CASE TransitionStale(h) \/ AssignRefused(h) \/ SyncDuplicate(h)
    BY <2>8, <1>1 DEF TransitionStale, AssignRefused, SyncDuplicate
  <2>9. CASE \/ CancelSee(h) \/ CancelLock(h) \/ ReleaseLockJob(h)
             \/ SyncGrant(h) \/ WrapUpSee(h)
    BY <2>9 DEF CancelSee, CancelLock, ReleaseLockJob, SyncGrant, WrapUpSee,
                db, NoMove
  <2>10. CASE SyncStranger(h) \/ SyncRecord(h) \/ SyncRowRefused(h)
    BY <2>10 DEF SyncStranger, SyncRecord, SyncRowRefused, NoMove
  <2>11. QED
    BY <1>3, <2>1, <2>2, <2>3, <2>4, <2>5, <2>6, <2>7, <2>8, <2>9, <2>10
    DEF Proceed
<1>4. ASSUME NEW h \in Handlers, Abort(h) \/ DeadlockVictim(h) PROVE NoMove
  BY <1>1, <1>4 DEF Abort, DeadlockVictim
<1>5. ASSUME NEW w \in WrapUpIds, WrapUpReplayed(w) PROVE NoMove
  BY <1>5 DEF WrapUpReplayed, db, NoMove
<1>6. CASE UNCHANGED vars
  BY <1>6 DEF vars, NoMove
<1>7. QED
  BY <1>2, <1>3, <1>4, <1>5, <1>6 DEF Next

(* A job only moves along an edge some table allows, one version at a      *)
(* time, for every number of jobs, crews and concurrent requests.          *)
THEOREM EveryMoveIsLegal == Spec => MovesAreLegal
<1> DEFINE A == \A j \in Jobs : state'[j] # state[j] =>
                  LegalMove(state[j], state'[j]) /\ version'[j] = version[j] + 1
<1>1. ASSUME IInv, [Next]_vars PROVE [A]_vars
  <2>1. CASE NoMove
    BY <2>1 DEF NoMove
  <2>2. ASSUME NEW k \in Jobs, createJob(k) PROVE A
    <3>1. /\ state[k] = "none" /\ version[k] = 0
          /\ state' = [state EXCEPT ![k] = "created"]
          /\ version' = [version EXCEPT ![k] = 1]
      BY <1>1, <2>2 DEF createJob, IInv, TablesAgree
    <3>2. LegalMove("none", "created")
      BY DEF LegalMove
    <3>3. QED
      BY <1>1, <3>1, <3>2 DEF IInv, TypeOK
  <2>3. ASSUME NEW k \in Jobs, NEW to, NEW by, LegalStep(k, to, by) PROVE A
    <3>1. /\ state' = [state EXCEPT ![k] = to]
          /\ version' = [version EXCEPT ![k] = @ + 1]
          /\ LegalMove(state[k], to)
      BY <2>3 DEF LegalStep, Move
    <3>2. QED
      BY <1>1, <3>1 DEF IInv, TypeOK
  <2>4. QED
    BY <1>1, <2>1, <2>2, <2>3, StepKinds
<1>2. QED
  BY <1>1, Invariance, PTL DEF Spec, MovesAreLegal

(* The events of a job are its true history, likewise.                     *)
THEOREM EveryMoveIsRecorded == Spec => HistoryIsTrue
<1> DEFINE A == \A j \in Jobs :
       /\ tail'[j] # tail[j] => /\ tail'[j].from = state[j]
                               /\ tail'[j].to = state'[j]
                               /\ state'[j] # state[j]
       /\ state'[j] # state[j] /\ state[j] # "none" => tail'[j] # tail[j]
<1>1. ASSUME IInv, [Next]_vars PROVE [A]_vars
  <2>1. CASE NoMove
    BY <2>1 DEF NoMove
  <2>2. ASSUME NEW k \in Jobs, createJob(k) PROVE A
    <3>1. /\ state[k] = "none" /\ tail' = tail
          /\ state' = [state EXCEPT ![k] = "created"]
      BY <2>2 DEF createJob
    <3>2. QED
      BY <1>1, <3>1 DEF IInv, TypeOK
  <2>3. ASSUME NEW k \in Jobs, NEW to, NEW by, LegalStep(k, to, by) PROVE A
    <3>1. /\ state' = [state EXCEPT ![k] = to]
          /\ tail' = [tail EXCEPT ![k] =
                        [from |-> state[k], to |-> to, by |-> by]]
          /\ to # state[k] /\ to # "none"
      BY <2>3 DEF LegalStep, Move
    <3>2. tail[k].to \in {"none", state[k]}
      BY <1>1 DEF IInv, TablesAgree
    <3>3. tail'[k] = [from |-> state[k], to |-> to, by |-> by]
      BY <1>1, <3>1 DEF IInv, TypeOK
    <3>4. tail'[k] # tail[k]
      BY <3>1, <3>2, <3>3
    <3>5. QED
      BY <1>1, <3>1, <3>3, <3>4 DEF IInv, TypeOK
  <2>4. QED
    BY <1>1, <2>1, <2>2, <2>3, StepKinds
<1>2. QED
  BY <1>1, Invariance, PTL DEF Spec, HistoryIsTrue

(* Only the completion handler, or a device replaying a report the office  *)
(* has, changes what a device was told about a report.                     *)
LEMMA AnswerKinds ==
  ASSUME IInv, [Next]_vars
  PROVE  \/ \E h \in Handlers : wrapUpJob(h)
         \/ \E w \in WrapUpIds : WrapUpReplayed(w)
         \/ answers' = answers
<1>1. ASSUME NEW h \in Handlers, Refuse(h) PROVE answers' = answers
  BY <1>1 DEF Refuse
<1>2. ASSUME NEW h \in Handlers, Request(h) PROVE answers' = answers
  BY <1>2 DEF Request, TransitionRead, AssignBegin, ReleaseBegin, SyncSee,
              AttachSee, WrapUpBegin
<1>3. ASSUME NEW h \in Handlers, Proceed(h)
      PROVE  wrapUpJob(h) \/ answers' = answers
  <2>1. CASE TransitionWrite(h) \/ AssignWrite(h) \/ SyncMove(h)
    BY <2>1 DEF TransitionWrite, AssignWrite, SyncMove
  <2>2. CASE ReleaseWrite(h)
    BY <2>2, <1>1 DEF ReleaseWrite
  <2>3. CASE wrapUpJob(h)
    BY <2>3
  <2>4. CASE AssignLock(h)
    BY <2>4, <1>1 DEF AssignLock
  <2>5. CASE attachJobMedia(h)
    BY <2>5, <1>1 DEF attachJobMedia
  <2>6. CASE TransitionStale(h) \/ AssignRefused(h) \/ SyncDuplicate(h)
    BY <2>6, <1>1 DEF TransitionStale, AssignRefused, SyncDuplicate
  <2>7. CASE \/ CancelSee(h) \/ CancelLock(h) \/ ReleaseLockJob(h)
             \/ SyncGrant(h) \/ WrapUpSee(h)
    BY <2>7 DEF CancelSee, CancelLock, ReleaseLockJob, SyncGrant, WrapUpSee
  <2>8. CASE SyncStranger(h) \/ SyncRecord(h) \/ SyncRowRefused(h)
    BY <2>8 DEF SyncStranger, SyncRecord, SyncRowRefused
  <2>9. QED
    BY <1>3, <2>1, <2>2, <2>3, <2>4, <2>5, <2>6, <2>7, <2>8 DEF Proceed
<1>4. ASSUME NEW h \in Handlers, Abort(h) \/ DeadlockVictim(h)
      PROVE  answers' = answers
  BY <1>1, <1>4 DEF Abort, DeadlockVictim
<1>5. ASSUME NEW k \in Jobs, createJob(k) PROVE answers' = answers
  BY <1>5 DEF createJob
<1>6. CASE UNCHANGED vars
  BY <1>6 DEF vars
<1>7. QED
  BY <1>2, <1>3, <1>4, <1>5, <1>6 DEF Next

(* A report the office has is never answered "not in progress", however    *)
(* many submissions of it are in flight.                                   *)
THEOREM RetriesAreRecognised == Spec => RetriedWrapUpIsRecognised
<1> DEFINE A == \A w \in WrapUpIds :
       answers'[w] # answers[w] /\ answers'[w] = "not_in_progress"
         => wrapUps[w] = None
<1>1. ASSUME IInv, [Next]_vars PROVE [A]_vars
  <2>1. ASSUME NEW h \in Handlers, wrapUpJob(h) PROVE A
    <3>1. /\ answers' = [answers EXCEPT ![req[h].id] = wrapUpVerdict(h)]
          /\ pc[h] = "wrapup_wait"
      BY <2>1 DEF wrapUpJob, Answer
    <3>2. req[h].id \in WrapUpIds
      BY <1>1, <3>1 DEF IInv, TxInv, TxReads
    <3>3. wrapUpVerdict(h) = "not_in_progress" => wrapUps[req[h].id] = None
      BY DEF wrapUpVerdict
    <3>4. answers \in [WrapUpIds -> AnswerType]
      BY <1>1 DEF IInv, TypeOK
    <3>5. QED
      BY <3>1, <3>2, <3>3, <3>4
  <2>2. ASSUME NEW u \in WrapUpIds, WrapUpReplayed(u) PROVE A
    <3>1. answers' = [answers EXCEPT ![u] = "duplicate"]
      BY <2>2 DEF WrapUpReplayed, Answer
    <3>2. answers \in [WrapUpIds -> AnswerType]
      BY <1>1 DEF IInv, TypeOK
    <3>3. QED
      BY <3>1, <3>2
  <2>3. QED
    BY <1>1, <2>1, <2>2, AnswerKinds
<1>2. QED
  BY <1>1, Invariance, PTL DEF Spec, RetriedWrapUpIsRecognised
=============================================================================
