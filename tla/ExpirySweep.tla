---------------------------- MODULE ExpirySweep -----------------------------
(***************************************************************************)
(* The worker's hourly look at credentials about to end.  A credential of  *)
(* an active crew that nothing replaces is warned of once at each of       *)
(* EXPIRY_WARN_DAYS before its last day, and once on the day after it.     *)
(* What was said is read back from the outbox, so an advisory lock makes   *)
(* workers take turns from that read to the commit; the day a sweep is for *)
(* is taken before it waits for the lock.                                  *)
(*                                                                         *)
(* Papers are the credentials of one kind of one crew: those of other      *)
(* kinds and crews never replace each other.                               *)
(***************************************************************************)
EXTENDS Integers, FiniteSets

CONSTANTS
  Papers,            \* credentials of one kind, of one crew
  EXPIRY_WARN_DAYS,  \* the marks: 30, 7 and 1 in the code
  Sweepers,          \* worker processes
  MaxDay             \* bound: the last day

ASSUME ExpiryAssumption ==
  /\ EXPIRY_WARN_DAYS \subseteq Nat /\ EXPIRY_WARN_DAYS # {}
  /\ IsFiniteSet(EXPIRY_WARN_DAYS) /\ MaxDay \in Nat

VARIABLES
  day,         \* today, a UTC date
  crewActive,  \* crews.active
  paper,       \* crew_credentials: on file, valid from and to, verified
  look,        \* each worker's sweep: its step, its day, what it will say
  warned       \* how often the outbox holds each mark of each paper

expVars == <<day, crewActive, paper, look, warned>>

Expired == -1
MarksOf == EXPIRY_WARN_DAYS \cup {Expired}

NoPaper == [filed |-> FALSE, from |-> 0, to |-> 0, verified |-> FALSE]
NoLook  == [step |-> "idle", day |-> 0, says |-> {}]

ExpInit ==
  /\ day = 0 /\ crewActive = TRUE
  /\ paper = [c \in Papers |-> NoPaper]
  /\ look = [w \in Sweepers |-> NoLook]
  /\ warned = [c \in Papers |-> [m \in MarksOf |-> 0]]

-----------------------------------------------------------------------------
(* The gateway's part: credentials are recorded, verified (and then never  *)
(* changed), and crews retired.                                            *)

filePaper(c) ==
  /\ ~paper[c].filed
  /\ \E from, to \in 0 .. MaxDay :
       /\ from < to
       /\ paper' = [paper EXCEPT ![c] = [filed |-> TRUE, from |-> from,
                                         to |-> to, verified |-> FALSE]]
  /\ UNCHANGED <<day, crewActive, look, warned>>

verifyPaper(c) ==
  /\ paper[c].filed /\ ~paper[c].verified
  /\ paper' = [paper EXCEPT ![c].verified = TRUE]
  /\ UNCHANGED <<day, crewActive, look, warned>>

crewRetires ==
  /\ crewActive /\ crewActive' = FALSE
  /\ UNCHANGED <<day, paper, look, warned>>

DayPasses ==
  /\ day < MaxDay /\ day' = day + 1
  /\ UNCHANGED <<crewActive, paper, look, warned>>

-----------------------------------------------------------------------------
(* sweepCredentialExpiry.                                                  *)

SUPERSEDED(c) ==
  \E n \in Papers \ {c} :
    /\ paper[n].filed /\ paper[n].verified
    /\ paper[n].from <= paper[c].to + 1 /\ paper[n].to > paper[c].to

Horizon == CHOOSE n \in EXPIRY_WARN_DAYS : \A m \in EXPIRY_WARN_DAYS : m <= n

DuePaper(c, d) ==
  /\ crewActive /\ paper[c].filed
  /\ paper[c].to \in (d - 1)..(d + Horizon)
  /\ ~SUPERSEDED(c)

(* The nearest mark at or above the days left, or that it has expired.     *)
MarkAt(c, d) ==
  IF paper[c].to < d THEN Expired
  ELSE CHOOSE m \in EXPIRY_WARN_DAYS :
         /\ m >= paper[c].to - d
         /\ \A n \in EXPIRY_WARN_DAYS : n >= paper[c].to - d => m <= n

(* NOT EXISTS over the outbox, by topic and by mark.                       *)
Unsaid(c, m) == warned[c][m] = 0

lookStart(w) ==
  /\ look[w].step = "idle"
  /\ look' = [look EXCEPT ![w] = [step |-> "dated", day |-> day, says |-> {}]]
  /\ UNCHANGED <<day, crewActive, paper, warned>>

(* Mutant: no advisory lock.                                               *)
MayRead_NoLock(w) == TRUE

(* pg_advisory_xact_lock, held to the end of the transaction.              *)
MayRead(w) == \A v \in Sweepers : look[v].step # "read"

lookRead(w) ==
  /\ look[w].step = "dated" /\ MayRead(w)
  /\ look' = [look EXCEPT
       ![w].step = "read",
       ![w].says = {<<c, MarkAt(c, look[w].day)>> :
                      c \in {p \in Papers :
                               /\ DuePaper(p, look[w].day)
                               /\ Unsaid(p, MarkAt(p, look[w].day))}}]
  /\ UNCHANGED <<day, crewActive, paper, warned>>

lookCommit(w) ==
  /\ look[w].step = "read"
  /\ warned' = [c \in Papers |-> [m \in MarksOf |->
                  IF <<c, m>> \in look[w].says
                  THEN warned[c][m] + 1 ELSE warned[c][m]]]
  /\ look' = [look EXCEPT ![w] = NoLook]
  /\ UNCHANGED <<day, crewActive, paper>>

lookLost(w) ==
  /\ look[w].step # "idle"
  /\ look' = [look EXCEPT ![w] = NoLook]
  /\ UNCHANGED <<day, crewActive, paper, warned>>

-----------------------------------------------------------------------------
ExpNext ==
  \/ \E c \in Papers : filePaper(c) \/ verifyPaper(c)
  \/ crewRetires \/ DayPasses
  \/ \E w \in Sweepers :
       lookStart(w) \/ lookRead(w) \/ lookCommit(w) \/ lookLost(w)

ExpSpec == ExpInit /\ [][ExpNext]_expVars

-----------------------------------------------------------------------------
(* Every mark of a credential is said at most once, whichever workers      *)
(* sweep at the same time and on whichever side of midnight each believes  *)
(* itself to be.                                                           *)
WarnedOncePerMark ==
  \A c \in Papers : \A m \in MarksOf : warned[c][m] <= 1
=============================================================================
