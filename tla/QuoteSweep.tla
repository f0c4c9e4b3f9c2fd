----------------------------- MODULE QuoteSweep -----------------------------
(***************************************************************************)
(* From a technician's "Quote needed" to a QUOTE job.  Every minute a      *)
(* worker takes the oldest reports that ask for a quote and have no job,   *)
(* QuoteLimit at a time, locks them (FOR UPDATE OF w SKIP LOCKED) and      *)
(* opens a job for each inside a savepoint.  A report it can open no job   *)
(* for, because its site's terms give no response time, keeps the reason   *)
(* and is taken again next time.                                           *)
(***************************************************************************)
EXTENDS Naturals, FiniteSets

CONSTANTS
  Reports,     \* how many reports: they are numbered as they are created
  Openers,     \* worker processes
  QuoteLimit   \* rows a sweep takes at a time: 20 in the code

ASSUME QuoteAssumption ==
  Reports \in Nat \ {0} /\ QuoteLimit \in Nat \ {0}

VARIABLES
  created,   \* the reports so far: 1..created ask for a quote
  termless,  \* the reports whose site resolves no response term
  opened,    \* how many jobs have been opened from each report
  quoteJob,  \* the reports with quote_job_id set
  quoteErr,  \* the reports with quote_error set
  taken      \* the rows each worker's transaction holds

quoteVars == <<created, termless, opened, quoteJob, quoteErr, taken>>

QuoteInit ==
  /\ created = 0 /\ termless \in SUBSET (1..Reports)
  /\ opened = [r \in 1..Reports |-> 0]
  /\ quoteJob = {} /\ quoteErr = {}
  /\ taken = [w \in Openers |-> {}]

quoteAsked ==
  /\ created < Reports /\ created' = created + 1
  /\ UNCHANGED <<termless, opened, quoteJob, quoteErr, taken>>

(* The office adds the missing term.                                       *)
termAdded(r) ==
  /\ r \in termless /\ termless' = termless \ {r}
  /\ UNCHANGED <<created, opened, quoteJob, quoteErr, taken>>

(* Mutant: the rows are read without FOR UPDATE SKIP LOCKED.               *)
Askers_Unlocked == (1..created) \ quoteJob

Askers == {r \in (1..created) \ quoteJob : \A w \in Openers : r \notin taken[w]}

quoteSelect(w) ==
  /\ taken[w] = {} /\ Askers # {}
  /\ \E b \in SUBSET Askers :
       /\ Cardinality(b) <= QuoteLimit
       /\ Cardinality(b) < QuoteLimit => b = Askers
       /\ \A x \in b, y \in Askers \ b : x < y
       /\ taken' = [taken EXCEPT ![w] = b]
  /\ UNCHANGED <<created, termless, opened, quoteJob, quoteErr>>

(* The rows createJob refuses, and those a later statement fails for, are  *)
(* undone to their savepoints and marked; the others get their job.        *)
quoteCommit(w) ==
  /\ taken[w] # {}
  /\ \E failed \in SUBSET (taken[w] \ termless) :
       LET refused == (taken[w] \cap termless) \cup failed
           done == taken[w] \ refused IN
       /\ opened' = [r \in 1..Reports |->
                       IF r \in done THEN opened[r] + 1 ELSE opened[r]]
       /\ quoteJob' = quoteJob \cup done
       /\ quoteErr' = (quoteErr \ done) \cup refused
  /\ taken' = [taken EXCEPT ![w] = {}]
  /\ UNCHANGED <<created, termless>>

quoteLost(w) ==
  /\ taken[w] # {}
  /\ taken' = [taken EXCEPT ![w] = {}]
  /\ UNCHANGED <<created, termless, opened, quoteJob, quoteErr>>

QuoteNext ==
  \/ quoteAsked \/ \E r \in 1..Reports : termAdded(r)
  \/ \E w \in Openers : quoteSelect(w) \/ quoteCommit(w) \/ quoteLost(w)

(* A worker sweeps every minute, and a report that can have a job and is   *)
(* tried again and again gets one.                                         *)
QuoteFairness ==
  /\ \A w \in Openers : WF_quoteVars(quoteSelect(w))
  /\ \A w \in Openers : SF_quoteVars(quoteCommit(w))
  /\ \A r \in 1..Reports :
       SF_quoteVars(\E w \in Openers : /\ r \in taken[w] \ termless
                                       /\ quoteCommit(w) /\ r \in quoteJob')

QuoteSpec == QuoteInit /\ [][QuoteNext]_quoteVars
QuoteFairSpec == QuoteSpec /\ QuoteFairness

-----------------------------------------------------------------------------
(* A report has one job or none, and says so: neither two workers at once  *)
(* nor a sweep that failed half way opens a second, or one that no report  *)
(* points to.                                                              *)
OneQuoteJob ==
  \A r \in 1..Reports :
    /\ opened[r] = IF r \in quoteJob THEN 1 ELSE 0
    /\ ~(r \in quoteJob /\ r \in quoteErr)

(* "a technician's 'Quote needed' becomes a QUOTE job": a report whose     *)
(* site has its terms gets its job.  QuoteLimit older reports without      *)
(* terms are taken first every time, and it is never reached.              *)
QuoteNeededBecomesJob ==
  \A r \in 1..Reports :
    (r <= created /\ r \notin termless) ~> (r \in quoteJob)
=============================================================================
