---------------------------- MODULE JobLifecycle ----------------------------
(***************************************************************************)
(* The job's states and the three tables that say who may move it where:   *)
(* the domain's JOB_TRANSITIONS and DEVICE_TRANSITIONS, the office's       *)
(* OFFICE_JOB_TRANSITIONS, and the pure decision resolveMutation that the  *)
(* gateway asks for every mutation a device replays.                       *)
(*                                                                         *)
(* No state is kept here: these operators are shared by the modules that   *)
(* model the handlers.                                                     *)
(***************************************************************************)
EXTENDS Naturals

(* The nineteen names of JobStateWire.  The CHECK on jobs.state does not   *)
(* admit "reassigned"; the tables below still mention it.                  *)
JobStateWire ==
  {"created", "assigned", "reassigned", "en_route", "on_site", "in_progress",
   "awaiting_parts", "complete", "reopened", "invoiced", "cancelled",
   "aborted", "quote_requested", "quote_submitted", "awaiting_customer",
   "needs_pricing", "awaiting_po", "awaiting_pictures", "invoice_trouble"}

WORK_DONE_STATES ==
  {"complete", "needs_pricing", "awaiting_po", "awaiting_pictures",
   "invoiced", "invoice_trouble"}

FIELD_CLOSED_STATES == WORK_DONE_STATES \cup {"cancelled", "aborted"}

JOB_TRANSITIONS ==
  [created           |-> {"assigned", "cancelled", "quote_requested"},
   assigned          |-> {"en_route", "reassigned", "cancelled"},
   reassigned        |-> {"assigned", "cancelled"},
   en_route          |-> {"in_progress", "cancelled"},
   on_site           |-> {"in_progress", "aborted", "awaiting_customer"},
   in_progress       |-> {"awaiting_parts", "complete", "aborted",
                          "awaiting_customer"},
   awaiting_parts    |-> {"in_progress", "aborted"},
   complete          |-> {"invoiced", "reopened", "needs_pricing",
                          "awaiting_po", "awaiting_pictures"},
   reopened          |-> {"in_progress"},
   invoiced          |-> {"invoice_trouble"},
   cancelled         |-> {},
   aborted           |-> {"reopened"},
   quote_requested   |-> {"quote_submitted", "cancelled"},
   quote_submitted   |-> {"created", "cancelled"},
   awaiting_customer |-> {"in_progress", "aborted"},
   needs_pricing     |-> {"complete"},
   awaiting_po       |-> {"complete"},
   awaiting_pictures |-> {"complete"},
   invoice_trouble   |-> {"invoiced"}]

DEVICE_TRANSITIONS ==
  {"en_route", "in_progress", "awaiting_parts", "awaiting_customer",
   "complete", "aborted"}

(* Where the office may move a job by hand; a state the table does not     *)
(* name has no office move.                                                *)
OFFICE_JOB_TRANSITIONS ==
  [created           |-> {"quote_requested"},
   quote_requested   |-> {"quote_submitted", "cancelled"},
   quote_submitted   |-> {"created", "cancelled"},
   assigned          |-> {"complete", "cancelled"},
   en_route          |-> {"complete", "cancelled"},
   on_site           |-> {"awaiting_customer", "complete"},
   in_progress       |-> {"awaiting_customer", "complete"},
   awaiting_parts    |-> {"complete"},
   awaiting_customer |-> {"in_progress", "complete"},
   complete          |-> {"needs_pricing", "awaiting_po", "awaiting_pictures"},
   needs_pricing     |-> {"complete"},
   awaiting_po       |-> {"complete"},
   awaiting_pictures |-> {"complete"},
   invoiced          |-> {"invoice_trouble"},
   invoice_trouble   |-> {"invoiced"}]

OfficeMoves(from) ==
  IF from \in DOMAIN OFFICE_JOB_TRANSITIONS
  THEN OFFICE_JOB_TRANSITIONS[from] ELSE {}

DISPATCHABLE == {"created", "reassigned"}

-----------------------------------------------------------------------------
(* The tables a device's mutation may name, by what the policy does with   *)
(* them.  One name stands for each class the decision tells apart.         *)
CONFLICT_POLICIES ==
  [jobs              |-> "state_machine",
   time_entries      |-> "append_only",       \* job_media and parts_used too
   checklist_items   |-> "device_authoritative",
   assignments       |-> "server_authoritative",
   signatures        |-> "manual_queue"]      \* warranty_cases too

(* Mutant: the state the job is in is not asked.                           *)
ResolveTransition_AnySource(from, to) ==
  IF to \notin DEVICE_TRANSITIONS \/ to = "complete" THEN "rejected"
  ELSE IF to = from THEN "duplicate" ELSE "applied"

(* The state_machine branch: from is the job's state, to the one asked for. *)
ResolveTransition(from, to) ==
  IF to \notin DEVICE_TRANSITIONS THEN "rejected"
  ELSE IF to \in JOB_TRANSITIONS[from]
       THEN IF to = "complete" THEN "rejected" ELSE "applied"
  ELSE IF to = from THEN "duplicate"
  ELSE IF from \in {"cancelled", "invoiced", "reassigned"}
       THEN "queued_for_human"
       ELSE "superseded"

(* The decision for a mutation that was not seen before.                   *)
resolveMutation(m, from) ==
  LET policy == CONFLICT_POLICIES[m.table] IN
  IF policy \in {"append_only", "device_authoritative"} THEN "applied"
  ELSE IF policy = "server_authoritative" THEN "rejected"
  ELSE IF policy = "manual_queue" THEN "queued_for_human"
  ELSE ResolveTransition(from, m.to)

(* Every mutation the gateway can be sent, up to that abstraction;         *)
(* "cancelled" stands for the states no device may ask for.                *)
DeviceMutations ==
  [table : {"jobs"}, to : DEVICE_TRANSITIONS \cup {"cancelled"}]
    \cup [table : DOMAIN CONFLICT_POLICIES \ {"jobs"}, to : {"none"}]

Outcomes ==
  {"applied", "duplicate", "superseded", "queued_for_human", "rejected"}
=============================================================================
