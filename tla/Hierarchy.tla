------------------------------ MODULE Hierarchy -----------------------------
(***************************************************************************)
(* Our regions and the customers' trees in them: region nodes, the         *)
(* locations under them, the sites under those, and the requests made and  *)
(* jobs open at the sites.  A row's region and its path are derived from   *)
(* its parent by trigger when it is written, and cascade to what hangs     *)
(* under it.                                                               *)
(*                                                                         *)
(* A request checks, writes, and commits.  Its checks and the triggers'    *)
(* reads see only what is committed and lock nothing; the rows it has      *)
(* written are locked until it commits.  So two requests that overlap, one *)
(* of which moves a node while the other writes a child of it or opens a   *)
(* job under it, do not see each other.  Which ones did is remembered in   *)
(* two history variables, which no guard reads.                            *)
(***************************************************************************)
EXTENDS Naturals

CONSTANTS
  Areas,     \* regions
  Density,   \* regions.min_crew_density, 0 when the rule is not set
  MaxCrews,  \* bound: active crews of a region
  Accounts,  \* nodes
  TierOf,    \* region, location or site
  Visits,    \* jobs
  Asks,      \* service requests
  Editors    \* requests at once

ASSUME HierarchyAssumption ==
  /\ MaxCrews \in Nat /\ Density \in [Areas -> Nat]
  /\ TierOf \in [Accounts -> {"region", "location", "site"}]
  /\ {"none", "org"} \cap Accounts = {} /\ Accounts \cap Visits = {}

VARIABLES
  area,     \* regions: open (active), and the active crews in it
  account,  \* accounts: parent, region, path and active
  visit,    \* jobs: site, region, and whether still open
  ask,      \* service_requests: site, region and job
  edit,     \* what each request has decided on, or written and not committed
  beside,   \* history: what others committed since each request decided
  crossed   \* history: nodes and jobs two overlapping requests had a hand in

hierTables == <<area, account, visit, ask, crossed>>
hierVars   == <<area, account, visit, ask, edit, beside, crossed>>

NoAccount == [parent |-> "none", region |-> "none", path |-> {}, active |-> FALSE]
NoVisit   == [site |-> "none", region |-> "none", open |-> FALSE]
NoAsk     == [site |-> "none", region |-> "none", job |-> "none"]
AtRest    == [op |-> "none"]

Exists(n) == account[n].parent # "none"

HierInit ==
  /\ area = [r \in Areas |-> [open |-> TRUE, crews |-> 0]]
  /\ account = [n \in Accounts |-> NoAccount]
  /\ visit = [v \in Visits |-> NoVisit]
  /\ ask = [q \in Asks |-> NoAsk]
  /\ edit = [h \in Editors |-> AtRest]
  /\ beside = [h \in Editors |-> {}] /\ crossed = {}

Decides(h, what) ==
  /\ edit[h] = AtRest /\ edit' = [edit EXCEPT ![h] = what]
  /\ UNCHANGED <<hierTables, beside>>

(* A request ends, and the moves and writes under way have what it         *)
(* committed beside them.                                                  *)
Rests(h, done) ==
  /\ edit' = [edit EXCEPT ![h] = AtRest]
  /\ beside' = [k \in Editors |->
       IF k # h /\ edit[k].op \in {"move", "commit"} THEN beside[k] \cup done ELSE {}]

(* newId: no two requests write the same new row.                          *)
NewNode(n) == ~ Exists(n) /\ \A h \in Editors :
  /\ edit[h].op \in {"root", "create"} => edit[h].node # n
  /\ edit[h].op = "commit" => n \notin DOMAIN edit[h].rows
NewVisit(v) == visit[v] = NoVisit /\ \A h \in Editors :
  edit[h].op \in {"job", "answer"} => edit[h].visit # v

(* The rows a request has written and not committed.                       *)
Held(h) == IF edit[h].op = "commit" THEN DOMAIN edit[h].rows ELSE {}

Writes(h, rows) ==
  /\ \A k \in Editors \ {h} : Held(k) \cap DOMAIN rows = {}
  /\ edit' = [edit EXCEPT ![h] = [op |-> "commit", rows |-> rows]]
  /\ UNCHANGED <<hierTables, beside>>

(* Nodes written under a parent that another request wrote meanwhile.      *)
UnderCrossed(h) == {n \in Held(h) : edit[h].rows[n].parent \in beside[h] \ Held(h)}

(* These, nodes another request meanwhile put under one of the rows, and   *)
(* open jobs at a site of the rows that were opened meanwhile, or whose    *)
(* site or its new region another request wrote, then or earlier.          *)
crossedBy(h) ==
  UnderCrossed(h)
  \cup {n \in (Accounts \cap beside[h]) \ Held(h) : account[n].parent \in Held(h)}
  \cup {v \in Visits : /\ visit[v].open /\ visit[v].site \in Held(h)
                       /\ \/ {v, visit[v].site} \cap beside[h] # {}
                          \/ visit[v].site \in crossed
                          \/ UnderCrossed(h) # {}}

hierCommit(h) ==
  /\ edit[h].op = "commit"
  /\ account' = [n \in Accounts |->
                   IF n \in Held(h) THEN edit[h].rows[n] ELSE account[n]]
  /\ crossed' = (crossed \ Held(h)) \cup crossedBy(h)
  /\ Rests(h, Held(h))
  /\ UNCHANGED <<area, visit, ask>>

hierLost(h) == edit[h] # AtRest /\ Rests(h, {}) /\ UNCHANGED hierTables

-----------------------------------------------------------------------------
(* Regions.                                                                *)

crewsChange(r, n) ==
  /\ area' = [area EXCEPT ![r].crews = n]
  /\ UNCHANGED <<account, visit, ask, edit, beside, crossed>>

activeRegion(r) == area[r].open

admitLocationSupply(r) == area[r].crews >= Density[r]

(* What still uses the region.  The logins and the home crews bound to it, *)
(* which are counted too, are not modelled.                                *)
holders(r) ==
  \/ area[r].crews > 0
  \/ \E n \in Accounts : account[n].region = r /\ account[n].active
  \/ \E v \in Visits : visit[v].region = r /\ visit[v].open

setRegionActiveAsked(h, r) ==
  /\ area[r].open => ~ holders(r)
  /\ \A k \in Editors : edit[k].op = "region" => edit[k].region # r
  /\ Decides(h, [op |-> "region", region |-> r, open |-> ~ area[r].open])

setRegionActive(h) ==
  /\ edit[h].op = "region"
  /\ area' = [area EXCEPT ![edit[h].region].open = edit[h].open]
  /\ Rests(h, {})
  /\ UNCHANGED <<account, visit, ask, crossed>>

-----------------------------------------------------------------------------
(* Nodes.                                                                  *)

Ladder(n, p) ==
  \/ TierOf[n] = "location" /\ TierOf[p] = "region"
  \/ TierOf[n] = "site" /\ TierOf[p] = "location"

(* createOrganization's first node, and any later one.                     *)
createRegionNodeAsked(h, n, r) ==
  /\ TierOf[n] = "region" /\ NewNode(n)
  /\ activeRegion(r)
  /\ Decides(h, [op |-> "root", node |-> n, region |-> r])

(* ac_accounts_derive_region asks again whether the region is active; a    *)
(* refused insert writes no row.                                           *)
createRegionNode(h) ==
  /\ edit[h].op = "root"
  /\ LET n == edit[h].node r == edit[h].region IN
     Writes(h, [x \in {y \in {n} : activeRegion(r)} |->
                  [parent |-> "org", region |-> r, path |-> {n}, active |-> TRUE]])

createAccountAsked(h, n, p) ==
  /\ NewNode(n) /\ Exists(p) /\ Ladder(n, p)
  /\ TierOf[n] = "location" =>
       activeRegion(account[p].region) /\ admitLocationSupply(account[p].region)
  /\ Decides(h, [op |-> "create", node |-> n, parent |-> p,
                 region |-> account[p].region])

(* ac_accounts_derive_region: the region typed must still be the parent's. *)
createAccount(h) ==
  /\ edit[h].op = "create"
  /\ LET n == edit[h].node p == edit[h].parent IN
     Writes(h, [x \in {y \in {n} : edit[h].region = account[p].region} |->
                  [parent |-> p, region |-> account[p].region,
                   path |-> account[p].path \cup {n}, active |-> TRUE]])

(* Mutant: the open jobs of the node itself only, not those below it.      *)
openJobsUnder_Node(n) ==
  \E v \in Visits : visit[v].open /\ visit[v].site = n

openJobsUnder(n) ==
  \E v \in Visits : visit[v].open /\ n \in account[visit[v].site].path

moveAccountAsked(h, n, p) ==
  /\ Exists(n) /\ Exists(p) /\ Ladder(n, p)
  /\ account[n].parent # p /\ n \notin account[p].path
  /\ account[n].region # account[p].region =>
       /\ ~ openJobsUnder(n)
       /\ TierOf[n] = "location" =>
            activeRegion(account[p].region) /\ admitLocationSupply(account[p].region)
  /\ Decides(h, [op |-> "move", node |-> n, parent |-> p])

(* Mutant: nothing follows the node.                                       *)
Cascade_None(n) == {n}

(* ac_accounts_cascade: the children that are there to be seen.            *)
Cascade(n) == {n} \cup {m \in Accounts : account[m].parent = n}

moveAccount(h) ==
  /\ edit[h].op = "move"
  /\ LET n == edit[h].node
         p == edit[h].parent
         at == account[p].path \cup {n}
     IN Writes(h, [m \in Cascade(n) |->
                     [account[m] EXCEPT
                        !.parent = IF m = n THEN p ELSE @,
                        !.region = account[p].region,
                        !.path = at \cup {m}]])

updateAccount(n, active) ==
  /\ Exists(n) /\ account[n].active # active
  /\ \A h \in Editors : n \notin Held(h)
  /\ account' = [account EXCEPT ![n].active = active]
  /\ UNCHANGED <<area, visit, ask, edit, beside, crossed>>

-----------------------------------------------------------------------------
(* Jobs at a site, in the site's region.  A job is opened at an inactive   *)
(* site too; only the customer's request asks whether it is active.        *)

createJobAsked(h, v, s) ==
  /\ NewVisit(v) /\ Exists(s) /\ TierOf[s] = "site"
  /\ Decides(h, [op |-> "job", visit |-> v, site |-> s,
                 region |-> account[s].region])

(* ac_inherit_tenancy_from_account: the region must still be the site's.   *)
At(h, s) == edit[h].region = account[s].region

createVisit(h) ==
  /\ edit[h].op = "job"
  /\ LET s == edit[h].site IN
     visit' = [v \in Visits |-> IF v = edit[h].visit /\ At(h, s)
       THEN [site |-> s, region |-> edit[h].region, open |-> TRUE] ELSE visit[v]]
  /\ Rests(h, IF At(h, edit[h].site) THEN {edit[h].visit} ELSE {})
  /\ UNCHANGED <<area, account, ask, crossed>>

closeVisit(v) ==
  /\ visit[v].open
  /\ visit' = [visit EXCEPT ![v].open = FALSE]
  /\ UNCHANGED <<area, account, ask, edit, beside, crossed>>

-----------------------------------------------------------------------------
(* Requests, which the office answers with a job at their site.            *)

createServiceRequestAsked(h, q, s) ==
  /\ ask[q] = NoAsk
  /\ \A k \in Editors : edit[k].op = "ask" => edit[k].ask # q
  /\ Exists(s) /\ TierOf[s] = "site" /\ account[s].active
  /\ Decides(h, [op |-> "ask", ask |-> q, site |-> s, region |-> account[s].region])

createServiceRequest(h) ==
  /\ edit[h].op = "ask"
  /\ LET s == edit[h].site IN
     ask' = [q \in Asks |-> IF q = edit[h].ask /\ At(h, s)
       THEN [site |-> s, region |-> edit[h].region, job |-> "none"] ELSE ask[q]]
  /\ Rests(h, {})
  /\ UNCHANGED <<area, account, visit, crossed>>

(* The request is locked; the rest is createJob at its site.               *)
openJobFromRequestAsked(h, q, v) ==
  /\ ask[q] # NoAsk /\ ask[q].job = "none"
  /\ \A k \in Editors : edit[k].op = "answer" => edit[k].ask # q
  /\ NewVisit(v)
  /\ Decides(h, [op |-> "answer", ask |-> q, visit |-> v, site |-> ask[q].site,
                 region |-> account[ask[q].site].region])

(* ac_request_answer_is_final: the job is in the region the request is in. *)
MayBeLinked(q) == ask[q].region = account[ask[q].site].region

openJobFromRequest(h) ==
  /\ edit[h].op = "answer"
  /\ LET q == edit[h].ask v == edit[h].visit s == edit[h].site IN
     \/ /\ At(h, s) /\ MayBeLinked(q)
        /\ visit' = [visit EXCEPT ![v] =
             [site |-> s, region |-> edit[h].region, open |-> TRUE]]
        /\ ask' = [ask EXCEPT ![q].job = v]
        /\ Rests(h, {v})
     \/ /\ ~ (At(h, s) /\ MayBeLinked(q))
        /\ UNCHANGED <<visit, ask>>
        /\ Rests(h, {})
  /\ UNCHANGED <<area, account, crossed>>

HierNext ==
  \/ \E r \in Areas, n \in 0 .. MaxCrews : crewsChange(r, n)
  \/ \E n \in Accounts, active \in BOOLEAN : updateAccount(n, active)
  \/ \E v \in Visits : closeVisit(v)
  \/ \E h \in Editors :
       \/ \E r \in Areas :
            \/ setRegionActiveAsked(h, r)
            \/ \E n \in Accounts : createRegionNodeAsked(h, n, r)
       \/ \E n, p \in Accounts :
            createAccountAsked(h, n, p) \/ moveAccountAsked(h, n, p)
       \/ \E v \in Visits, s \in Accounts : createJobAsked(h, v, s)
       \/ \E q \in Asks :
            \/ \E s \in Accounts : createServiceRequestAsked(h, q, s)
            \/ \E v \in Visits : openJobFromRequestAsked(h, q, v)
       \/ createServiceRequest(h) \/ openJobFromRequest(h)
       \/ setRegionActive(h) \/ createRegionNode(h) \/ createAccount(h)
       \/ moveAccount(h) \/ createVisit(h) \/ hierCommit(h) \/ hierLost(h)

HierSpec == HierInit /\ [][HierNext]_hierVars

-----------------------------------------------------------------------------
(* "region_id DERIVES FROM THE PARENT EDGE ... a site cannot differ from   *)
(* its location.  Moving a node to a new parent moves its region_id with   *)
(* it".  But what is written under a node while its move is under way      *)
(* takes the region it is leaving, and keeps it.                           *)
RegionFollowsEdge ==
  \A n \in Accounts : (Exists(n) /\ TierOf[n] # "region") =>
    account[n].region = account[account[n].parent].region

(* What holds however requests overlap: a node's region is the one its     *)
(* path begins in; and region and path are its parent's, unless the node   *)
(* and its parent were last written by two requests that overlapped.       *)
TreeFollowsItsEdges ==
  \A n \in Accounts : Exists(n) =>
    /\ \A r \in account[n].path :
         TierOf[r] = "region" => account[n].region = account[r].region
    /\ (TierOf[n] # "region" /\ n \notin crossed) =>
         LET p == account[n].parent IN
           /\ account[n].region = account[p].region
           /\ account[n].path = account[p].path \cup {n}

(* An open job is in the region its site is in, whatever moves: nothing    *)
(* "would stay on the old region's board with its site in the new one",    *)
(* unless the job, its site or the region gone to was written while the    *)
(* move was under way, or the site was already out of step with its        *)
(* location.                                                               *)
OpenJobsFollowTheirSite ==
  \A v \in Visits : (visit[v].open /\ v \notin crossed) =>
    visit[v].region = account[visit[v].site].region

(* "A REQUEST IS ANSWERED ONCE, BY THE OFFICE, WITH A JOB AT ITS SITE": a  *)
(* request that waits is one a job at its site can still be linked to.     *)
WaitingCanBeAnswered ==
  \A q \in Asks : (ask[q] # NoAsk /\ ask[q].job = "none") => MayBeLinked(q)
=============================================================================
