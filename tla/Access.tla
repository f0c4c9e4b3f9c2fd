-------------------------------- MODULE Access ------------------------------
(***************************************************************************)
(* Shift grants, sign-ins and sessions.  A sign-in checks the login, finds *)
(* the grant and inserts a session, and commits later than it read; ending *)
(* a shift, retiring a device, disabling a login or changing a password    *)
(* happen in between.  A session is asked again on every request.          *)
(*                                                                         *)
(* Time is whole seconds, as a token counts them; a window's end may fall  *)
(* inside a second, so a moment is twice as fine as a second.              *)
(***************************************************************************)
EXTENDS Naturals

CONSTANTS
  Handsets,    \* devices
  People,      \* technicians' logins
  Grants,      \* device_grants
  Sessions,    \* sessions
  Claims,      \* the roles and scope a login can have
  TokenTtl,    \* TOKEN_TTL, in seconds
  LastMoment,  \* bound: the clock
  Doors        \* sign-ins at once

ASSUME AccessAssumption == TokenTtl \in Nat \ {0} /\ LastMoment \in Nat

VARIABLES
  moment,   \* half seconds
  handset,  \* devices.active
  person,   \* users: active, and roles and scope
  grant,    \* device_grants: device, technician, window and revoked_at
  session,  \* sessions: kind, principal, claims in the token, iat, exp, revoked_at
  door      \* how far each sign-in is, and the session it will insert

accessVars == <<moment, handset, person, grant, session, door>>

NoGrant   == [state |-> "none", device |-> "none", by |-> "none", from |-> 0, to |-> 0]
NoSession == [state |-> "none", kind |-> "none", of |-> "none",
              claims |-> "none", iat |-> 0, exp |-> 0]
Shut      == [op |-> "none"]

AccessInit ==
  /\ moment = 0
  /\ handset = [d \in Handsets |-> TRUE]
  /\ person \in [People -> [active : {TRUE}, claims : Claims]]
  /\ grant = [g \in Grants |-> NoGrant]
  /\ session = [s \in Sessions |-> NoSession]
  /\ door = [h \in Doors |-> Shut]

-----------------------------------------------------------------------------
(* Shifts.  The grant's row is locked while it is extended or revoked; the *)
(* check for an overlap locks nothing.                                     *)

Overlaps(g, from, to) == grant[g].from < to /\ from < grant[g].to

grantDeviceShift(g, d, p, from, to) ==
  /\ grant[g] = NoGrant /\ from < to
  /\ handset[d] /\ person[p].active
  /\ ~ \E k \in Grants : /\ grant[k].state = "live" /\ grant[k].device = d
                         /\ Overlaps(k, from, to)
  /\ grant' = [grant EXCEPT ![g] =
       [state |-> "live", device |-> d, by |-> p, from |-> from, to |-> to]]
  /\ UNCHANGED <<moment, handset, person, session, door>>

liveGrant(g) == grant[g].state = "live" /\ moment < grant[g].to

extendShift(g, to) ==
  /\ liveGrant(g) /\ grant[g].to < to
  /\ ~ \E k \in Grants \ {g} : /\ grant[k].state = "live"
                               /\ grant[k].device = grant[g].device
                               /\ Overlaps(k, grant[g].to, to)
  /\ grant' = [grant EXCEPT ![g].to = to]
  /\ UNCHANGED <<moment, handset, person, session, door>>

Revoke(which) ==
  [s \in Sessions |-> IF s \in which /\ session[s].state = "live"
                      THEN [session[s] EXCEPT !.state = "revoked"] ELSE session[s]]

revokeShift(g) ==
  /\ liveGrant(g)
  /\ grant' = [grant EXCEPT ![g].state = "revoked"]
  /\ session' = Revoke({s \in Sessions : session[s].of = g})
  /\ UNCHANGED <<moment, handset, person, door>>

-----------------------------------------------------------------------------
(* Sign-in.                                                                *)

(* The newest of the grants that cover this moment; any, here.             *)
resolveDeviceLogin(d, p) ==
  {g \in Grants : /\ handset[d] /\ grant[g].device = d /\ grant[g].by = p
                  /\ grant[g].state = "live"
                  /\ grant[g].from <= moment /\ moment < grant[g].to}

Least(a, b) == IF a < b THEN a ELSE b

(* Mutant: the token lives as long as an office one.                       *)
TtlOf_Office(ends) == TokenTtl

(* Whole seconds to the shift's end, rounded down, and at least one.       *)
TtlOf(ends) ==
  LET left == IF moment < ends THEN (ends - moment) \div 2 ELSE 0
  IN Least(TokenTtl, IF left > 1 THEN left ELSE 1)

Resolved(h, kind, of, claims, ends) ==
  /\ door' = [door EXCEPT ![h] =
       [op |-> "mint", ends |-> ends, row |->
          [state |-> "live", kind |-> kind, of |-> of, claims |-> claims,
           iat |-> 0, exp |-> 0]]]
  /\ UNCHANGED <<moment, handset, person, grant, session>>

deviceLoginChecked(h, d, p) ==
  /\ door[h] = Shut /\ person[p].active
  /\ \E g \in resolveDeviceLogin(d, p) :
       Resolved(h, "device_grant", g, "technician", grant[g].to)

loginChecked(h, p) ==
  /\ door[h] = Shut /\ person[p].active
  /\ Resolved(h, "user", p, person[p].claims, 0)

(* The clock is read again, the crew having been looked up meanwhile; iat  *)
(* and exp are whole seconds.                                              *)
mintToken(h) ==
  /\ door[h].op = "mint"
  /\ LET row == door[h].row
         ttl == IF row.kind = "user" THEN TokenTtl ELSE TtlOf(door[h].ends) IN
     door' = [door EXCEPT ![h] =
       [op |-> "insert", row |-> [row EXCEPT !.iat = moment,
                                  !.exp = 2 * ((moment \div 2) + ttl)]]]
  /\ UNCHANGED <<moment, handset, person, grant, session>>

mintSession(h, s) ==
  /\ door[h].op = "insert" /\ session[s] = NoSession
  /\ session' = [session EXCEPT ![s] = door[h].row]
  /\ door' = [door EXCEPT ![h] = Shut]
  /\ UNCHANGED <<moment, handset, person, grant>>

signInLost(h) ==
  /\ door[h] # Shut
  /\ door' = [door EXCEPT ![h] = Shut]
  /\ UNCHANGED <<moment, handset, person, grant, session>>

-----------------------------------------------------------------------------
(* What a request's session is asked.                                      *)

Standing(s) ==
  \/ /\ session[s].kind = "user"
     /\ person[session[s].of].active
     /\ person[session[s].of].claims = session[s].claims
  \/ /\ session[s].kind = "device_grant"
     /\ LET g == grant[session[s].of] IN
        g.state = "live" /\ handset[g.device] /\ person[g.by].active

assertSessionLive(s) ==
  session[s].state = "live" /\ moment < session[s].exp /\ Standing(s)

logout(s) ==
  /\ assertSessionLive(s)
  /\ session' = Revoke({s})
  /\ UNCHANGED <<moment, handset, person, grant, door>>

OfPerson(p) ==
  {s \in Sessions : \/ session[s].kind = "user" /\ session[s].of = p
                    \/ /\ session[s].kind = "device_grant"
                       /\ grant[session[s].of].by = p}

(* revokeUserSessions, all but the session it is asked through.            *)
changeMyPassword(s) ==
  /\ session[s].kind = "user" /\ assertSessionLive(s)
  /\ session' = Revoke(OfPerson(session[s].of) \ {s})
  /\ UNCHANGED <<moment, handset, person, grant, door>>

(* The logins application: access edited, a login removed or restored.     *)
setPerson(p, active, claims) ==
  /\ person[p] # [active |-> active, claims |-> claims]
  /\ active = person[p].active \/ claims = person[p].claims
  /\ person' = [person EXCEPT ![p] = [active |-> active, claims |-> claims]]
  /\ session' = IF active /\ ~ person[p].active THEN session
                ELSE Revoke(OfPerson(p))
  /\ UNCHANGED <<moment, handset, grant, door>>

retireDevice(d) ==
  /\ handset[d] /\ handset' = [handset EXCEPT ![d] = FALSE]
  /\ UNCHANGED <<moment, person, grant, session, door>>

Passing ==
  /\ moment < LastMoment /\ moment' = moment + 1
  /\ UNCHANGED <<handset, person, grant, session, door>>

AccessNext ==
  \/ Passing
  \/ \E d \in Handsets : retireDevice(d)
  \/ \E p \in People, active \in BOOLEAN, c \in Claims : setPerson(p, active, c)
  \/ \E g \in Grants :
       \/ revokeShift(g)
       \/ \E to \in 1 .. LastMoment :
            \/ extendShift(g, to)
            \/ \E d \in Handsets, p \in People, from \in 0 .. LastMoment :
                 grantDeviceShift(g, d, p, from, to)
  \/ \E h \in Doors :
       \/ \E p \in People :
            loginChecked(h, p) \/ \E d \in Handsets : deviceLoginChecked(h, d, p)
       \/ \E s \in Sessions : mintSession(h, s)
       \/ mintToken(h) \/ signInLost(h)
  \/ \E s \in Sessions : logout(s) \/ changeMyPassword(s)

AccessSpec == AccessInit /\ [][AccessNext]_accessVars

-----------------------------------------------------------------------------
(* A request is admitted on a device session only during the shift it was  *)
(* signed in under: not once the shift is ended, though it be while the    *)
(* sign-in was still being written, and not past the window's end, unless  *)
(* the token was minted in its last second or later: then, for one second. *)
AdmittedIsOnShift ==
  \A s \in Sessions :
    (session[s].kind = "device_grant" /\ assertSessionLive(s)) =>
      LET g == grant[session[s].of] IN
        /\ g.state = "live" /\ g.from <= moment
        /\ moment < g.to \/ moment < session[s].iat + 2
=============================================================================
