---------------------------- MODULE ResourceStore ---------------------------
(***************************************************************************)
(* One key of a surface's resource store, and what the technician's tab    *)
(* keeps of it.  A screen reads the key, an event or a flush invalidates   *)
(* it, the screen reads it again, and the answers come when they come: an  *)
(* overtaken fetch is not called off.  What was last answered is held, for *)
(* the next fetch to show, and in the technician's tab for the next load.  *)
(*                                                                         *)
(* An answer is the version of the facts it was made of, and whether it is *)
(* a refusal.                                                              *)
(***************************************************************************)
EXTENDS Naturals

CONSTANTS
  MaxVersions,  \* bound: how often the facts change
  MaxFetches,   \* bound: how many fetches a page makes of the key
  MaxLoads      \* bound: how often the tab is loaded

ASSUME StoreAssumption ==
  MaxVersions \in Nat /\ MaxFetches \in Nat /\ MaxLoads \in Nat

VARIABLES
  newest,      \* the version the gateway would answer with now
  loads,       \* which load of the tab this is
  generation,  \* generation.get(key)
  resource,    \* the key's entry in the cache: a state, or "none"
  last,        \* the last value the key was answered with
  keptReads,   \* the key in the tab's sessionStorage
  fetches      \* the fetches under way, by the generation they began in

storeVars ==
  <<newest, loads, generation, resource, last, keptReads, fetches>>

(* No answer: neither a value nor a refusal of anything.                   *)
NoAnswer == [value |-> FALSE, at |-> 0]

NoFetch == [stage |-> "none", held |-> FALSE, answer |-> NoAnswer]

StoreInit ==
  /\ newest = 0 /\ loads = 1 /\ generation = 0 /\ resource = "none"
  /\ last = NoAnswer /\ keptReads = NoAnswer
  /\ fetches = [g \in 0 .. MaxFetches |-> NoFetch]

(* Somebody changes what the key is about.                                 *)
factsChange ==
  /\ newest < MaxVersions
  /\ newest' = newest + 1
  /\ UNCHANGED <<loads, generation, resource, last, keptReads, fetches>>

(* The screen reads the key: from the cache, or with a fetch that shows    *)
(* what is held until it is answered.                                      *)
read ==
  /\ resource = "none" /\ generation < MaxFetches
  /\ resource' = IF last.value THEN "ready" ELSE "loading"
  /\ fetches' = [fetches EXCEPT ![generation] =
                   [stage |-> "asked", held |-> last.value, answer |-> NoAnswer]]
  /\ UNCHANGED <<newest, loads, generation, last, keptReads>>

gatewayAnswers(g) ==
  /\ fetches[g].stage = "asked"
  /\ \E value \in BOOLEAN :
       fetches' = [fetches EXCEPT ![g].stage = "answered",
                                  ![g].answer = [value |-> value, at |-> newest]]
  /\ UNCHANGED <<newest, loads, generation, resource, last, keptReads>>

(* Mutant: an answer is held whatever has been invalidated since.          *)
current_Always(g) == TRUE

current(g) == generation = g

(* Each fetch has a signal of its own: only the key's present one is what  *)
(* screens look at.                                                        *)
Shows(g, state) == IF resource # "none" /\ generation = g THEN state ELSE resource

(* onAnswer: the tab's storage may be blocked or full.                     *)
fetched(g) ==
  LET a == fetches[g].answer IN
  /\ fetches[g].stage = "answered"
  /\ resource' = Shows(g, IF a.value THEN "ready" ELSE "refused")
  /\ IF current(g)
     THEN last' = a /\ keptReads' \in {a, keptReads}
     ELSE UNCHANGED <<last, keptReads>>
  /\ fetches' = [fetches EXCEPT ![g] = NoFetch]
  /\ UNCHANGED <<newest, loads, generation>>

(* The transport fails, before or after the gateway has answered: what is  *)
(* on the screen stays there, if anything was.                             *)
fetchFails(g) ==
  /\ fetches[g].stage # "none"
  /\ resource' = IF fetches[g].held THEN resource ELSE Shows(g, "refused")
  /\ fetches' = [fetches EXCEPT ![g] = NoFetch]
  /\ UNCHANGED <<newest, loads, generation, last, keptReads>>

(* The key is forgotten and counted up only if it is cached.               *)
invalidate ==
  /\ resource # "none"
  /\ resource' = "none" /\ generation' = generation + 1
  /\ UNCHANGED <<newest, loads, last, keptReads, fetches>>

(* The tab is loaded again: heldReads seeds the new store, if the tab still *)
(* holds a shift.  An answer of the other kept read writes this key again,  *)
(* so what could not be written at once may have been written since.       *)
heldReads ==
  /\ loads < MaxLoads
  /\ loads' = loads + 1 /\ generation' = 0 /\ resource' = "none"
  /\ \E kept \in {keptReads, last} :
       keptReads' = kept /\ last' \in {kept, NoAnswer}
  /\ fetches' = [g \in 0 .. MaxFetches |-> NoFetch]
  /\ UNCHANGED newest

StoreNext ==
  \/ factsChange \/ read \/ invalidate \/ heldReads
  \/ \E g \in 0 .. MaxFetches :
       gatewayAnswers(g) \/ fetched(g) \/ fetchFails(g)

StoreSpec == StoreInit /\ [][StoreNext]_storeVars

-----------------------------------------------------------------------------
(* "its answer is older, so it must not become the held value": within one *)
(* load of the page what is held is never replaced, nor dropped for a      *)
(* refusal, by an answer made of older facts, whatever order the answers   *)
(* of a key's fetches come in.                                             *)
HeldGoesForward ==
  [][loads' = loads => last'.at >= last.at]_storeVars
=============================================================================
