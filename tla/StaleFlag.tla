------------------------------ MODULE StaleFlag ------------------------------
(***************************************************************************)
(* What the cache promises about one URL's staleness, as the cache section *)
(* of the specification describes it: an entry is absent, fresh or stale;  *)
(* storing a response or a matching HEAD refresh makes it fresh and dates  *)
(* it; it turns stale only once its age has passed its limit, and stays    *)
(* stale until it is stored or refreshed again.  Serving is not a step of  *)
(* this machine: it only reads the flag.                                   *)
(***************************************************************************)
EXTENDS Integers

VARIABLES
    clock,  \* the current time
    flag,   \* "absent", "fresh" or "stale"
    born,   \* the date the entry's age counts from
    limit   \* the age the entry may reach and still be fresh

vars == <<clock, flag, born, limit>>

Init ==
    /\ clock \in Int
    /\ flag = "absent"
    /\ born = 0
    /\ limit = 0

\* A stored response is fresh, dated no later than now, with any limit.
Store ==
    /\ flag' = "fresh"
    /\ born' <= clock
    /\ limit' \in Int
    /\ UNCHANGED clock

\* A refresh of a cached entry makes it fresh and dates it now.
Refresh ==
    /\ flag # "absent"
    /\ flag' = "fresh"
    /\ born' = clock
    /\ UNCHANGED <<clock, limit>>

\* A fresh entry whose age is past its limit turns stale.
Expire ==
    /\ flag = "fresh"
    /\ clock - born > limit
    /\ flag' = "stale"
    /\ UNCHANGED <<clock, born, limit>>

Tick ==
    /\ clock' = clock + 1
    /\ UNCHANGED <<flag, born, limit>>

Next == Store \/ Refresh \/ Expire \/ Tick

Spec == Init /\ [][Next]_vars
==============================================================================
