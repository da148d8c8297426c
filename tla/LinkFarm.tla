------------------------------ MODULE LinkFarm ------------------------------
(***************************************************************************)
(* What a user of create-libs.sh may rely on, without the script: a farm   *)
(* of links over a changing set of providers, relinked from time to time.  *)
(* A relinking takes links away and puts links up one at a time, at most   *)
(* one known name is missing at any moment, and only a relinking that      *)
(* leaves every provided name with its last provider may report success.   *)
(***************************************************************************)
EXTENDS Naturals

CONSTANTS Libs, Names, Rank, None, Plain

VARIABLES
    pcs,     \* pcs[l]: the names library l provides
    farm,    \* farm[n]: the library the link n points into
    phase,   \* "rest", "done" (rest after a success), or "relinking"
    farm0,   \* the farm when the relinking began
    stale    \* the providers have changed since it began

vars == <<pcs, farm, phase, farm0, stale>>

Entry == Libs \cup {None, Plain}

Wins(l, n) == /\ n \in pcs[l]
              /\ \A k \in Libs : n \in pcs[k] => Rank[k] <= Rank[l]

\* Provided names have their last provider, the others are as they were.
RelinkedFrom(old) == \A n \in Names :
    \/ farm[n] \in Libs /\ Wins(farm[n], n)
    \/ farm[n] = old[n] /\ \A l \in Libs : n \notin pcs[l]
Relinked == RelinkedFrom(farm0)

Init == /\ pcs \in [Libs -> SUBSET Names]
        /\ farm \in [Names -> Entry]
        /\ phase = "rest" /\ farm0 = farm /\ stale = FALSE

Begin == /\ phase # "relinking" /\ phase' = "relinking"
         /\ farm0' = farm /\ stale' = FALSE
         /\ UNCHANGED <<pcs, farm>>

Retract(n) ==
    /\ phase = "relinking"
    /\ \A m \in Names : farm0[m] # None => farm[m] # None
    /\ farm' = [farm EXCEPT ![n] = None]
    /\ UNCHANGED <<pcs, phase, farm0, stale>>

Publish(n, l) ==
    /\ phase = "relinking"
    /\ farm[n] = None
    /\ stale \/ n \in pcs[l]
    /\ farm' = [farm EXCEPT ![n] = l]
    /\ UNCHANGED <<pcs, phase, farm0, stale>>

Succeed == /\ phase = "relinking" /\ phase' = "done"
           /\ stale \/ Relinked
           /\ UNCHANGED <<pcs, farm, farm0, stale>>

GiveUp == /\ phase = "relinking" /\ phase' = "rest"
          /\ UNCHANGED <<pcs, farm, farm0, stale>>

Change == /\ pcs' \in [Libs -> SUBSET Names] /\ stale' = TRUE
          /\ UNCHANGED <<farm, phase, farm0>>

Next == \/ Begin \/ Succeed \/ GiveUp \/ Change
        \/ \E n \in Names : Retract(n) \/ \E l \in Libs : Publish(n, l)

Spec == Init /\ [][Next]_vars
=============================================================================
