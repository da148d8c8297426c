-------------------------- MODULE LinkFarm_proofs --------------------------
(***************************************************************************)
(* What a user of the link farm gets from LinkFarm's promise alone, and so *)
(* from every program that keeps it, create-libs.sh among them (Refinement *)
(* in CreateLibs_proofs).                                                  *)
(***************************************************************************)
EXTENDS LinkFarm, TLAPS

\* A relinking has at most one of the names it found taken away at a time.
OneMissing ==
    \A m, n \in Names :
        farm0[m] # None /\ farm[m] = None /\ farm0[n] # None /\ farm[n] = None => m = n

\* A success under which nothing moved has settled every name: with its last
\* provider, or with what it was if nobody provides it.
Exact ==
    phase = "done" /\ ~stale =>
        \A n \in Names :
            /\ \A l \in Libs : Wins(l, n) => farm[n] = l
            /\ (\A l \in Libs : n \notin pcs[l]) => farm[n] = farm0[n]

Settled == phase = "done" /\ ~stale => Relinked

IInv == farm \in [Names -> Entry] /\ OneMissing /\ Settled

THEOREM Invariant == Spec => []IInv
<1>1. Init => IInv
  BY DEF Init, IInv, OneMissing, Settled
<1>2. ASSUME IInv, [Next]_vars PROVE IInv'
  <2>1. CASE Begin
    BY <1>2, <2>1 DEF Begin, IInv, OneMissing, Settled
  <2>2. ASSUME NEW n \in Names, Retract(n) PROVE IInv'
    <3>1. /\ farm' \in [Names -> Entry] /\ phase' # "done" /\ UNCHANGED farm0
          /\ \A m \in Names : farm'[m] = IF m = n THEN None ELSE farm[m]
          /\ \A m \in Names : farm0[m] # None => farm[m] # None
      BY <1>2, <2>2 DEF Retract, IInv, Entry
    <3> QED
      BY <3>1 DEF IInv, OneMissing, Settled
  <2>3. ASSUME NEW n \in Names, NEW l \in Libs, Publish(n, l) PROVE IInv'
    <3>1. /\ farm' \in [Names -> Entry] /\ phase' # "done" /\ UNCHANGED farm0
          /\ \A m \in Names : farm'[m] = None => farm[m] = None
      BY <1>2, <2>3 DEF Publish, IInv, Entry
    <3> QED
      BY <1>2, <3>1 DEF IInv, OneMissing, Settled
  <2>4. CASE Succeed \/ GiveUp \/ Change \/ UNCHANGED vars
    BY <1>2, <2>4 DEF Succeed, GiveUp, Change, vars, IInv, OneMissing, Settled,
       Relinked, RelinkedFrom, Wins
  <2> QED
    BY <1>2, <2>1, <2>2, <2>3, <2>4 DEF Next
<1> QED
  BY <1>1, <1>2, PTL DEF Spec

\* Whoever looks at the farm at any moment, also after a relinking that was cut
\* off, misses at most one of the names that were there before.
THEOREM LossIsBounded == Spec => []OneMissing
  <1>1. IInv => OneMissing
    BY DEF IInv
  <1> QED
    BY <1>1, Invariant, PTL

\* With directories in one order, a success leaves no choice: what was in the
\* farm before, and what earlier relinkings were cut off at, no longer matters
\* for any name that is provided.
THEOREM SuccessIsExact ==
    ASSUME Rank \in [Libs -> Nat], \A k, l \in Libs : Rank[k] = Rank[l] => k = l
    PROVE  Spec => []Exact
<1>1. IInv => Exact
  <2> SUFFICES ASSUME Relinked, NEW n \in Names
               PROVE  /\ \A l \in Libs : Wins(l, n) => farm[n] = l
                      /\ (\A l \in Libs : n \notin pcs[l]) => farm[n] = farm0[n]
    BY DEF IInv, Settled, Exact
  <2>1. \/ farm[n] \in Libs /\ Wins(farm[n], n)
        \/ farm[n] = farm0[n] /\ \A l \in Libs : n \notin pcs[l]
    BY DEF Relinked, RelinkedFrom
  <2>2. ASSUME NEW l \in Libs, Wins(l, n)
        PROVE  farm[n] = l
    <3>1. farm[n] \in Libs /\ Wins(farm[n], n)
      BY <2>1, <2>2 DEF Wins
    <3>2. Rank[farm[n]] <= Rank[l] /\ Rank[l] <= Rank[farm[n]]
      BY <2>2, <3>1 DEF Wins
    <3>3. Rank[farm[n]] = Rank[l]
      BY <3>1, <3>2
    <3> QED
      BY <3>1, <3>3
  <2>3. (\A l \in Libs : n \notin pcs[l]) => farm[n] = farm0[n]
    BY <2>1 DEF Wins
  <2> QED
    BY <2>2, <2>3
<1> QED
  BY <1>1, Invariant, PTL
=============================================================================
