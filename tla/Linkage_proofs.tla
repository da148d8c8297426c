--------------------------- MODULE Linkage_proofs ---------------------------
(***************************************************************************)
(* What holds of the linkage of all products together, for any number of   *)
(* runs, promotions, removals and edits of the scripts.                    *)
(***************************************************************************)
EXTENDS Linkage, FiniteSetTheorems, WellFoundedInduction, TLAPS

(***************************************************************************)
(* The inductive invariant.                                                *)
(***************************************************************************)

\* A commit, a release or a load command refers to no build or to a
\* successful one of the right product. Such builds stay for good.
Settled(id, l) == id # None => builds[id].at = "done" /\ builds[id].of.name = l

SettledInv ==
    /\ \A l \in Libs : Settled(master.lib[l], l) /\ Settled(asset[l], l)
    /\ \A i \in Used : builds[i].at = "running" =>
          \A l \in Libs : Settled(builds[i].src.lib[l], l)
    /\ \A i \in Used : \A r \in builds[i].links :
          r.from = "library" => Settled(r.id, r.of)

\* Nothing is claimed of a run until it has linked; it installs no .pc file that
\* is not its product's.
RunInv ==
    \A i \in Used :
        /\ builds[i].of \in net /\ builds[i].pcs \subseteq builds[i].of.pcs
        /\ builds[i].at = "running" =>
              builds[i].src \in Commit /\ builds[i].links = {} /\ ~builds[i].proper

\* Only libraries are committed.
KeptInv == \A l \in Libs : master.lib[l] # None => builds[master.lib[l]].of.kept

\* A run sees the newest copy of what has not changed since it began, and its
\* result, if it is for Library, has linked just that.
SeenInv ==
    \A i \in Used :
        /\ builds[i].at = "running" => \A l \in Libs :
              builds[i].src.lib[l] = master.lib[l] \/ l \in builds[i].missed
        /\ builds[i].of.kept => \A r \in builds[i].links : r.from = "library" =>
              r.id = master.lib[r.of] \/ r.of \in builds[i].missed

\* The farm is right for what create-libs.sh has seen, whatever has come and gone
\* since: where a name was offered, its one link is the last one made for it.
FarmAsLinked(c) ==
    \A n \in Pcs, k \in Libs : <<n, k>> \in c.linked =>
        \A l \in Libs : <<n, l>> \in c.farm <=> WonThen(c, l, n)

FarmInv ==
    /\ FarmAsLinked(master)
    /\ \A i \in Used : builds[i].at = "running" => FarmAsLinked(builds[i].src)

IInv == /\ TypeOK /\ SettledInv /\ RunInv /\ KeptInv /\ SeenInv /\ FarmInv
        /\ ProperIsClean

-----------------------------------------------------------------------------
(* The operators.                                                          *)

LEMMA NetType ==
    ASSUME TypeOK
    PROVE  net \subseteq Products /\ WellFormed(net)
  BY LinkageAssumption DEF TypeOK, WellFormed

LEMMA UsedType ==
    ASSUME TypeOK, NEW i \in Ids
    PROVE  (i \in Used <=> builds[i] \in Build) /\ (i \notin Used <=> builds[i] = Free)
  BY DEF TypeOK, Used, Build, Free

\* The link of a name whose winner is still the one it was leads there.
LEMMA FarmLeads ==
    ASSUME NEW c \in Commit, FarmAsLinked(c), NEW n \in Pcs, Upheld(c, n),
           NEW l \in Libs, Wins(c, l, n)
    PROVE  <<n, l>> \in c.farm /\ Provides(c, l, n)
  <1>1. WonThen(c, l, n) /\ <<n, l>> \in c.linked
    BY DEF Upheld, WonThen
  <1> QED
    BY <1>1 DEF FarmAsLinked, Wins

\* No build and free slots are no builds.
LEMMA NoneIsNoId == None \notin Ids
  BY LinkageAssumption DEF Ids

\* A build uses products of the net, or names of .pc files.
LEMMA UseType ==
    ASSUME TypeOK, NEW p \in net, NEW u \in p.uses
    PROVE  /\ u \in Uses /\ p.name \in Libs
           /\ u.how = "farm" => u.of \in Pcs
           /\ u.how # "farm" => u.of \in Libs
  <1>1. p \in Products /\ u \in Uses
    BY NetType DEF Products
  <1>2. u.how = "farm" => \E q \in net : u.of \in q.pcs /\ q \in Products
    BY NetType DEF WellFormed, Coherent
  <1>3. u.how # "farm" => \E q \in net : u.of = q.name
    BY NetType DEF WellFormed, Coherent
  <1>4. u.how = "farm" => u.of \in Pcs
    BY <1>2 DEF Products
  <1> QED
    BY <1>1, <1>3, <1>4 DEF Libs

-----------------------------------------------------------------------------
(* The start, and the steps of the developer.                              *)

\* An empty repository.
THEOREM InitIInv == Init => IInv
  <1> SUFFICES ASSUME Init PROVE IInv
    OBVIOUS
  <1>1. Used = {}
    BY DEF Init, Used, Free
  <1>2. TypeOK
    <2>1. PICK W \in SUBSET Slips :
            master = [lib |-> [l \in Libs |-> None], farm |-> {}, linked |-> {}, wrong |-> W]
      BY DEF Init
    <2>2. master \in Commit
      BY <2>1 DEF Commit
    <2> QED
      BY <2>2, LinkageAssumption DEF Init, TypeOK
  <1>3. SettledInv /\ RunInv /\ KeptInv /\ SeenInv /\ ProperIsClean
    BY <1>1 DEF Init, SettledInv, Settled, RunInv, KeptInv, SeenInv, ProperIsClean
  <1>4. FarmInv
    BY <1>1 DEF Init, FarmInv, FarmAsLinked
  <1> QED
    BY <1>2, <1>3, <1>4 DEF IInv

\* A commit that leaves every library as it is.
LEMMA EditStep ==
    ASSUME IInv, NEW c \in Commit, Edit(c), c.lib = master.lib,
           UNCHANGED <<net, asset, builds>>,
           FarmAsLinked(c)
    PROVE  IInv'
  <1>1. TypeOK'
    <2>1. edits' \in 0..MaxEdits /\ master' \in Commit
      BY LinkageAssumption DEF IInv, TypeOK, Edit
    <2>2. Commit' = Commit /\ Build' = Build /\ Libs' = Libs
      BY DEF Commit, Build, Copy, Libs
    <2> QED
      BY <2>1, <2>2 DEF IInv, TypeOK
  <1>2. SettledInv' /\ KeptInv' /\ SeenInv' /\ ProperIsClean'
    BY DEF IInv, Edit, SettledInv, Settled, KeptInv, SeenInv, ProperIsClean, Used, Libs
  <1>3. FarmInv'
    BY DEF IInv, Edit, FarmInv, FarmAsLinked, WonThen, Used, Libs
  <1>4. RunInv'
    <2>1. Commit' = Commit
      BY DEF Commit, Libs
    <2> QED
      BY <2>1 DEF IInv, RunInv, Used
  <1> QED
    BY <1>1, <1>2, <1>3, <1>4 DEF IInv

\* create-libs.sh leaves only links that it or an earlier run of it has made.
LEMMA RelinkStep ==
    ASSUME IInv, Relink
    PROVE  IInv'
  <1> DEFINE farm == {x \in Pcs \X Libs : Wins(master, x[2], x[1])}
                       \cup {x \in master.farm : \A l \in Libs : ~Provides(master, l, x[1])}
             c == [master EXCEPT !.linked = Offered(master), !.farm = farm]
  <1>1. farm \subseteq Pcs \X Libs
    BY DEF IInv, TypeOK, Commit
  <1>2. c \in Commit /\ c.lib = master.lib /\ c.linked = Offered(master) /\ c.farm = farm
    BY <1>1 DEF IInv, TypeOK, Commit, Offered
  <1>3. Edit(c) /\ UNCHANGED <<net, asset, builds>>
    BY DEF Relink
  <1>4. FarmAsLinked(c)
    <2> SUFFICES ASSUME NEW n \in Pcs, NEW k \in Libs, <<n, k>> \in c.linked, NEW l \in Libs
                 PROVE  <<n, l>> \in farm <=> WonThen(c, l, n)
      BY <1>2 DEF FarmAsLinked
    <2>1. \A m \in Libs : <<n, m>> \in c.linked <=> Provides(master, m, n)
      BY <1>2 DEF Offered
    <2>2. WonThen(c, l, n) <=> Wins(master, l, n)
      BY <2>1 DEF WonThen, Wins
    <2>3. <<n, l>> \in farm <=> Wins(master, l, n)
      BY <2>1
    <2> QED
      BY <2>2, <2>3
  <1> HIDE DEF c, farm
  <1> QED
    BY <1>2, <1>3, <1>4, EditStep

\* A path in a script changes.
LEMMA EditScriptStep ==
    ASSUME IInv, NEW s \in Slips, EditScript(s)
    PROVE  IInv'
  <1> DEFINE W == IF s \in master.wrong THEN master.wrong \ {s} ELSE master.wrong \cup {s}
             c == [master EXCEPT !.wrong = W]
  <1>1. c \in Commit /\ c.lib = master.lib /\ c.linked = master.linked
            /\ c.farm = master.farm
    BY DEF IInv, TypeOK, Commit
  <1>2. Edit(c) /\ UNCHANGED <<net, asset, builds>>
    BY DEF EditScript
  <1>3. FarmAsLinked(c)
    BY <1>1 DEF IInv, FarmInv, FarmAsLinked, WonThen
  <1> HIDE DEF c, W
  <1> QED
    BY <1>1, <1>2, <1>3, EditStep

\* One library changes: what it concerns has missed it.
LEMMA ReplaceStep ==
    ASSUME IInv, NEW l \in Libs, NEW id \in Ids \cup {None}, Replace(l, id),
           Settled(id, l), id # None => builds[id].of.kept
    PROVE  IInv'
  <1> DEFINE c == [master EXCEPT !.lib[l] = id]
  <1>1. /\ c \in Commit /\ c.lib[l] = id /\ c.linked = master.linked /\ c.farm = master.farm
        /\ \A k \in Libs : k # l => c.lib[k] = master.lib[k]
    BY DEF IInv, TypeOK, Commit
  <1>2. master' = c /\ UNCHANGED <<net, asset>> /\ edits' \in 0..MaxEdits
    BY LinkageAssumption DEF IInv, TypeOK, Replace, Edit
  <1>3. /\ builds' \in [Ids -> Build \cup {Free}] /\ Used' = Used
        /\ \A i \in Used : /\ builds'[i].at = builds[i].at /\ builds'[i].of = builds[i].of
                           /\ builds'[i].src = builds[i].src
                           /\ builds'[i].links = builds[i].links
                           /\ builds'[i].pcs = builds[i].pcs
                           /\ builds'[i].proper = builds[i].proper
    <2>1. \A i \in Used : builds[i] \in Build
      BY UsedType DEF IInv, Used
    <2>2. \A i \in Used :
             builds'[i] = IF Concerns(builds[i], l)
                          THEN [builds[i] EXCEPT !.missed = @ \cup {l}] ELSE builds[i]
      BY DEF Replace, Used
    <2>3. \A i \in Ids \ Used : builds'[i] = Free
      BY UsedType DEF IInv, Replace
    <2>4. \A i \in Used : builds'[i] \in Build
      <3> SUFFICES ASSUME NEW i \in Used PROVE builds'[i] \in Build
        OBVIOUS
      <3>1. builds[i].missed \cup {l} \in SUBSET Libs
        BY <2>1 DEF Build
      <3> QED
        BY <2>1, <2>2, <3>1 DEF Build
    <2>5. \A i \in Used : /\ builds'[i].at = builds[i].at /\ builds'[i].of = builds[i].of
                          /\ builds'[i].src = builds[i].src
                          /\ builds'[i].links = builds[i].links
                          /\ builds'[i].pcs = builds[i].pcs
                          /\ builds'[i].proper = builds[i].proper
      BY <2>1, <2>2 DEF Build
    <2>6. builds' \in [Ids -> Build \cup {Free}]
      BY <2>3, <2>4 DEF Replace, Concerns
    <2>7. Used' = Used
      BY <2>3, <2>5 DEF Used, Free
    <2> QED
      BY <2>5, <2>6, <2>7
  <1>12. \A i \in Used : /\ builds[i].missed \subseteq builds'[i].missed
                         /\ builds[i].at = "running" => l \in builds'[i].missed
                         /\ \A r \in builds[i].links : r.of = l => l \in builds'[i].missed
    <2>1. \A i \in Used : builds[i] \in Build
      BY UsedType DEF IInv, Used
    <2>2. \A i \in Used :
             builds'[i] = IF Concerns(builds[i], l)
                          THEN [builds[i] EXCEPT !.missed = @ \cup {l}] ELSE builds[i]
      BY DEF Replace, Used
    <2>3. \A i \in Used : /\ builds[i].at = "running" => Concerns(builds[i], l)
                          /\ \A r \in builds[i].links : r.of = l => Concerns(builds[i], l)
      BY DEF Concerns
    <2>4. \A i \in Used : /\ builds[i].missed \subseteq builds'[i].missed
                          /\ Concerns(builds[i], l) => l \in builds'[i].missed
      BY <2>1, <2>2 DEF Build
    <2> QED
      BY <2>3, <2>4
  <1> HIDE DEF c
  <1>4. Libs' = Libs /\ Commit' = Commit /\ Build' = Build
    BY <1>2 DEF Libs, Commit, Build, Copy
  <1>5. TypeOK'
    BY <1>1, <1>2, <1>3, <1>4 DEF IInv, TypeOK
  <1>6. \A j, k : Settled(j, k) /\ j \in Ids \cup {None} => Settled(j, k)'
    BY <1>3 DEF Settled, Used
  <1>7. SettledInv'
    <2>1. \A k \in Libs : /\ master'.lib[k] \in Ids \cup {None} /\ Settled(master'.lib[k], k)
                          /\ asset[k] \in Ids \cup {None} /\ Settled(asset[k], k)
      BY <1>1, <1>2 DEF IInv, SettledInv, TypeOK, Commit
    <2>2. \A i \in Used : builds[i].at = "running" => builds[i].src \in Commit
      BY DEF IInv, RunInv
    <2>3. \A i \in Used : \A r \in builds[i].links : r.from = "library" => r.id \in Ids
      BY UsedType DEF IInv, Used, Build, Copy
    <2> QED
      BY <1>2, <1>3, <1>4, <1>6, <2>1, <2>2, <2>3 DEF IInv, SettledInv, Commit
  <1>8. RunInv' /\ ProperIsClean'
    BY <1>2, <1>3, <1>4 DEF IInv, RunInv, ProperIsClean
  <1>9. KeptInv'
    <2>1. \A j \in Ids : builds[j].at = "done" => builds'[j].of = builds[j].of
      BY <1>3 DEF Used
    <2> QED
      BY <1>1, <1>2, <1>4, <2>1 DEF IInv, KeptInv, Settled, SettledInv, TypeOK, Commit
  <1>10. SeenInv'
    <2>1. \A i \in Used : \A r \in builds[i].links : r.from = "library" => r.of \in Libs
      BY UsedType DEF IInv, Used, Build, Copy
    <2>2. ASSUME NEW i \in Used, builds[i].at = "running", NEW k \in Libs
          PROVE  builds[i].src.lib[k] = master'.lib[k] \/ k \in builds'[i].missed
      <3>1. builds[i].src.lib[k] = master.lib[k] \/ k \in builds[i].missed
        BY <2>2 DEF IInv, SeenInv
      <3>2. k = l => k \in builds'[i].missed
        BY <1>12, <2>2
      <3> QED
        BY <1>1, <1>2, <1>12, <3>1, <3>2
    <2>3. ASSUME NEW i \in Used, builds[i].of.kept,
                 NEW r \in builds[i].links, r.from = "library"
          PROVE  r.id = master'.lib[r.of] \/ r.of \in builds'[i].missed
      <3>1. r.id = master.lib[r.of] \/ r.of \in builds[i].missed
        BY <2>3 DEF IInv, SeenInv
      <3>2. r.of = l => r.of \in builds'[i].missed
        BY <1>12, <2>3
      <3> QED
        BY <1>1, <1>2, <1>12, <2>1, <2>3, <3>1, <3>2
    <2> QED
      BY <1>3, <1>4, <2>2, <2>3 DEF SeenInv
  <1>11. FarmInv'
    BY <1>1, <1>2, <1>3, <1>4 DEF IInv, FarmInv, FarmAsLinked, WonThen
  <1> QED
    BY <1>5, <1>7, <1>8, <1>9, <1>10, <1>11 DEF IInv

LEMMA PromoteStep ==
    ASSUME IInv, NEW p \in net, Promote(p)
    PROVE  IInv'
  <1>1. p.name \in Libs
    BY DEF Libs
  <1>2. asset[p.name] \in Ids /\ Settled(asset[p.name], p.name)
    BY <1>1 DEF IInv, TypeOK, SettledInv, Promote
  <1>3. builds[asset[p.name]].of = p
    <2>1. builds[asset[p.name]].of.name = p.name /\ builds[asset[p.name]].of \in net
      BY <1>2, NoneIsNoId DEF IInv, RunInv, Settled, Used
    <2> QED
      BY <2>1, NetType DEF IInv, WellFormed, Coherent
  <1> QED
    BY <1>1, <1>2, <1>3, ReplaceStep DEF Promote

LEMMA RemoveStep ==
    ASSUME IInv, NEW l \in Libs, Remove(l)
    PROVE  IInv'
  BY ReplaceStep DEF Remove, Settled

-----------------------------------------------------------------------------
(* The steps of a run.                                                     *)

\* One build changes to b; nothing else does but, perhaps, a release. What
\* refers to a successful build is not disturbed, for b is not one that was.
LEMMA BuildStep ==
    ASSUME IInv, NEW i \in Ids, NEW b \in Build, i \notin Used \/ builds[i].at # "done",
           builds' = [builds EXCEPT ![i] = b], UNCHANGED <<net, master, edits>>,
           asset' \in [Libs -> Ids \cup {None}], \A l \in Libs : Settled(asset[l], l)',
           b.of \in net, b.pcs \subseteq b.of.pcs,
           b.at = "running" => b.src \in Commit /\ b.links = {} /\ ~b.proper,
           b.at = "running" =>
              /\ FarmAsLinked(b.src)
              /\ \A l \in Libs : Settled(b.src.lib[l], l)
              /\ \A l \in Libs : b.src.lib[l] = master.lib[l] \/ l \in b.missed,
           \A r \in b.links : r.from = "library" => Settled(r.id, r.of),
           b.of.kept => \A r \in b.links : r.from = "library" =>
                           r.id = master.lib[r.of] \/ r.of \in b.missed,
           b.proper => \A r \in b.links : r.from # "brew"
    PROVE  IInv'
  <1>1. Libs' = Libs /\ Commit' = Commit /\ Build' = Build
    BY DEF Libs, Commit, Build, Copy
  <1>2. TypeOK'
    BY <1>1 DEF IInv, TypeOK
  <1>3. /\ builds'[i] = b
        /\ \A j \in Ids : j # i => builds'[j] = builds[j]
    BY DEF IInv, TypeOK
  <1>4. Used' = Used \cup {i}
    BY <1>3 DEF Used, Build
  <1>5. \A j \in Ids : builds[j].at = "done" =>
            builds'[j].at = "done" /\ builds'[j].of = builds[j].of
    BY <1>3 DEF Used
  <1>6. /\ \A j \in Used : builds[j].at = "running" => builds[j].src \in Commit
        /\ \A j \in Used : \A r \in builds[j].links : r.from = "library" => r.id \in Ids
    BY UsedType DEF IInv, RunInv, Used, Build, Copy
  <1>7. \A r \in b.links : r.from = "library" => r.id \in Ids
    BY DEF Build, Copy
  <1>8. SettledInv'
    <2>1. \A l \in Libs : Settled(master.lib[l], l)'
      <3> SUFFICES ASSUME NEW l \in Libs PROVE Settled(master.lib[l], l)'
        OBVIOUS
      <3>1. master.lib[l] \in Ids \cup {None} /\ Settled(master.lib[l], l)
        BY DEF IInv, SettledInv, TypeOK, Commit
      <3>2. master'.lib[l] = master.lib[l]
        OBVIOUS
      <3> QED
        BY <1>5, <3>1, <3>2 DEF Settled
    <2>2. ASSUME NEW j \in Used', builds'[j].at = "running", NEW l \in Libs
          PROVE  Settled(builds[j].src.lib[l], l)'
      <3>1. CASE j = i
        <4>1. b.src.lib[l] \in Ids \cup {None} /\ Settled(b.src.lib[l], l)
          BY <1>3, <1>7, <2>2, <3>1 DEF Commit
        <4> QED
          BY <1>3, <1>5, <3>1, <4>1 DEF Settled
      <3>2. CASE j # i
        <4>1. j \in Used /\ builds'[j] = builds[j]
          BY <1>3, <1>4, <3>2 DEF Used
        <4>2. /\ builds[j].src.lib[l] \in Ids \cup {None}
              /\ Settled(builds[j].src.lib[l], l)
          BY <1>6, <2>2, <4>1 DEF IInv, SettledInv, Commit
        <4> QED
          BY <1>5, <4>1, <4>2 DEF Settled
      <3> QED
        BY <3>1, <3>2
    <2>3. ASSUME NEW j \in Used', NEW r \in builds'[j].links, r.from = "library"
          PROVE  Settled(r.id, r.of)'
      <3>1. CASE j = i
        <4>1. r.id \in Ids /\ Settled(r.id, r.of)
          BY <1>3, <1>7, <2>3, <3>1
        <4> QED
          BY <1>5, <4>1, NoneIsNoId DEF Settled
      <3>2. CASE j # i
        BY <1>3, <1>4, <1>5, <1>6, <2>3, <3>2 DEF IInv, SettledInv, Used, Settled
      <3> QED
        BY <3>1, <3>2
    <2>4. \A j \in Used' : builds'[j].at = "running" =>
              \A l \in Libs : Settled(builds[j].src.lib[l], l)'
      BY <2>2
    <2> QED
      BY <1>1, <2>1, <2>3, <2>4 DEF SettledInv
  <1>9. RunInv' /\ ProperIsClean'
    BY <1>1, <1>3, <1>4 DEF IInv, RunInv, ProperIsClean, Used
  <1>10. KeptInv'
    <2>1. ASSUME NEW l \in Libs, master.lib[l] # None
          PROVE  builds'[master.lib[l]].of.kept
      <3>1. master.lib[l] \in Ids /\ builds[master.lib[l]].at = "done"
        BY <2>1 DEF IInv, TypeOK, Commit, SettledInv, Settled
      <3> QED
        BY <1>3, <2>1, <3>1 DEF IInv, KeptInv, Used
    <2> QED
      BY <1>1, <2>1 DEF KeptInv
  <1>11. SeenInv'
    BY <1>1, <1>3, <1>4 DEF IInv, SeenInv, Used
  <1>12. FarmInv'
    BY <1>1, <1>3, <1>4 DEF IInv, FarmInv, FarmAsLinked, WonThen, Used
  <1> QED
    BY <1>2, <1>8, <1>9, <1>10, <1>11, <1>12 DEF IInv

LEMMA BeginStep ==
    ASSUME IInv, NEW p \in net, Begin(p)
    PROVE  IInv'
  <1> DEFINE b == [at |-> "running", of |-> p, src |-> master,
                   links |-> {}, pcs |-> {}, proper |-> FALSE, missed |-> {}]
  <1>1. PICK i \in Ids \ Used : builds' = [builds EXCEPT ![i] = b]
    BY DEF Begin
  <1>2. master \in Commit /\ p \in Products
    BY NetType DEF IInv, TypeOK
  <1>3. b \in Build
    BY <1>2 DEF Build
  <1>4. \A l \in Libs : Settled(master.lib[l], l)
    BY DEF IInv, SettledInv
  <1>5. /\ asset' \in [Libs -> Ids \cup {None}]
        /\ \A l \in Libs : Settled(asset[l], l)'
    <2>1. \A j \in Ids : builds[j].at = "done" => builds'[j] = builds[j]
      BY <1>1 DEF Used
    <2> QED
      BY <2>1 DEF IInv, TypeOK, SettledInv, Settled, Begin
  <1>6. FarmAsLinked(master) /\ UNCHANGED <<net, master, edits>>
    BY DEF Begin, IInv, FarmInv
  <1>7. /\ b.at = "running" /\ b.of = p /\ b.src = master
        /\ b.links = {} /\ b.pcs = {} /\ b.proper = FALSE
    OBVIOUS
  <1> HIDE DEF b
  <1> QED
    BY <1>1, <1>2, <1>3, <1>4, <1>5, <1>6, <1>7, BuildStep

\* The committed copies a linking build may come upon are those of its commit.
LEMMA CopyType ==
    ASSUME IInv, NEW i \in Used, builds[i].at = "running", NEW l \in Present(builds[i].src)
    PROVE  /\ Committed(builds[i].src, l) \in Copy
           /\ Settled(builds[i].src.lib[l], l)
           /\ builds[i].src.lib[l] = master.lib[l] \/ l \in builds[i].missed
  <1>1. l \in Libs /\ builds[i].src.lib[l] # None
    BY DEF Present
  <1>2. builds[i].src \in Commit
    BY DEF IInv, RunInv
  <1>3. builds[i].src.lib[l] \in Ids
    BY <1>1, <1>2 DEF Commit
  <1> QED
    BY <1>1, <1>3 DEF IInv, Committed, Copy, SettledInv, SeenInv

\* What a build comes upon for one use, with the four facts that its load
\* commands take over.
GoodCopy(b, r) ==
    /\ r \in Copy
    /\ r.from = "library" => Settled(r.id, r.of)
    /\ r.from = "library" /\ b.of.kept => r.id = master.lib[r.of] \/ r.of \in b.missed

LEMMA CommittedGood ==
    ASSUME IInv, NEW i \in Used, builds[i].at = "running", NEW l \in Present(builds[i].src)
    PROVE  /\ GoodCopy(builds[i], Committed(builds[i].src, l))
           /\ Committed(builds[i].src, l).from = "library"
  BY CopyType DEF GoodCopy, Committed

LEMMA SearchedGood ==
    ASSUME NEW b, NEW n \in Libs \cup Pcs, NEW r \in Searched(n)
    PROVE  /\ GoodCopy(b, r)
           /\ r.from = "brew" => n \in Brewed
  BY DEF Searched, Elsewhere, GoodCopy, Copy

LEMMA FindsGood ==
    ASSUME IInv, NEW i \in Used, builds[i].at = "running",
           NEW u \in builds[i].of.uses, NEW r \in Finds(builds[i], u)
    PROVE  /\ GoodCopy(builds[i], r)
           /\ InOrder(builds[i], u) => r.from # "brew"
  <1> DEFINE b == builds[i]
             here == IF u.of \in Present(b.src) THEN {Committed(b.src, u.of)} ELSE {}
             linked == {Committed(b.src, l) :
                          l \in {k \in Libs : Provides(b.src, k, u.of) /\ <<u.of, k>> \in b.src.farm}}
  <1>1. /\ u \in Uses /\ b.of \in net /\ b.src \in Commit
        /\ u.how = "farm" => u.of \in Pcs
        /\ u.how # "farm" => u.of \in Libs
    BY UseType DEF IInv, RunInv
  <1>2. ASSUME NEW x \in here
        PROVE  GoodCopy(b, x) /\ x.from = "library"
    BY <1>2, CommittedGood
  <1>3. ASSUME NEW x \in linked
        PROVE  GoodCopy(b, x) /\ x.from = "library"
    BY <1>3, CommittedGood DEF Provides
  <1>4. ASSUME NEW x \in Searched(u.of)
        PROVE  GoodCopy(b, x) /\ (x.from = "brew" => u.of \in Brewed)
    BY <1>1, <1>4, SearchedGood
  <1>5. CASE u.how = "given"
    <2>1. r \in Searched(u.of) \/ r \in here
      BY <1>5 DEF Finds
    <2>2. InOrder(b, u) => here # {} /\ ~IsWrong(b, u)
      BY <1>5 DEF InOrder
    <2>3. InOrder(b, u) => r \in here
      BY <1>5, <2>2 DEF Finds
    <2> QED
      BY <1>2, <1>4, <2>1, <2>3
  <1>6. CASE u.how = "file"
    <2>1. r \in here
      BY <1>6 DEF Finds
    <2> QED
      BY <1>2, <2>1
  <1>7. CASE u.how = "farm"
    <2>1. r \in (IF linked = {} THEN Searched(u.of) ELSE linked)
      BY <1>7 DEF Finds
    <2>2. InOrder(b, u) => linked # {}
      <3>1. FarmAsLinked(b.src)
        BY DEF IInv, FarmInv
      <3>2. SUFFICES ASSUME InOrder(b, u) PROVE linked # {}
        OBVIOUS
      <3>3. Upheld(b.src, u.of) /\ \E l \in Libs : Wins(b.src, l, u.of)
        BY <1>7, <3>2 DEF InOrder
      <3>4. PICK l \in Libs : Wins(b.src, l, u.of)
        BY <3>3
      <3>5. <<u.of, l>> \in b.src.farm /\ Provides(b.src, l, u.of)
        BY <1>1, <1>7, <3>1, <3>3, <3>4, FarmLeads
      <3> QED
        BY <3>5
    <2> QED
      BY <1>3, <1>4, <2>1, <2>2
  <1>8. CASE u.how = "found"
    <2>1. r \in Searched(u.of) \/ r \in here
      BY <1>8 DEF Finds
    <2>2. InOrder(b, u) => u.of \notin Brewed
      BY <1>8 DEF InOrder
    <2> QED
      BY <1>2, <1>4, <2>1, <2>2
  <1>9. CASE u.how = "release"
    <2>1. r = [of |-> u.of, from |-> "library", id |-> asset[u.of]] /\ asset[u.of] # None
      BY <1>9 DEF Finds
    <2>2. asset[u.of] \in Ids /\ Settled(asset[u.of], u.of) /\ u.of \in Libs
      BY <1>1, <1>9, <2>1 DEF IInv, TypeOK, SettledInv
    <2>3. ~b.of.kept
      BY <1>1, <1>9, NetType DEF IInv, WellFormed, Coherent
    <2> QED
      BY <2>1, <2>2, <2>3 DEF GoodCopy, Copy
  <1> QED
    BY <1>1, <1>5, <1>6, <1>7, <1>8, <1>9 DEF Uses, Hows

\* What the linked libraries pass on is looked up in the commit once more, or
\* comes from outside, and then one of them has it already.
LEMMA InheritedGood ==
    ASSUME IInv, NEW i \in Used, builds[i].at = "running",
           NEW D, \A x \in D : GoodCopy(builds[i], x), NEW r \in Inherited(builds[i], D)
    PROVE  /\ GoodCopy(builds[i], r)
           /\ (\A x \in D : x.from = "library" => builds[x.id].proper) => r.from # "brew"
  <1> DEFINE b == builds[i]
             below == UNION {builds[x.id].links : x \in {y \in D : y.from = "library"}}
  <1>1. \/ r \in below /\ r.from # "library"
        \/ \E l \in Present(b.src) : r = Committed(b.src, l)
    BY DEF Inherited
  <1>2. CASE r \in below /\ r.from # "library"
    <2>1. PICK x \in D : x.from = "library" /\ r \in builds[x.id].links
      BY <1>2
    <2>2. x.id \in Used
      <3>1. x \in Copy /\ Settled(x.id, x.of)
        BY <2>1 DEF GoodCopy
      <3>2. x.id \in Ids
        BY <2>1, <3>1 DEF Copy
      <3> QED
        BY <3>1, <3>2, NoneIsNoId DEF Settled, Used
    <2>3. r \in Copy
      BY <2>1, <2>2, UsedType DEF IInv, Used, Build
    <2>4. builds[x.id].proper => r.from # "brew"
      BY <2>1, <2>2 DEF IInv, ProperIsClean
    <2> QED
      BY <1>2, <2>1, <2>3, <2>4 DEF GoodCopy
  <1>3. CASE \E l \in Present(b.src) : r = Committed(b.src, l)
    BY <1>3, CommittedGood
  <1> QED
    BY <1>1, <1>2, <1>3

LEMMA LinksGood ==
    ASSUME IInv, NEW i \in Used, builds[i].at = "running",
           NEW L \in Links(builds[i]), NEW r \in L
    PROVE  /\ GoodCopy(builds[i], r)
           /\ /\ \A u \in builds[i].of.uses : InOrder(builds[i], u)
              /\ \A x \in L : x.from = "library" => builds[x.id].proper
              => r.from # "brew"
  <1> DEFINE b == builds[i]
             options == UNION {Finds(b, u) : u \in b.of.uses}
             Ds == {C \in SUBSET options : \A u \in b.of.uses : C \cap Finds(b, u) # {}}
  <1>1. PICK D \in Ds : L \in {D \cup I : I \in SUBSET Inherited(b, D)}
    BY DEF Links
  <1>2. PICK I \in SUBSET Inherited(b, D) : L = D \cup I
    BY <1>1
  <1>3. \A x \in D : \E u \in b.of.uses : x \in Finds(b, u)
    BY <1>1
  <1>4. \A x \in D : /\ GoodCopy(b, x)
                     /\ (\A u \in b.of.uses : InOrder(b, u)) => x.from # "brew"
    BY <1>3, FindsGood
  <1> HIDE DEF b, Ds
  <1>5. r \in D \/ r \in Inherited(b, D)
    BY <1>2
  <1>6. CASE r \in D
    BY <1>4, <1>6 DEF b
  <1>7. CASE r \in Inherited(b, D)
    BY <1>2, <1>4, <1>7, InheritedGood DEF b
  <1> QED
    BY <1>5, <1>6, <1>7

LEMMA LinkStep ==
    ASSUME IInv, NEW i \in Ids, Link(i)
    PROVE  IInv'
  <1>1. i \in Used /\ builds[i].at = "running" /\ builds[i] \in Build
    BY UsedType DEF IInv, Link
  <1>2. PICK L \in Links(builds[i]), F \in SUBSET builds[i].of.pcs :
          builds' = [builds EXCEPT
              ![i].at = "built", ![i].src = None, ![i].links = L, ![i].pcs = F,
              ![i].missed = {l \in @ : \E r \in L : r.of = l},
              ![i].proper = /\ \A u \in builds[i].of.uses : InOrder(builds[i], u)
                            /\ \A r \in L : r.from = "library" => builds[r.id].proper]
    BY DEF Link
  <1> DEFINE proper == /\ \A u \in builds[i].of.uses : InOrder(builds[i], u)
                       /\ \A r \in L : r.from = "library" => builds[r.id].proper
             missed == {l \in builds[i].missed : \E r \in L : r.of = l}
             b == [builds[i] EXCEPT !.at = "built", !.src = None, !.links = L,
                                    !.pcs = F, !.missed = missed, !.proper = proper]
  <1>3. builds' = [builds EXCEPT ![i] = b]
    BY <1>1, <1>2 DEF IInv, TypeOK
  <1>4. \A r \in L : GoodCopy(builds[i], r) /\ (proper => r.from # "brew")
    BY <1>1, LinksGood
  <1>5. /\ proper \in BOOLEAN /\ L \subseteq Copy /\ missed \in SUBSET Libs
        /\ F \subseteq Pcs
    BY <1>1, <1>4 DEF GoodCopy, Build, Products
  <1> HIDE DEF proper, missed
  <1>6. /\ b \in Build /\ b.at = "built" /\ b.of = builds[i].of
        /\ b.links = L /\ b.pcs = F /\ b.proper = proper /\ b.missed = missed
    BY <1>1, <1>5 DEF Build
  <1> HIDE DEF b
  <1>7. UNCHANGED <<net, master, asset, edits>>
    BY DEF Link
  <1>8. \A l \in Libs : Settled(asset[l], l)'
    <2>1. \A j \in Ids : builds[j].at = "done" => builds'[j] = builds[j]
      BY <1>1, <1>3
    <2> QED
      BY <1>7, <2>1 DEF IInv, TypeOK, SettledInv, Settled
  <1>9. /\ b.of \in net /\ b.pcs \subseteq b.of.pcs
        /\ asset' \in [Libs -> Ids \cup {None}]
    BY <1>1, <1>6, <1>7 DEF IInv, TypeOK, RunInv
  <1>10. \A r \in b.links : r.from = "library" => Settled(r.id, r.of)
    BY <1>4, <1>6 DEF GoodCopy
  <1>11. b.of.kept => \A r \in b.links : r.from = "library" =>
            r.id = master.lib[r.of] \/ r.of \in b.missed
    BY <1>4, <1>6 DEF GoodCopy, missed
  <1>12. b.proper => \A r \in b.links : r.from # "brew"
    BY <1>4, <1>6
  <1> QED
    BY <1>1, <1>3, <1>6, <1>7, <1>8, <1>9, <1>10, <1>11, <1>12, BuildStep

LEMMA UploadStep ==
    ASSUME IInv, NEW i \in Ids, Upload(i)
    PROVE  IInv'
  <1> DEFINE b == [builds[i] EXCEPT !.at = "done"]
             n == builds[i].of.name
  <1>1. i \in Used /\ builds[i].at = "built" /\ builds[i] \in Build
    BY UsedType DEF IInv, Upload
  <1>2. builds' = [builds EXCEPT ![i] = b] /\ UNCHANGED <<net, master, edits>>
    BY DEF Upload, IInv, TypeOK
  <1>3. /\ b \in Build /\ b.at = "done" /\ b.of = builds[i].of /\ b.links = builds[i].links
        /\ b.pcs = builds[i].pcs
        /\ b.proper = builds[i].proper /\ b.missed = builds[i].missed
    BY <1>1 DEF Build
  <1> HIDE DEF b
  <1>4. b.of \in net /\ b.pcs \subseteq b.of.pcs /\ n \in Libs
    BY <1>1, <1>3 DEF IInv, RunInv, Libs
  <1>5. asset' = [asset EXCEPT ![n] = i]
    BY DEF Upload
  <1>6. asset' \in [Libs -> Ids \cup {None}]
    BY <1>4, <1>5 DEF IInv, TypeOK
  <1>7. \A l \in Libs : Settled(asset[l], l)'
    <2>1. \A j \in Ids : builds[j].at = "done" => builds'[j] = builds[j]
      BY <1>1, <1>2
    <2>2. builds'[i] = b
      BY <1>2 DEF IInv, TypeOK
    <2> SUFFICES ASSUME NEW l \in Libs PROVE Settled(asset[l], l)'
      OBVIOUS
    <2>3. CASE l = n
      BY <1>3, <1>5, <2>2, <2>3 DEF IInv, TypeOK, Settled
    <2>4. CASE l # n
      <3>1. asset'[l] = asset[l] /\ asset[l] \in Ids \cup {None} /\ Settled(asset[l], l)
        BY <1>5, <2>4 DEF IInv, TypeOK, SettledInv
      <3> QED
        BY <2>1, <3>1 DEF Settled
    <2> QED
      BY <2>3, <2>4
  <1>8. \A r \in b.links : r.from = "library" => Settled(r.id, r.of)
    BY <1>1, <1>3 DEF IInv, SettledInv
  <1>9. b.of.kept => \A r \in b.links : r.from = "library" =>
            r.id = master.lib[r.of] \/ r.of \in b.missed
    BY <1>1, <1>3 DEF IInv, SeenInv
  <1>10. b.proper => \A r \in b.links : r.from # "brew"
    BY <1>1, <1>3 DEF IInv, ProperIsClean
  <1> QED
    BY <1>1, <1>2, <1>3, <1>4, <1>6, <1>7, <1>8, <1>9, <1>10, BuildStep

LEMMA FailStep ==
    ASSUME IInv, NEW i \in Ids, Fail(i)
    PROVE  IInv'
  <1>1. i \in Used /\ builds[i].at # "done"
    BY DEF Fail
  <1>2. builds' = [builds EXCEPT ![i] = Free] /\ UNCHANGED <<net, master, edits>>
    BY DEF Fail
  <1>3. builds'[i] = Free /\ \A j \in Ids : j # i => builds'[j] = builds[j]
    BY <1>2 DEF IInv, TypeOK
  <1>4. Used' = Used \ {i}
    BY <1>3 DEF Used, Free
  <1>5. \A j \in Ids : builds[j].at = "done" => builds'[j] = builds[j]
    BY <1>1, <1>3
  <1>6. Libs' = Libs /\ Commit' = Commit /\ Build' = Build
    BY <1>2 DEF Libs, Commit, Build, Copy
  <1>7. /\ asset' \in [Libs -> Ids \cup {None}]
        /\ \A l \in Libs : asset'[l] \in {asset[l], None}
    BY DEF Fail, IInv, TypeOK
  <1>8. TypeOK'
    BY <1>2, <1>6, <1>7 DEF IInv, TypeOK
  <1>9. SettledInv'
    <2>1. ASSUME NEW l \in Libs
          PROVE  Settled(master.lib[l], l)' /\ Settled(asset[l], l)'
      <3>1. /\ master.lib[l] \in Ids \cup {None} /\ Settled(master.lib[l], l)
            /\ asset[l] \in Ids \cup {None} /\ Settled(asset[l], l)
        BY DEF IInv, TypeOK, Commit, SettledInv
      <3> QED
        BY <1>2, <1>5, <1>7, <3>1 DEF Settled
    <2>2. ASSUME NEW j \in Used', builds'[j].at = "running", NEW l \in Libs
          PROVE  Settled(builds[j].src.lib[l], l)'
      <3>1. j \in Used /\ builds'[j] = builds[j]
        BY <1>3, <1>4 DEF Used
      <3>2. /\ builds[j].src.lib[l] \in Ids \cup {None}
            /\ Settled(builds[j].src.lib[l], l)
        BY <2>2, <3>1 DEF IInv, RunInv, SettledInv, Commit
      <3> QED
        BY <1>5, <3>1, <3>2 DEF Settled
    <2>3. ASSUME NEW j \in Used', NEW r \in builds'[j].links, r.from = "library"
          PROVE  Settled(r.id, r.of)'
      <3>1. j \in Used /\ builds'[j] = builds[j]
        BY <1>3, <1>4 DEF Used
      <3>2. r.id \in Ids /\ Settled(r.id, r.of)
        BY <2>3, <3>1, UsedType DEF IInv, SettledInv, Used, Build, Copy
      <3> QED
        BY <1>5, <3>2, NoneIsNoId DEF Settled
    <2>4. \A j \in Used' : builds'[j].at = "running" =>
              \A l \in Libs : Settled(builds[j].src.lib[l], l)'
      BY <2>2
    <2> QED
      BY <1>6, <2>1, <2>3, <2>4 DEF SettledInv
  <1>10. RunInv' /\ ProperIsClean'
    BY <1>2, <1>3, <1>4, <1>6 DEF IInv, RunInv, ProperIsClean
  <1>11. KeptInv'
    <2>1. ASSUME NEW l \in Libs, master.lib[l] # None
          PROVE  builds'[master.lib[l]].of.kept
      <3>1. master.lib[l] \in Ids /\ builds[master.lib[l]].at = "done"
        BY <2>1 DEF IInv, TypeOK, Commit, SettledInv, Settled
      <3> QED
        BY <1>5, <2>1, <3>1 DEF IInv, KeptInv
    <2> QED
      BY <1>2, <1>6, <2>1 DEF KeptInv
  <1>12. SeenInv'
    BY <1>2, <1>3, <1>4, <1>6 DEF IInv, SeenInv
  <1>13. FarmInv'
    BY <1>2, <1>3, <1>4, <1>6 DEF IInv, FarmInv, FarmAsLinked, WonThen
  <1> QED
    BY <1>8, <1>9, <1>10, <1>11, <1>12, <1>13 DEF IInv

\* Nothing happens.
LEMMA StutterStep ==
    ASSUME IInv, UNCHANGED vars
    PROVE  IInv'
  <1>1. Libs' = Libs /\ Commit' = Commit /\ Build' = Build /\ Used' = Used
    BY DEF vars, Libs, Commit, Build, Copy, Used
  <1>2. TypeOK' /\ RunInv' /\ KeptInv' /\ SeenInv' /\ ProperIsClean'
    BY <1>1 DEF vars, IInv, TypeOK, RunInv, KeptInv, SeenInv, ProperIsClean
  <1>3. SettledInv' /\ FarmInv'
    BY <1>1 DEF vars, IInv, SettledInv, Settled, FarmInv, FarmAsLinked, WonThen
  <1> QED
    BY <1>2, <1>3 DEF IInv

-----------------------------------------------------------------------------
(***************************************************************************)
(* The theorems.                                                           *)
(***************************************************************************)

\* Every step of the developer or of a run keeps the invariant.
THEOREM NextIInv == IInv /\ [Next]_vars => IInv'
  <1> SUFFICES ASSUME IInv, [Next]_vars PROVE IInv'
    OBVIOUS
  <1>1. CASE Relink
    BY <1>1, RelinkStep
  <1>2. ASSUME NEW s \in Slips, EditScript(s) PROVE IInv'
    BY <1>2, EditScriptStep
  <1>3. ASSUME NEW l \in Libs, Remove(l) PROVE IInv'
    BY <1>3, RemoveStep
  <1>4. ASSUME NEW p \in net, Promote(p) \/ Begin(p) PROVE IInv'
    BY <1>4, PromoteStep, BeginStep
  <1>5. ASSUME NEW i \in Ids, Link(i) \/ Upload(i) \/ Fail(i) PROVE IInv'
    BY <1>5, LinkStep, UploadStep, FailStep
  <1>6. CASE UNCHANGED vars
    BY <1>6, StutterStep
  <1> QED
    BY <1>1, <1>2, <1>3, <1>4, <1>5, <1>6 DEF Next

\* The invariant holds of all products together, for any number of runs,
\* promotions, removals and edits.
THEOREM Invariance == Spec => []IInv
  BY InitIInv, NextIInv, PTL DEF Spec

\* Commits, releases and builds keep their types.
THEOREM TypeCorrect == Spec => []TypeOK
  <1>1. IInv => TypeOK
    BY DEF IInv
  <1> QED
    BY <1>1, Invariance, PTL

\* What was built properly from the ground up has no load command of
\* Homebrew's: the repair of 2026-06-20.md:46-48 reaches everything above it.
THEOREM ProperBuildsAreClean == Spec => []ProperIsClean
  <1>1. IInv => ProperIsClean
    BY DEF IInv
  <1> QED
    BY <1>1, Invariance, PTL

\* Rebuilding in the order of the dependencies (2026-06-18.md:25-27) brings any
\* set of libraries to load just what they were linked against.
THEOREM RebuiltLoads == Spec => []RebuiltChainLoads
  <1>1. IInv => RebuiltChainLoads
    <2> SUFFICES ASSUME IInv, NEW S \in SUBSET Present(master), Rebuilt(S), NEW l \in S,
                        NEW r \in builds[master.lib[l]].links
                 PROVE  /\ r.from # "brew"
                        /\ r.from = "library" => master.lib[r.of] = r.id
      BY DEF RebuiltChainLoads
    <2> DEFINE i == master.lib[l]
    <2>1. l \in Libs /\ i # None
      BY DEF Present
    <2>2. i \in Ids /\ builds[i].at = "done" /\ builds[i].of.kept
      BY <2>1 DEF IInv, TypeOK, Commit, SettledInv, Settled, KeptInv
    <2>3. i \in Used
      BY <2>2 DEF Used
    <2>4. builds[i].proper /\ (r.from = "library" => r.of \notin builds[i].missed)
      BY DEF Rebuilt
    <2> QED
      BY <2>2, <2>3, <2>4 DEF IInv, ProperIsClean, SeenInv
  <1> QED
    BY <1>1, Invariance, PTL

-----------------------------------------------------------------------------
(* The one step of Relink and the promise of create-libs.sh.               *)

\* A finite set that is not empty has a last element.
LEMMA LastOne ==
    ASSUME NEW S, IsFiniteSet(S), S # {}, NEW r \in [S -> Nat]
    PROVE  \E x \in S : \A y \in S : r[y] <= r[x]
  <1> DEFINE Above(x) == {y \in S : r[x] < r[y]}
             T == {Above(x) : x \in S}
  <1>1. T \subseteq FiniteSubsetsOf(S) /\ T # {}
    <2>1. \A x \in S : Above(x) \subseteq S
      OBVIOUS
    <2>2. T \subseteq SUBSET S /\ T # {}
      <3> HIDE DEF Above
      <3> QED
        BY <2>1
    <2>3. FiniteSubsetsOf(S) = SUBSET S
      BY FS_FiniteSubsetsOfFinite
    <2> HIDE DEF T
    <2> QED
      BY <2>2, <2>3
  <1>2. \E A \in T : \A B \in T : <<B, A>> \notin StrictSubsetOrdering(S)
    <2> HIDE DEF T
    <2> QED
      BY <1>1, FS_StrictSubsetOrderingWellFounded, WFMin
  <1>3. PICK x \in S : \A y \in S : <<Above(y), Above(x)>> \notin StrictSubsetOrdering(S)
    BY <1>2
  <1>4. ASSUME NEW y \in S, r[x] < r[y]
        PROVE  FALSE
    <2>1. Above(y) \subseteq Above(x) /\ y \in Above(x) /\ y \notin Above(y)
      BY <1>4
    <2>2. Above(x) \in SUBSET S /\ Above(y) \in SUBSET S
      OBVIOUS
    <2>3. <<Above(y), Above(x)>> \in StrictSubsetOrdering(S)
      <3> HIDE DEF Above
      <3> QED
        BY <2>1, <2>2 DEF StrictSubsetOrdering
    <2> QED
      BY <1>3, <2>3
  <1>5. \A y \in S : r[y] <= r[x]
    <2> HIDE DEF Above, T
    <2> QED
      BY <1>4
  <1> QED
    BY <1>5

\* Who provides a name is a product that may.
LEMMA Provider ==
    ASSUME IInv, NEW l, NEW n, Provides(master, l, n)
    PROVE  l \in Libs /\ \E p \in net : p.name = l /\ n \in p.pcs
  <1> DEFINE i == master.lib[l]
  <1>1. l \in Libs /\ i # None /\ n \in builds[i].pcs
    BY DEF Provides, Present
  <1>2. i \in Ids /\ builds[i].at = "done" /\ builds[i].of.name = l
    BY <1>1 DEF IInv, TypeOK, Commit, SettledInv, Settled
  <1>3. builds[i].of \in net /\ builds[i].pcs \subseteq builds[i].of.pcs
    BY <1>2 DEF IInv, RunInv, Used
  <1> QED
    BY <1>1, <1>2, <1>3

\* Of the libraries that provide a name, exactly one is visited last.
LEMMA OneWinner ==
    ASSUME IInv, NEW n \in Pcs
    PROVE  /\ \A k, l \in Libs : Wins(master, k, n) /\ Wins(master, l, n) => k = l
           /\ (\E l \in Libs : Provides(master, l, n)) => \E l \in Libs : Wins(master, l, n)
  <1>1. /\ IsFiniteSet(net)
        /\ \A p, q \in net : p.pcs \cap q.pcs # {} /\ Rank[p.name] = Rank[q.name] => p = q
    BY RankAssumption DEF IInv, TypeOK
  <1>2. \A p \in net : p.name \in Names /\ p.name \in Libs /\ Rank[p.name] \in Nat
    BY NetType, LinkageAssumption DEF IInv, Products, Libs
  <1>3. ASSUME NEW k \in Libs, NEW l \in Libs, Wins(master, k, n), Wins(master, l, n)
        PROVE  k = l
    <2>1. PICK p \in net : p.name = k /\ n \in p.pcs
      BY <1>3, Provider DEF Wins
    <2>2. PICK q \in net : q.name = l /\ n \in q.pcs
      BY <1>3, Provider DEF Wins
    <2>3. Rank[k] <= Rank[l] /\ Rank[l] <= Rank[k]
      BY <1>3 DEF Wins
    <2>4. Rank[p.name] = Rank[q.name]
      BY <1>2, <2>1, <2>2, <2>3
    <2> QED
      BY <1>1, <2>1, <2>2, <2>4
  <1>4. ASSUME NEW l \in Libs, Provides(master, l, n)
        PROVE  \E k \in Libs : Wins(master, k, n)
    <2> DEFINE S == {p \in net : Provides(master, p.name, n)}
               r == [p \in S |-> Rank[p.name]]
    <2>1. IsFiniteSet(S) /\ S # {} /\ r \in [S -> Nat]
      BY <1>1, <1>2, <1>4, Provider, FS_Subset
    <2>2. PICK p \in S : \A q \in S : r[q] <= r[p]
      <3> HIDE DEF S, r
      <3> QED
        BY <2>1, LastOne
    <2>3. \A k \in Libs : Provides(master, k, n) => Rank[k] <= Rank[p.name]
      BY <2>2, Provider
    <2>4. Provides(master, p.name, n)
      BY <2>2
    <2> QED
      BY <1>2, <2>3, <2>4 DEF Wins
  <1> QED
    BY <1>3, <1>4

\* The link of a name leads to the right library, whatever was replaced since
\* create-libs.sh was run, as long as the library that wins it is the same
\* (create-libs.sh:40-72).
THEOREM FarmRight == Spec => []FarmStaysRight
  <1>1. IInv => FarmStaysRight
    <2> SUFFICES ASSUME IInv, NEW n \in Pcs, Upheld(master, n), NEW l \in Libs
                 PROVE  Wins(master, l, n) <=>
                           <<n, l>> \in master.farm /\ Provides(master, l, n)
      BY DEF FarmStaysRight
    <2>1. master \in Commit /\ FarmAsLinked(master)
      BY DEF IInv, TypeOK, FarmInv
    <2>2. ASSUME <<n, l>> \in master.farm, Provides(master, l, n)
          PROVE  Wins(master, l, n)
      <3>1. PICK k \in Libs : Wins(master, k, n)
        BY <2>2, OneWinner
      <3>2. <<n, k>> \in master.linked
        BY <3>1 DEF Upheld, WonThen
      <3> QED
        BY <2>1, <2>2, <3>2 DEF FarmAsLinked, Upheld
    <2> QED
      BY <2>1, <2>2, FarmLeads
  <1> QED
    BY <1>1, Invariance, PTL

\* A name has one link.
OneLink == \A n \in Pcs, k, l \in Libs :
               <<n, k>> \in master.farm /\ <<n, l>> \in master.farm => k = l

LEMMA OneLinkStep == IInv /\ OneLink /\ [Next]_vars => OneLink'
  <1> SUFFICES ASSUME IInv, OneLink, [Next]_vars PROVE OneLink'
    OBVIOUS
  <1>1. net' = net /\ Libs' = Libs
    BY DEF Next, Relink, EditScript, Remove, Promote, Replace, Begin, Link, Upload,
       Fail, vars, Libs
  <1>2. CASE Relink
    <2>1. master'.farm = {x \in Pcs \X Libs : Wins(master, x[2], x[1])}
                    \cup {x \in master.farm : \A l \in Libs : ~Provides(master, l, x[1])}
      BY <1>2 DEF Relink, Edit, IInv, TypeOK, Commit
    <2> QED
      BY <1>1, <2>1, OneWinner DEF OneLink, Wins
  <1>3. CASE ~Relink
    <2>1. master'.farm = master.farm
      BY <1>3 DEF Next, EditScript, Remove, Promote, Replace, Edit, Begin, Link,
         Upload, Fail, vars, IInv, TypeOK, Commit
    <2> QED
      BY <1>1, <2>1 DEF OneLink
  <1> QED
    BY <1>2, <1>3

\* What Relink does in one step is what create-libs.sh promises of a whole run,
\* for any set of libraries and whatever became of them between the runs.
THEOREM RelinkAsPromised == Spec => RelinkKeepsPromise
<1>1. Init => OneLink
  BY DEF Init, OneLink
<1>2. ASSUME IInv, OneLink, Relink, NEW old, old = Links0
      PROVE  LF!RelinkedFrom(old)'
  <2> DEFINE F == {x \in Pcs \X Libs : Wins(master, x[2], x[1])}
                    \cup {x \in master.farm : \A l \in Libs : ~Provides(master, l, x[1])}
  <2>1. TypeOK /\ Libs' = Libs /\ net' = net /\ Libs \subseteq Names
    BY <1>2, NetType DEF IInv, Relink, Libs, Products
  <2>2. master'.farm = F /\ master'.lib = master.lib /\ Present(master)' = Present(master)
    BY <1>2 DEF IInv, TypeOK, Commit, Relink, Edit, Present, Libs
  <2>3. \A l, n : Provides(master, l, n)' <=> Provides(master, l, n)
    BY <1>2, <2>1, <2>2 DEF Provides, Relink
  <2>4. ASSUME NEW n \in Pcs, NEW l \in Libs, Provides(master, l, n)
        PROVE  Links0'[n] \in Libs /\ Wins(master, Links0'[n], n)
    <3>1. PICK k \in Libs : Wins(master, k, n)
      BY <1>2, <2>1, <2>4, OneWinner
    <3>2. \A m \in Libs : <<n, m>> \in F <=> Wins(master, m, n)
      BY <2>4
    <3>3. \A m \in Libs : <<n, m>> \in master'.farm <=> m = k
      BY <1>2, <2>1, <2>2, <3>1, <3>2, OneWinner
    <3>4. LinkTo(n)' = k
      BY <2>1, <3>3 DEF LinkTo
    <3> QED
      BY <3>1, <3>4 DEF Links0
  <2>5. ASSUME NEW n \in Pcs, \A l \in Libs : ~Provides(master, l, n)
        PROVE  Links0'[n] = Links0[n]
    <3>1. \A l \in Libs : <<n, l>> \in master'.farm <=> <<n, l>> \in master.farm
      BY <2>2, <2>5 DEF Wins
    <3>2. LinkTo(n)' = LinkTo(n)
      BY <2>1, <3>1 DEF LinkTo
    <3> QED
      BY <3>2 DEF Links0
  <2>6. ASSUME NEW n \in Pcs, \E l \in Libs : Provides(master, l, n)
        PROVE  (Links0[n] \in Names /\ LF!Wins(Links0[n], n))'
    <3>1. Links0'[n] \in Libs /\ Wins(master, Links0'[n], n)
      BY <2>4, <2>6
    <3>2. \A k \in Names : k \in Present(master) /\ Provides(master, k, n) => Rank[k] <= Rank[Links0'[n]]
      BY <3>1 DEF Wins, Present
    <3> QED
      BY <2>1, <2>2, <2>3, <3>1, <3>2 DEF LF!Wins, Wins, Provides
  <2>7. ASSUME NEW n \in Pcs, \A l \in Libs : ~Provides(master, l, n), NEW l \in Names
        PROVE  l \in Present(master)' => n \notin {m \in Pcs : Provides(master, l, m)'}
    BY <2>2, <2>3, <2>7 DEF Provides, Present
  <2> QED
    BY <1>2, <2>5, <2>6, <2>7 DEF LF!RelinkedFrom
<1>3. IInv /\ OneLink /\ [Next]_vars =>
        [Relink => \A old \in {Links0} : LF!RelinkedFrom(old)']_vars
  BY <1>2
<1> QED
  BY <1>1, <1>3, InitIInv, NextIInv, OneLinkStep, PTL DEF Spec, RelinkKeepsPromise
=============================================================================
