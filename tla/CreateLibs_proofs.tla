------------------------- MODULE CreateLibs_proofs -------------------------
(* Proofs about create-libs.sh for any set of libraries and names.          *)
EXTENDS CreateLibs, FiniteSetTheorems, TLAPS

\* Local variables of the script hold a value only where the script uses them.
LocalsInv ==
    /\ pc \notin {"rm", "ln"} => name = None
    /\ pc \notin {"file", "rm", "ln"} => cur = None /\ files = {}
    /\ name \notin files

\* What is on disk: a directory that is gone has no files.
DiskInv == \A l \in Libs : l \notin dirs \/ Ships[l] = {} => pcs[l] = {}

\* The farm relative to what the run found.
FarmInv ==
    /\ pc \in {"mkdir", "glob"} => farm = farm0
    /\ pc \in Busy /\ ~CanWrite => farm = farm0
    /\ pc = "ln" => farm[name] = None
    /\ pc \in Busy => \A n \in Names :
          farm0[n] # None /\ farm[n] = None => pc = "ln" /\ n = name

\* Library l has been visited, or is being visited and its n is behind us.
Handled(l, n) == /\ Provides(l, n) /\ l \notin todo
                 /\ ~(l = cur /\ (n \in files \/ n = name))

\* Inside the loops, with the libraries as they were when the run began.
Quiet == pc \in {"dir", "file", "rm", "ln"} /\ ~churn

\* The loops go through the libraries upward in glob order.
OrderInv == Quiet =>
    /\ \A l \in Libs, n \in Names : Provides(l, n) /\ l \notin todo =>
          /\ \A d \in todo : Rank[l] < Rank[d]
          /\ cur # None => Rank[l] <= Rank[cur]
    /\ cur # None => \A d \in todo : Rank[cur] < Rank[d]
    /\ cur # None => cur \notin todo
    /\ pc \in {"rm", "ln"} => Provides(cur, name)

\* What the loops have handled is in place, and the rest is as it was found.
InPlace(n) ==
    /\ \A l \in Libs : Handled(l, n) =>
          farm[n] \in Libs /\ Provides(farm[n], n) /\ Rank[l] <= Rank[farm[n]]
    /\ (\A l \in Libs : ~Handled(l, n)) => farm[n] = farm0[n]

PlaceInv == Quiet => \A n \in Names : n # name => InPlace(n)

IInv == /\ TypeOK /\ LocalsInv /\ DiskInv /\ FarmInv /\ OrderInv /\ PlaceInv
        /\ Complete /\ AtMostOneLost /\ AbortIsHarmless /\ NewLinksResolve

-----------------------------------------------------------------------------

LEMMA Constants ==
    /\ None \notin Subdirs /\ None \notin Names /\ None # Plain
    /\ Plain \notin Subdirs /\ Libs \subseteq Subdirs
    /\ LibDir \notin Libs /\ Star \in Names
    /\ Ships \in [Libs -> SUBSET Names]
    /\ \A l \in Libs : Star \notin Ships[l]
  BY NamesAssumption DEF Subdirs

\* The script keeps its types: each step is taken from where its locals are set.
LEMMA TypeStep == TypeOK /\ [Next]_vars => TypeOK'
<1> SUFFICES ASSUME TypeOK, [Next]_vars PROVE TypeOK'
  OBVIOUS
<1> USE Constants DEF TypeOK, Busy, Stopped, Entry, fs, rights, script, hist
<1>1. CASE Start
  BY <1>1 DEF Start, Stopped
<1>2. CASE MakeTarget
  BY <1>2 DEF MakeTarget, Exit
<1>3. CASE GlobDirs
  BY <1>3 DEF GlobDirs, Subdirs
<1>4. CASE SkipDir
  BY <1>4 DEF SkipDir
<1>5. CASE EnterDir
  BY <1>5 DEF EnterDir, Visits, HasPkgconfig, Subdirs
<1>6. CASE Finish
  BY <1>6 DEF Finish, Exit
<1>7. CASE LeaveDir
  BY <1>7 DEF LeaveDir
<1>8. CASE SkipFile
  BY <1>8 DEF SkipFile
<1>9. CASE TakeFile
  BY <1>9 DEF TakeFile
<1>10. CASE RemoveOld
  BY <1>10 DEF RemoveOld, Exit
<1>11. CASE MakeLink
  BY <1>11 DEF MakeLink, Exit
<1>12. CASE Interrupt
  BY <1>12 DEF Interrupt, Exit
<1>13. CASE Promotion
  <2> PICK l \in Libs : \/ DeleteLib(l) \/ UnpackLib(l)
                        \/ \E n \in Names : UnpackFile(l, n)
    BY <1>13 DEF Promotion
  <2>1. CASE DeleteLib(l)
    BY <2>1 DEF DeleteLib
  <2>2. CASE UnpackLib(l)
    BY <2>2 DEF UnpackLib
  <2>3. CASE \E n \in Names : UnpackFile(l, n)
    BY <2>3 DEF UnpackFile
  <2> QED
    BY <2>1, <2>2, <2>3
<1>14. CASE UNCHANGED vars
  BY <1>14 DEF vars
<1> QED
  BY <1>1, <1>2, <1>3, <1>4, <1>5, <1>6, <1>7, <1>8, <1>9, <1>10, <1>11, <1>12, <1>13, <1>14 DEF Next, Script

\* Type correctness (the state of create-libs.sh and of what it reads and
\* writes) for any set of libraries and names.
THEOREM TypeCorrect == Spec => []TypeOK
<1>1. Init => TypeOK
  BY Constants DEF Init, TypeOK, Busy, Stopped, Entry
<1> QED
  BY <1>1, TypeStep, PTL DEF Spec

-----------------------------------------------------------------------------
(* The inductive invariant is preserved.                                     *)

LEMMA LocalsStep == TypeOK /\ LocalsInv /\ [Next]_vars => LocalsInv'
<1> SUFFICES ASSUME TypeOK /\ LocalsInv, [Next]_vars PROVE LocalsInv'
  OBVIOUS
<1> USE Constants DEF fs, rights, script, hist, Busy, Stopped, TypeOK, LocalsInv
<1>1. CASE Start
  BY <1>1 DEF Start, Stopped
<1>2. CASE MakeTarget
  BY <1>2 DEF MakeTarget, Exit
<1>3. CASE GlobDirs
  BY <1>3 DEF GlobDirs
<1>4. CASE SkipDir
  BY <1>4 DEF SkipDir
<1>5. CASE EnterDir
  BY <1>5 DEF EnterDir, Visits, HasPkgconfig, Subdirs
<1>6. CASE Finish
  BY <1>6 DEF Finish, Exit
<1>7. CASE LeaveDir
  BY <1>7 DEF LeaveDir
<1>8. CASE SkipFile
  BY <1>8 DEF SkipFile
<1>9. CASE TakeFile
  BY <1>9 DEF TakeFile
<1>10. CASE RemoveOld
  BY <1>10 DEF RemoveOld, Exit
<1>11. CASE MakeLink
  BY <1>11 DEF MakeLink, Exit
<1>12. CASE Interrupt
  BY <1>12 DEF Interrupt, Exit
<1>13. CASE Promotion
  BY <1>13 DEF Promotion, DeleteLib, UnpackLib, UnpackFile
<1>14. CASE UNCHANGED vars
  BY <1>14 DEF vars
<1> QED
  BY <1>1, <1>2, <1>3, <1>4, <1>5, <1>6, <1>7, <1>8, <1>9, <1>10, <1>11, <1>12, <1>13, <1>14 DEF Next, Script

LEMMA DiskStep == TypeOK /\ DiskInv /\ [Next]_vars => DiskInv'
<1> SUFFICES ASSUME TypeOK /\ DiskInv, [Next]_vars PROVE DiskInv'
  OBVIOUS
<1> USE Constants DEF fs, rights, script, hist, Busy, Stopped, TypeOK, DiskInv
<1>1. CASE Start
  BY <1>1 DEF Start, Stopped
<1>2. CASE MakeTarget
  BY <1>2 DEF MakeTarget, Exit
<1>3. CASE GlobDirs
  BY <1>3 DEF GlobDirs
<1>4. CASE SkipDir
  BY <1>4 DEF SkipDir
<1>5. CASE EnterDir
  BY <1>5 DEF EnterDir
<1>6. CASE Finish
  BY <1>6 DEF Finish, Exit
<1>7. CASE LeaveDir
  BY <1>7 DEF LeaveDir
<1>8. CASE SkipFile
  BY <1>8 DEF SkipFile
<1>9. CASE TakeFile
  BY <1>9 DEF TakeFile
<1>10. CASE RemoveOld
  BY <1>10 DEF RemoveOld, Exit
<1>11. CASE MakeLink
  BY <1>11 DEF MakeLink, Exit
<1>12. CASE Interrupt
  BY <1>12 DEF Interrupt, Exit
<1>13. CASE Promotion
  BY <1>13 DEF Promotion, DeleteLib, UnpackLib, UnpackFile
<1>14. CASE UNCHANGED vars
  BY <1>14 DEF vars
<1> QED
  BY <1>1, <1>2, <1>3, <1>4, <1>5, <1>6, <1>7, <1>8, <1>9, <1>10, <1>11, <1>12, <1>13, <1>14 DEF Next, Script

\* rm and ln are the only writes, and they write nothing without the right to.
LEMMA FarmStep == TypeOK /\ LocalsInv /\ FarmInv /\ [Next]_vars => FarmInv'
<1> SUFFICES ASSUME TypeOK /\ LocalsInv /\ FarmInv, [Next]_vars PROVE FarmInv'
  OBVIOUS
<1> USE Constants DEF fs, rights, script, hist, Busy, Stopped, TypeOK, LocalsInv, FarmInv, CanWrite, Exists
<1>1. CASE Start
  BY <1>1 DEF Start, Stopped
<1>2. CASE MakeTarget
  BY <1>2 DEF MakeTarget, Exit
<1>3. CASE GlobDirs
  BY <1>3 DEF GlobDirs
<1>4. CASE SkipDir
  BY <1>4 DEF SkipDir
<1>5. CASE EnterDir
  BY <1>5 DEF EnterDir
<1>6. CASE Finish
  BY <1>6 DEF Finish, Exit
<1>7. CASE LeaveDir
  BY <1>7 DEF LeaveDir
<1>8. CASE SkipFile
  BY <1>8 DEF SkipFile
<1>9. CASE TakeFile
  BY <1>9 DEF TakeFile
<1>10. CASE RemoveOld
  BY <1>10 DEF RemoveOld, Exit
<1>11. CASE MakeLink
  BY <1>11 DEF MakeLink, Exit
<1>12. CASE Interrupt
  BY <1>12 DEF Interrupt, Exit
<1>13. CASE Promotion
  BY <1>13 DEF Promotion, DeleteLib, UnpackLib, UnpackFile
<1>14. CASE UNCHANGED vars
  BY <1>14 DEF vars
<1> QED
  BY <1>1, <1>2, <1>3, <1>4, <1>5, <1>6, <1>7, <1>8, <1>9, <1>10, <1>11, <1>12, <1>13, <1>14 DEF Next, Script

\* Only at an exit does anything about a finished run have to be shown.
LEMMA ExitStep == TypeOK /\ LocalsInv /\ FarmInv /\ AtMostOneLost /\ AbortIsHarmless /\ [Next]_vars => (AtMostOneLost /\ AbortIsHarmless)'
<1> SUFFICES ASSUME TypeOK /\ LocalsInv /\ FarmInv /\ AtMostOneLost /\ AbortIsHarmless, [Next]_vars PROVE (AtMostOneLost /\ AbortIsHarmless)'
  OBVIOUS
<1> USE Constants DEF fs, rights, script, hist, Busy, Stopped, TypeOK, LocalsInv, FarmInv, CanWrite, AtMostOneLost, AbortIsHarmless
<1>1. CASE Start
  BY <1>1 DEF Start, Stopped
<1>2. CASE MakeTarget
  BY <1>2 DEF MakeTarget, Exit
<1>3. CASE GlobDirs
  BY <1>3 DEF GlobDirs
<1>4. CASE SkipDir
  BY <1>4 DEF SkipDir
<1>5. CASE EnterDir
  BY <1>5 DEF EnterDir
<1>6. CASE Finish
  BY <1>6 DEF Finish, Exit
<1>7. CASE LeaveDir
  BY <1>7 DEF LeaveDir
<1>8. CASE SkipFile
  BY <1>8 DEF SkipFile
<1>9. CASE TakeFile
  BY <1>9 DEF TakeFile
<1>10. CASE RemoveOld
  BY <1>10 DEF RemoveOld, Exit
<1>11. CASE MakeLink
  BY <1>11 DEF MakeLink, Exit
<1>12. CASE Interrupt
  BY <1>12 DEF Interrupt, Exit
<1>13. CASE Promotion
  BY <1>13 DEF Promotion, DeleteLib, UnpackLib, UnpackFile
<1>14. CASE UNCHANGED vars
  BY <1>14 DEF vars
<1> QED
  BY <1>1, <1>2, <1>3, <1>4, <1>5, <1>6, <1>7, <1>8, <1>9, <1>10, <1>11, <1>12, <1>13, <1>14 DEF Next, Script

\* The outer loop takes the least directory left, so it goes upward.
LEMMA OrderStep == TypeOK /\ LocalsInv /\ DiskInv /\ OrderInv /\ [Next]_vars => OrderInv'
<1> SUFFICES ASSUME TypeOK /\ LocalsInv /\ DiskInv /\ OrderInv, [Next]_vars PROVE OrderInv'
  OBVIOUS
<1> USE Constants, RankAssumption DEF fs, rights, script, hist, Busy, Stopped, TypeOK, LocalsInv, DiskInv, OrderInv, Quiet, Provides
<1>1. CASE Start
  BY <1>1 DEF Start, Stopped
<1>2. CASE MakeTarget
  BY <1>2 DEF MakeTarget, Exit
<1>3. CASE GlobDirs
  BY <1>3 DEF GlobDirs
<1>4. CASE SkipDir
  BY <1>4 DEF SkipDir, IsNext, Visits, HasPkgconfig, Subdirs
<1>5. CASE EnterDir
  BY <1>5 DEF EnterDir, IsNext, Visits, HasPkgconfig, Subdirs
<1>6. CASE Finish
  BY <1>6 DEF Finish, Exit
<1>7. CASE LeaveDir
  BY <1>7 DEF LeaveDir
<1>8. CASE SkipFile
  BY <1>8 DEF SkipFile
<1>9. CASE TakeFile
  BY <1>9 DEF TakeFile, IsFile
<1>10. CASE RemoveOld
  BY <1>10 DEF RemoveOld, Exit
<1>11. CASE MakeLink
  BY <1>11 DEF MakeLink, Exit
<1>12. CASE Interrupt
  BY <1>12 DEF Interrupt, Exit
<1>13. CASE Promotion
  BY <1>13 DEF Promotion, DeleteLib, UnpackLib, UnpackFile
<1>14. CASE UNCHANGED vars
  BY <1>14 DEF vars
<1> QED
  BY <1>1, <1>2, <1>3, <1>4, <1>5, <1>6, <1>7, <1>8, <1>9, <1>10, <1>11, <1>12, <1>13, <1>14 DEF Next, Script

\* What has been handled stays in place: the link made now is of a later library.
LEMMA PlaceStep == TypeOK /\ LocalsInv /\ DiskInv /\ FarmInv /\ OrderInv /\ PlaceInv /\ [Next]_vars => PlaceInv'
<1> SUFFICES ASSUME TypeOK /\ LocalsInv /\ DiskInv /\ FarmInv /\ OrderInv /\ PlaceInv, [Next]_vars PROVE PlaceInv'
  OBVIOUS
<1> USE Constants, RankAssumption DEF fs, rights, script, hist, Busy, Stopped, TypeOK, LocalsInv, DiskInv, FarmInv, OrderInv, PlaceInv, InPlace, Quiet, Provides, Handled
<1>1. CASE Start
  BY <1>1 DEF Start, Stopped
<1>2. CASE MakeTarget
  BY <1>2 DEF MakeTarget, Exit
<1>3. CASE GlobDirs
  BY <1>3 DEF GlobDirs
<1>4. CASE SkipDir
  BY <1>4 DEF SkipDir, IsNext, Visits, HasPkgconfig, Subdirs
<1>5. CASE EnterDir
  BY <1>5 DEF EnterDir, IsNext, Visits, HasPkgconfig, Subdirs
<1>6. CASE Finish
  BY <1>6 DEF Finish, Exit
<1>7. CASE LeaveDir
  BY <1>7 DEF LeaveDir
<1>8. CASE SkipFile
  BY <1>8 DEF SkipFile, IsFile
<1>9. CASE TakeFile
  BY <1>9 DEF TakeFile, IsFile
<1>10. CASE RemoveOld
  BY <1>10 DEF RemoveOld, Exit
<1>11. CASE MakeLink
  <2>1. CASE ~CanWrite \/ farm[name] # None
    BY <1>11, <2>1 DEF MakeLink, Exit
  <2>2. CASE CanWrite /\ farm[name] = None
    <3>1. /\ pc = "ln" /\ pc' = "file" /\ name' = None /\ name \in Names /\ cur \in Libs
          /\ farm' = [farm EXCEPT ![name] = cur] /\ farm \in [Names -> Entry]
          /\ UNCHANGED <<pcs, todo, cur, files, churn, farm0>>
      BY <1>11, <2>2 DEF MakeLink
    <3> SUFFICES ASSUME Quiet', NEW n \in Names PROVE InPlace(n)'
      BY DEF PlaceInv
    <3>a. /\ \A l \in Libs : Handled(l, n) <=> n \in pcs[l] /\ l \notin todo /\ ~(l = cur /\ (n \in files \/ n = name))
          /\ \A l \in Libs : Handled(l, n)' <=> n \in pcs[l] /\ l \notin todo /\ ~(l = cur /\ n \in files)
      BY <3>1, Constants DEF Handled, Provides
    <3> HIDE DEF Handled
    <3>2. CASE n = name
      <4>1. farm'[n] = cur
        BY <3>1, <3>2
      <4>2. Provides(cur, n)' /\ Provides(cur, n) /\ cur \notin todo
        BY <3>1, <3>2
      <4>3. \A l \in Libs : Handled(l, n)' => Rank[l] <= Rank[cur]
        BY <3>1, <3>a, Constants DEF OrderInv, Quiet
      <4>4. Handled(cur, n)'
        BY <3>1, <3>2, <4>2, <3>a DEF LocalsInv
      <4> QED
        BY <3>1, <4>1, <4>2, <4>3, <4>4 DEF InPlace
    <3>3. CASE n # name
      <4>1. farm'[n] = farm[n] /\ farm0'[n] = farm0[n]
        BY <3>1, <3>3
      <4>2. \A l \in Libs : Handled(l, n)' <=> Handled(l, n)
        BY <3>1, <3>3, <3>a
      <4> QED
        BY <3>1, <3>3, <4>1, <4>2 DEF PlaceInv, InPlace, Quiet
    <3> QED
      BY <3>2, <3>3
  <2> QED
    BY <2>1, <2>2
<1>12. CASE Interrupt
  BY <1>12 DEF Interrupt, Exit
<1>13. CASE Promotion
  BY <1>13 DEF Promotion, DeleteLib, UnpackLib, UnpackFile
<1>14. CASE UNCHANGED vars
  BY <1>14 DEF vars
<1> QED
  BY <1>1, <1>2, <1>3, <1>4, <1>5, <1>6, <1>7, <1>8, <1>9, <1>10, <1>11, <1>12, <1>13, <1>14 DEF Next, Script

LEMMA ResolveStep == TypeOK /\ LocalsInv /\ OrderInv /\ NewLinksResolve /\ [Next]_vars => NewLinksResolve'
<1> SUFFICES ASSUME TypeOK /\ LocalsInv /\ OrderInv /\ NewLinksResolve, [Next]_vars PROVE NewLinksResolve'
  OBVIOUS
<1> USE Constants DEF fs, rights, script, hist, Busy, Stopped, TypeOK, LocalsInv, OrderInv, Quiet, NewLinksResolve, Resolves, Provides
<1>1. CASE Start
  BY <1>1 DEF Start, Stopped
<1>2. CASE MakeTarget
  BY <1>2 DEF MakeTarget, Exit
<1>3. CASE GlobDirs
  BY <1>3 DEF GlobDirs
<1>4. CASE SkipDir
  BY <1>4 DEF SkipDir
<1>5. CASE EnterDir
  BY <1>5 DEF EnterDir
<1>6. CASE Finish
  BY <1>6 DEF Finish, Exit
<1>7. CASE LeaveDir
  BY <1>7 DEF LeaveDir
<1>8. CASE SkipFile
  BY <1>8 DEF SkipFile
<1>9. CASE TakeFile
  BY <1>9 DEF TakeFile
<1>10. CASE RemoveOld
  BY <1>10 DEF RemoveOld, Exit
<1>11. CASE MakeLink
  BY <1>11 DEF MakeLink, Exit
<1>12. CASE Interrupt
  BY <1>12 DEF Interrupt, Exit
<1>13. CASE Promotion
  BY <1>13 DEF Promotion, DeleteLib, UnpackLib, UnpackFile
<1>14. CASE UNCHANGED vars
  BY <1>14 DEF vars
<1> QED
  BY <1>1, <1>2, <1>3, <1>4, <1>5, <1>6, <1>7, <1>8, <1>9, <1>10, <1>11, <1>12, <1>13, <1>14 DEF Next, Script

\* When the outer loop has run out, everything provided has been handled.
LEMMA DoneMeansRelinked ==
    TypeOK /\ LocalsInv /\ PlaceInv /\ Finish /\ ~churn =>
        \A n \in Names :
            IF \E l \in Libs : Provides(l, n)
            THEN farm[n] \in Libs /\ IsWinner(farm[n], n)
            ELSE farm[n] = farm0[n]
<1> SUFFICES ASSUME TypeOK, LocalsInv, PlaceInv, Finish, ~churn, NEW n \in Names
             PROVE  IF \E l \in Libs : Provides(l, n)
                    THEN farm[n] \in Libs /\ IsWinner(farm[n], n)
                    ELSE farm[n] = farm0[n]
  OBVIOUS
<1>1. \A l \in Libs : Handled(l, n) <=> Provides(l, n)
  BY Constants DEF Finish, LocalsInv, Handled
<1>2. InPlace(n)
  BY Constants DEF Finish, LocalsInv, PlaceInv, Quiet
<1> QED
  BY <1>1, <1>2 DEF InPlace, IsWinner

LEMMA CompleteStep ==
    TypeOK /\ LocalsInv /\ PlaceInv /\ Complete /\ [Next]_vars => Complete'
<1> SUFFICES ASSUME TypeOK, LocalsInv, PlaceInv, Complete, [Next]_vars,
                    pc' = "done", ~churn'
             PROVE  Complete'
  BY DEF Complete
<1>1. CASE Finish
  <2>1. UNCHANGED <<pcs, farm, farm0>> /\ ~churn
    BY <1>1 DEF Finish, fs, hist
  <2> QED
    BY <1>1, <2>1, DoneMeansRelinked DEF Complete, IsWinner, Provides
<1>2. CASE ~Finish
  <2>1. /\ pc = "done" /\ UNCHANGED <<pcs, farm, farm0, churn>>
    BY <1>2 DEF Next, Script, Promotion, vars, fs, rights, script, hist, Start,
        MakeTarget, GlobDirs, SkipDir, EnterDir, LeaveDir, SkipFile, TakeFile,
        RemoveOld, MakeLink, Interrupt, Exit, DeleteLib, UnpackLib, UnpackFile
  <2> QED
    BY <2>1 DEF Complete, IsWinner, Provides
<1> QED
  BY <1>1, <1>2

LEMMA Inductive == Spec => []IInv
<1>1. Init => IInv
  BY Constants DEF Init, IInv, TypeOK, Busy, Stopped, Entry, LocalsInv, DiskInv,
      FarmInv, OrderInv, PlaceInv, Quiet, Complete, AtMostOneLost,
      AbortIsHarmless, NewLinksResolve
<1>2. IInv /\ [Next]_vars => IInv'
  BY TypeStep, LocalsStep, DiskStep, FarmStep, OrderStep, PlaceStep, ExitStep,
     ResolveStep, CompleteStep DEF IInv
<1> QED
  BY <1>1, <1>2, PTL DEF Spec

-----------------------------------------------------------------------------
(* What create-libs.sh guarantees, for any libraries and names.              *)

\* After an undisturbed run every provided name is linked to its last provider
\* in glob order and every other name is as it was (create-libs.sh:40-73).
THEOREM CompleteCorrect == Spec => []Complete
  BY Inductive, PTL DEF IInv

\* A run cut off between rm and ln (create-libs.sh:66-69), or anywhere else,
\* costs at most one of the names it found.
THEOREM LossBounded == Spec => []AtMostOneLost
  BY Inductive, PTL DEF IInv

\* set -e stops a run for want of rights only (create-libs.sh:22-26), and then
\* before it changed anything.
THEOREM AbortCorrect == Spec => []AbortIsHarmless
  BY Inductive, PTL DEF IInv

\* Links made over libraries that stand still resolve (create-libs.sh:57-69).
THEOREM LinksResolve == Spec => []NewLinksResolve
  BY Inductive, PTL DEF IInv

\* create-libs.sh implements the relinking of LinkFarm.
THEOREM Refinement == Spec => ImplementsLinkFarm
<1> USE DEF fs, rights, script, hist, Busy, Stopped, LF!vars
<1>1. Init => LF!Init
  BY Constants DEF Init, LF!Init, Entry, LF!Entry
<1>2. IInv /\ [Next]_vars => [LF!Next]_(LF!vars)
  <2> SUFFICES ASSUME IInv, [Next]_vars PROVE [LF!Next]_(LF!vars)
    OBVIOUS
  <2>1. CASE Start
    BY <2>1 DEF Start, LF!Next, LF!Begin
  <2>2. CASE MakeTarget
    BY <2>2 DEF MakeTarget, Exit, LF!Next, LF!GiveUp
  <2>3. CASE GlobDirs \/ SkipDir \/ EnterDir \/ LeaveDir \/ SkipFile \/ TakeFile
    BY <2>3 DEF GlobDirs, SkipDir, EnterDir, LeaveDir, SkipFile, TakeFile
  <2>4. CASE Finish
    <3>1. ~churn => LF!Relinked
      BY <2>4, DoneMeansRelinked
      DEF IInv, LF!Relinked, LF!RelinkedFrom, LF!Wins, IsWinner, Provides
    <3> QED
      BY <2>4, <3>1 DEF Finish, Exit, LF!Next, LF!Succeed
  <2>5. CASE RemoveOld
    <3>1. CASE CanWrite
      <4>1. pc = "rm" /\ name \in Names /\ farm' = [farm EXCEPT ![name] = None]
        BY <2>5, <3>1 DEF RemoveOld, IInv, TypeOK
      <4>2. \A m \in Names : farm0[m] # None => farm[m] # None
        BY <4>1 DEF IInv, FarmInv
      <4>3. LF!Retract(name)
        BY <2>5, <3>1, <4>1, <4>2 DEF RemoveOld, LF!Retract
      <4> QED
        BY <4>1, <4>3 DEF LF!Next
    <3>2. CASE ~CanWrite
      BY <2>5, <3>2 DEF RemoveOld, Exit, LF!Next, LF!GiveUp
    <3> QED
      BY <3>1, <3>2
  <2>6. CASE MakeLink
    <3>1. CASE CanWrite /\ farm[name] = None
      <4>1. pc = "ln" /\ name \in Names /\ cur \in Libs
        BY <2>6 DEF MakeLink, IInv, TypeOK
      <4>2. churn \/ name \in pcs[cur]
        BY <4>1 DEF IInv, TypeOK, OrderInv, Quiet, Provides
      <4>3. LF!Publish(name, cur)
        BY <2>6, <3>1, <4>1, <4>2 DEF MakeLink, LF!Publish
      <4> QED
        BY <4>1, <4>3 DEF LF!Next
    <3>2. CASE ~(CanWrite /\ farm[name] = None)
      BY <2>6, <3>2 DEF MakeLink, Exit, LF!Next, LF!GiveUp
    <3> QED
      BY <3>1, <3>2
  <2>7. CASE Interrupt
    BY <2>7 DEF Interrupt, Exit, LF!Next, LF!GiveUp
  <2>8. CASE Promotion
    <3>1. pcs' \in [Libs -> SUBSET Names]
      BY <2>8, TypeStep DEF IInv, TypeOK
    <3> QED
      BY <2>8, <3>1 DEF Promotion, DeleteLib, UnpackLib, UnpackFile, LF!Next, LF!Change
  <2>9. CASE UNCHANGED vars
    BY <2>9 DEF vars
  <2> QED
    BY <2>1, <2>2, <2>3, <2>4, <2>5, <2>6, <2>7, <2>8, <2>9 DEF Next, Script
<1> QED
  BY <1>1, <1>2, Inductive, PTL DEF Spec, ImplementsLinkFarm, LF!Spec

-----------------------------------------------------------------------------
(* Which links a run replaces. Unlike OrderInv this needs no quiet libraries: *)
(* what counts is what they ship, not what is on disk at the moment.          *)

\* A name whose link has changed was linked from a directory that is behind us,
\* unless it is the one that is being relinked.
ClashInv ==
    /\ \A l \in Libs : pcs[l] \subseteq Ships[l]
    /\ cur # None => cur \notin todo
    /\ pc \in {"rm", "ln"} => name \in Ships[cur]
    /\ pc \in {"dir", "file", "rm", "ln"} => \A n \in Names : farm[n] # farm0[n] =>
          \/ pc = "ln" /\ n = name
          \/ \E l \in Libs : /\ n \in Ships[l] /\ l \notin todo
                             /\ l = cur => n \notin files /\ ~(pc = "rm" /\ n = name)

LEMMA ClashStep == IInv /\ ClashInv /\ [Next]_vars => ClashInv'
<1> SUFFICES ASSUME IInv, ClashInv, [Next]_vars PROVE ClashInv'
  OBVIOUS
<1> USE Constants DEF fs, rights, script, hist, Busy, Stopped, ClashInv
<1>0. TypeOK /\ LocalsInv
  BY DEF IInv
<1>1. CASE Start
  BY <1>0, <1>1 DEF Start
<1>2. CASE MakeTarget
  BY <1>0, <1>2 DEF MakeTarget, Exit
<1>3. CASE GlobDirs
  <2>1. farm' = farm0'
    BY <1>3 DEF GlobDirs, IInv, FarmInv
  <2> QED
    BY <1>0, <1>3, <2>1 DEF GlobDirs, LocalsInv
<1>4. CASE SkipDir
  BY <1>0, <1>4 DEF SkipDir
<1>5. CASE EnterDir
  BY <1>0, <1>5 DEF EnterDir, IsNext, Visits, TypeOK
<1>6. CASE Finish
  BY <1>0, <1>6 DEF Finish, Exit
<1>7. CASE LeaveDir
  BY <1>0, <1>7 DEF LeaveDir, TypeOK
<1>8. CASE SkipFile
  BY <1>0, <1>8 DEF SkipFile
<1>9. CASE TakeFile
  BY <1>0, <1>9 DEF TakeFile, IsFile, Provides, TypeOK
<1>10. CASE RemoveOld
  BY <1>0, <1>10 DEF RemoveOld, Exit, TypeOK
<1>11. CASE MakeLink
  BY <1>0, <1>11 DEF MakeLink, Exit, TypeOK, LocalsInv
<1>12. CASE Interrupt
  BY <1>12 DEF Interrupt, Exit
<1>13. CASE Promotion
  BY <1>0, <1>13 DEF Promotion, DeleteLib, UnpackLib, UnpackFile, TypeOK
<1>14. CASE UNCHANGED vars
  BY <1>14 DEF vars
<1> QED
  BY <1>1, <1>2, <1>3, <1>4, <1>5, <1>6, <1>7, <1>8, <1>9, <1>10, <1>11, <1>12, <1>13, <1>14 DEF Next, Script

\* The rm of create-libs.sh:66 removes a link made by the same run only if two
\* libraries ship a file of that name, whatever happens to them meanwhile.
THEOREM ClashesAreShared == Spec => []OnlySharedNamesClash
<1>1. Init => ClashInv
  BY Constants DEF Init, ClashInv
<1>2. IInv /\ ClashInv => OnlySharedNamesClash
  BY DEF IInv, TypeOK, ClashInv, OnlySharedNamesClash
<1> QED
  BY <1>1, <1>2, Inductive, ClashStep, PTL DEF Spec

\* MEMORY.md:19 infers that linking meets no conflict from a premise that fails
\* today, no two libraries with a .pc file of the same name. The inference is right.
THEOREM DistinctNamesNeverClash ==
  ASSUME \A k, l \in Libs : k # l => Ships[k] \cap Ships[l] = {}
  PROVE  Spec => []NoNameConflict
<1>1. IInv /\ OnlySharedNamesClash => NoNameConflict
  BY DEF IInv, TypeOK, OnlySharedNamesClash, NoNameConflict
<1> QED
  BY <1>1, Inductive, ClashesAreShared, PTL

-----------------------------------------------------------------------------
(* What a run that was cut off has cost.                                     *)

LEMMA HealStep == IInv /\ LossHeals /\ [Next]_vars => LossHeals'
<1> SUFFICES ASSUME IInv, LossHeals, [Next]_vars PROVE LossHeals'
  OBVIOUS
<1>1. CASE Start
  BY <1>1 DEF Start, LossHeals, fs
\* Only rm takes a link away, and the library it does that for is still there.
<1>2. CASE RemoveOld
  <2> SUFFICES ASSUME ~churn, NEW n \in Names, farm0[n] # None, farm'[n] = None
               PROVE  \E l \in Libs : Provides(l, n)
    BY <1>2 DEF RemoveOld, LossHeals, fs, hist, Provides
  <2>1. CASE farm[n] = None
    BY <2>1 DEF LossHeals
  <2>2. CASE farm[n] # None
    <3>1. farm \in [Names -> Entry] /\ name \in Names /\ cur \in Libs
      BY <1>2 DEF RemoveOld, IInv, TypeOK
    <3>2. n = name
      BY <1>2, <2>2, <3>1 DEF RemoveOld
    <3>3. Provides(cur, name)
      BY <1>2 DEF RemoveOld, IInv, OrderInv, Quiet
    <3> QED
      BY <3>1, <3>2, <3>3
  <2> QED
    BY <2>1, <2>2
<1>3. CASE MakeLink
  BY <1>3, Constants DEF MakeLink, Exit, LossHeals, IInv, TypeOK, Provides, fs, hist
<1>4. CASE Promotion
  BY <1>4 DEF Promotion, DeleteLib, UnpackLib, UnpackFile, LossHeals
<1>5. CASE ~(Start \/ RemoveOld \/ MakeLink \/ Promotion)
  <2>1. UNCHANGED <<pcs, farm, farm0, churn>>
    BY <1>5 DEF Next, Script, vars, fs, hist, MakeTarget, GlobDirs, SkipDir,
        EnterDir, Finish, LeaveDir, SkipFile, TakeFile, Interrupt
  <2> QED
    BY <2>1 DEF LossHeals, Provides
<1> QED
  BY <1>1, <1>2, <1>3, <1>4, <1>5

\* The one name that a run cut off between rm and ln may cost (LossBounded) is
\* provided by a library, so the next run that ends restores it (CompleteCorrect).
THEOREM LossesHeal == Spec => []LossHeals
<1>1. Init => LossHeals
  BY DEF Init, LossHeals
<1> QED
  BY <1>1, Inductive, HealStep, PTL DEF Spec

-----------------------------------------------------------------------------
(* Progress.                                                                 *)

PerDir == 3 * Cardinality(Names) + 3

LEMMA Sizes ==
    /\ PerDir \in Nat /\ Cardinality(Names) \in Nat
    /\ \A T \in SUBSET Names : /\ Cardinality(T) \in Nat
                              /\ Cardinality(T) <= Cardinality(Names)
                              /\ \A n \in T : Cardinality(T \ {n}) = Cardinality(T) - 1
    /\ \A T \in SUBSET Subdirs :
          /\ Cardinality(T) \in Nat
          /\ Cardinality(T) <= Cardinality(Subdirs)
          /\ \A d \in T : Cardinality(T \ {d}) = Cardinality(T) - 1
    /\ Cardinality({}) = 0
<1>1. IsFiniteSet(Names) /\ IsFiniteSet(Subdirs)
  BY NamesAssumption, FS_AddElement DEF Subdirs
<1>2. \A S : IsFiniteSet(S) =>
        /\ Cardinality(S) \in Nat
        /\ \A T \in SUBSET S : /\ IsFiniteSet(T) /\ Cardinality(T) \in Nat
                               /\ Cardinality(T) <= Cardinality(S)
                               /\ \A x \in T : Cardinality(T \ {x}) = Cardinality(T) - 1
  BY FS_CardinalityType, FS_Subset, FS_RemoveElement
<1> QED
  BY <1>1, <1>2, FS_EmptySet DEF PerDir

\* What Left amounts to at each place in the script.
Amounts(left, p, forAllDirs, forDirs, forFiles) ==
    /\ p = "mkdir" => left = forAllDirs + 3
    /\ p = "glob"  => left = forAllDirs + 2
    /\ p = "dir"   => left = forDirs + forFiles + 1
    /\ p = "file"  => left = forDirs + forFiles + 2
    /\ p = "ln"    => left = forDirs + forFiles + 3
    /\ p = "rm"    => left = forDirs + forFiles + 4
    /\ p \in Stopped => left = 0

ForAllDirs == PerDir * Cardinality(Subdirs)
ForDirs    == PerDir * Cardinality(todo)
ForFiles   == 3 * Cardinality(files)

LEMMA LeftAmounts ==
    /\ Amounts(Left, pc, ForAllDirs, ForDirs, ForFiles)
    /\ Amounts(Left', pc', ForAllDirs, ForDirs', ForFiles')
  BY DEF Amounts, Left, PerDir, Stopped, ForAllDirs, ForDirs, ForFiles

\* Multiplication, once and for all: what a step takes off the sum.
LEMMA Costs ==
  ASSUME TypeOK, TypeOK'
  PROVE  /\ PerDir \in Nat /\ ForAllDirs \in Nat
         /\ ForDirs \in Nat /\ ForDirs' \in Nat /\ ForDirs' <= ForAllDirs
         /\ ForFiles \in Nat /\ ForFiles' \in Nat /\ ForFiles' + 3 <= PerDir
         /\ \A d \in todo : todo' = todo \ {d} => ForDirs' = ForDirs - PerDir
         /\ \A n \in files : files' = files \ {n} => ForFiles' = ForFiles - 3
         /\ todo' = todo => ForDirs' = ForDirs
         /\ files' = files => ForFiles' = ForFiles
         /\ files' = {} => ForFiles' = 0
<1> DEFINE D == Cardinality(todo)  A == Cardinality(Subdirs)
<1>1. /\ D \in Nat /\ A \in Nat /\ D' \in Nat /\ D' <= A
      /\ \A d \in todo : todo' = todo \ {d} => D' = D - 1
  BY Sizes DEF TypeOK
<1>2. PerDir \in Nat /\ ForFiles' + 3 <= PerDir /\ ForFiles \in Nat /\ ForFiles' \in Nat
  BY Sizes DEF TypeOK, ForFiles, PerDir
<1>3. \A n \in files : files' = files \ {n} => ForFiles' = ForFiles - 3
  BY Sizes DEF TypeOK, ForFiles
<1>4. files' = {} => ForFiles' = 0
  BY Sizes DEF ForFiles
<1>5. \A a, b \in Nat : /\ PerDir * a \in Nat
                        /\ a <= b => PerDir * a <= PerDir * b
                        /\ b = a - 1 => PerDir * b = PerDir * a - PerDir
  BY <1>2
<1>6. /\ ForAllDirs \in Nat /\ ForDirs \in Nat /\ ForDirs' \in Nat
      /\ ForDirs' <= ForAllDirs
      /\ D' = D - 1 => ForDirs' = ForDirs - PerDir
  <2> HIDE DEF D, A
  <2>1. ForAllDirs = PerDir * A /\ ForDirs = PerDir * D /\ ForDirs' = PerDir * D'
    BY DEF ForAllDirs, ForDirs, D, A
  <2> QED
    BY <1>1, <1>5, <2>1
<1>7. /\ todo' = todo => ForDirs' = ForDirs
      /\ files' = files => ForFiles' = ForFiles
  BY DEF ForDirs, ForFiles
<1> QED
  BY <1>1, <1>2, <1>3, <1>4, <1>6, <1>7

\* Listing the directories, and entering one, replaces an estimate by a count.
LEMMA ListingCosts ==
    \A all, dirsLeft, filesLeft \in Nat :
        dirsLeft <= all /\ filesLeft = 0 => dirsLeft + filesLeft + 1 < all + 2
  OBVIOUS

LEMMA EnteringCosts ==
    \A perDir, before, dirsLeft, filesBefore, filesLeft \in Nat :
        dirsLeft = before - perDir /\ filesLeft + 3 <= perDir =>
            dirsLeft + filesLeft + 2 < before + filesBefore + 1
  OBVIOUS

LEMMA ShorterStep ==
    IInv /\ [Next]_vars /\ pc \in Busy =>
        \/ Left' < Left
        \/ churn' /\ UNCHANGED <<farm, script>>
        \/ UNCHANGED vars
<1> SUFFICES ASSUME IInv, [Next]_vars, pc \in Busy
             PROVE  \/ Left' < Left
                    \/ churn' /\ UNCHANGED <<farm, script>>
                    \/ UNCHANGED vars
  OBVIOUS
<1>0. TypeOK /\ LocalsInv /\ TypeOK'
  BY TypeStep DEF IInv
<1>1. /\ Amounts(Left, pc, ForAllDirs, ForDirs, ForFiles)
      /\ Amounts(Left', pc', ForAllDirs, ForDirs', ForFiles')
  BY LeftAmounts
<1>2. PerDir \in Nat /\ ForAllDirs \in Nat /\ ForDirs \in Nat /\ ForFiles \in Nat
  BY <1>0, Costs
\* Where a run may stop there is nothing left.
<1>3. pc' \in Stopped => Left' < Left
  BY <1>1, <1>2 DEF Amounts, Stopped, Busy
<1>4. CASE Start
  BY <1>4 DEF Start, Busy, Stopped
<1>5. CASE MakeTarget
  BY <1>1, <1>2, <1>3, <1>5 DEF MakeTarget, Exit, Amounts, Stopped
<1>6. CASE GlobDirs
  <2>1. /\ ForDirs' \in Nat /\ ForFiles' \in Nat
        /\ ForDirs' <= ForAllDirs /\ ForFiles' = 0
    BY <1>0, <1>6, Costs DEF GlobDirs, LocalsInv
  <2>2. Left = ForAllDirs + 2 /\ Left' = ForDirs' + ForFiles' + 1
    BY <1>1, <1>6 DEF GlobDirs, Amounts
  <2> QED
    BY <1>2, <2>1, <2>2, ListingCosts, Zenon
<1>7. CASE SkipDir
  <2>1. ForDirs' = ForDirs - PerDir /\ ForFiles' = ForFiles
    BY <1>0, <1>7, Costs DEF SkipDir
  <2>2. PerDir > 0
    BY <1>0, Costs
  <2> QED
    BY <1>1, <1>2, <1>7, <2>1, <2>2 DEF SkipDir, Amounts
<1>8. CASE EnterDir
  <2>1. /\ ForDirs' \in Nat /\ ForFiles' \in Nat
        /\ ForDirs' = ForDirs - PerDir /\ ForFiles' + 3 <= PerDir
    BY <1>0, <1>8, Costs DEF EnterDir
  <2>2. Left = ForDirs + ForFiles + 1 /\ Left' = ForDirs' + ForFiles' + 2
    BY <1>1, <1>8 DEF EnterDir, Amounts
  <2> QED
    BY <1>2, <2>1, <2>2, EnteringCosts, Zenon
<1>9. CASE Finish \/ Interrupt
  BY <1>3, <1>9 DEF Finish, Interrupt, Exit, Stopped
<1>10. CASE LeaveDir
  <2>1. ForDirs' = ForDirs /\ ForFiles' = ForFiles
    BY <1>0, <1>10, Costs DEF LeaveDir
  <2> QED
    BY <1>1, <1>2, <1>10, <2>1 DEF LeaveDir, Amounts
<1>11. CASE SkipFile
  <2>1. ForDirs' = ForDirs /\ ForFiles' = ForFiles - 3
    BY <1>0, <1>11, Costs DEF SkipFile
  <2> QED
    BY <1>1, <1>2, <1>11, <2>1 DEF SkipFile, Amounts
<1>12. CASE TakeFile
  <2>1. ForDirs' = ForDirs /\ ForFiles' = ForFiles - 3
    BY <1>0, <1>12, Costs DEF TakeFile
  <2> QED
    BY <1>1, <1>2, <1>12, <2>1 DEF TakeFile, Amounts
<1>13. CASE RemoveOld \/ MakeLink
  <2>1. \/ pc' = "aborted"
        \/ pc = "rm" /\ pc' = "ln" /\ todo' = todo /\ files' = files
        \/ pc = "ln" /\ pc' = "file" /\ todo' = todo /\ files' = files
    BY <1>13 DEF RemoveOld, MakeLink, Exit
  <2>2. pc' # "aborted" => ForDirs' = ForDirs /\ ForFiles' = ForFiles
    BY <1>0, <2>1, Costs
  <2> QED
    BY <1>1, <1>2, <1>3, <2>1, <2>2 DEF Amounts, Stopped
<1>14. CASE Promotion
  BY <1>14 DEF Promotion, DeleteLib, UnpackLib, UnpackFile
<1> QED
  BY <1>4, <1>5, <1>6, <1>7, <1>8, <1>9, <1>10, <1>11, <1>12, <1>13, <1>14
  DEF Next, Script

\* A run of create-libs.sh takes at most PerDir * |Subdirs| + 3 operations,
\* whatever is done to the libraries under its loops (create-libs.sh:40-73).
THEOREM RunsGetShorter == Spec => RunsShorten
<1>1. IInv /\ [Next]_vars =>
        [(pc \in Busy) => Left' < Left \/ (churn' /\ UNCHANGED <<farm, script>>)]_vars
  BY ShorterStep
<1> QED
  BY <1>1, Inductive, PTL DEF Spec, RunsShorten
============================================================================
