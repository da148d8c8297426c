------------------------- MODULE BuildScript_proofs -------------------------
(***************************************************************************)
(* What holds of every build script, whatever its profile, the versions it *)
(* is run with and the places it installs to.                              *)
(***************************************************************************)
EXTENDS BuildScript, FiniteSetTheorems, TLAPS

(***************************************************************************)
(* The inductive invariant.                                                *)
(***************************************************************************)

\* A tarball that got past tar is whole.
TarballInv ==
    /\ \A v \in Versions : cache[v] = "page" => script.fetch = "lax"
    /\ pc \in {"wipe", "unpack"} => cache[Key] # "none"
    /\ pc \in Compiling \cup Installing => cache[Key] = "good"

\* A tree that was removed first holds nothing of an earlier run.
TreeInv ==
    /\ script.rootTree => \A v \in Versions :
          \/ tree[v] \in {"none", "raw"}
          \/ canSudo /\ tree[v] \in {"touched", "configured", "built"}
    /\ script.wipes /\ pc = "unpack" => tree[Key] = "none"
    /\ script.wipes /\ pc \in Compiling => tree[Key] # "stale"
    /\ pc \in Installing => \/ tree[Key] = "built"
                            \/ tree[Key] = "mixed" /\ ~script.wipes

\* Nothing is written before make is through, or without the right to.
WriteInv ==
    /\ pc \in Early \cup Compiling \cup {"append"} => prefix = before
    /\ pc = "install" => MayInstall \/ (todo = ByMakeInstall /\ prefix = before)
    /\ pc \in {"strip", "static", "ini", "show"} => MayInstall

\* How far the installation has got.
LayoutInv ==
    /\ pc = "install" => \A f \in Files :
          prefix[where][f] = IF f \in todo THEN before[where][f] ELSE Laid(f)
    /\ pc = "strip" => \A f \in Files :
          \/ prefix[where][f] = Laid(f)
          \/ Kind[f] \in script.strips /\ prefix[where][f] = {}
    /\ pc = "static" => \A f \in Files :
          prefix[where][f] = IF Kind[f] \in script.strips THEN {} ELSE Laid(f)
    /\ pc = "ini" => \A f \in Files :
          prefix[where][f] =
             IF Kind[f] \in script.strips THEN {}
             ELSE IF f \in Of("archive") /\ script.archive = "copied"
                  THEN {Key} ELSE Laid(f)
    /\ pc \in {"install", "strip", "static", "ini"} =>
          \A p \in Places \ {where} : prefix[p] = before[p]

\* The two places after the templates are copied.
DoneInv ==
    pc \in {"show", "done"} =>
        /\ \A f \in Files : prefix[where][f] = Wanted(f)
        /\ \A p \in Places \ {where}, f \in Files :
              prefix[p][f] = IF p = Home /\ script.ini /\ f \in Of("ini")
                             THEN {Key} ELSE before[p][f]

IInv == /\ TypeOK /\ TarballInv /\ TreeInv /\ WriteInv /\ LayoutInv /\ DoneInv
        /\ DamageIsBounded /\ AbortsExplained

-----------------------------------------------------------------------------

LEMMA Setting ==
    ASSUME TypeOK
    PROVE  /\ script.mkprefix \in BOOLEAN /\ script.pinned \in BOOLEAN
           /\ script.wipes \in BOOLEAN /\ script.sudo \in BOOLEAN
           /\ script.rootTree \in BOOLEAN /\ script.ini \in BOOLEAN
           /\ script.sudoStrip \in BOOLEAN /\ script.runs \in BOOLEAN
           /\ script.fetch \in {"lax", "strict"}
           /\ script.configure \in {"checked", "ignored", "none"}
           /\ script.archive \in {"installed", "appended", "copied"}
           /\ script.strips \in SUBSET {"bin", "share"}
           /\ script.sudo => script.sudoStrip /\ ~script.mkprefix
           /\ script.ini => script.sudo
           /\ script.rootTree => script.wipes /\ script.configure # "none"
           /\ Key \in Versions
           /\ Ships[Key] \in SUBSET Files
           /\ ByMakeInstall \in SUBSET Files
           /\ \E f \in ByMakeInstall : Kind[f] = "lib"
  <1>1. script \in Profile
    BY ScriptAssumption DEF TypeOK
  <1>2. Key \in Versions
    BY FileAssumption DEF TypeOK, Key
  <1>3. Ships[Key] \in SUBSET Files /\ ByMakeInstall \in SUBSET Files
    BY <1>2, FileAssumption DEF ByMakeInstall
  <1>4. \E f \in ByMakeInstall : Kind[f] = "lib"
    BY <1>2, FileAssumption DEF ByMakeInstall
  <1>5. /\ script.sudo => script.sudoStrip /\ ~script.mkprefix
        /\ script.ini => script.sudo
        /\ script.rootTree => script.wipes /\ script.configure # "none"
    BY ScriptAssumption DEF TypeOK
  <1> QED
    BY <1>1, <1>2, <1>3, <1>4, <1>5 DEF Profile

\* What a run does not change while it is under way.
LEMMA Fixed ==
    ASSUME UNCHANGED <<setting, ver, where, before>>
    PROVE  /\ Key' = Key /\ ByMakeInstall' = ByMakeInstall
           /\ MayInstall' = MayInstall /\ MayStrip' = MayStrip
           /\ \A k \in Kinds : Of(k)' = Of(k)
           /\ \A f \in Files : Laid(f)' = Laid(f) /\ Wanted(f)' = Wanted(f)
  BY DEF setting, Key, ByMakeInstall, MayInstall, MayStrip, Of, Laid, Wanted

LEMMA PutType ==
    ASSUME TypeOK, NEW p \in Places, NEW S \in SUBSET Files
    PROVE  Put(p, S) \in [Places -> [Files -> SUBSET Versions]]
  <1>1. [f \in Files |-> IF f \in S THEN {Key} ELSE prefix[p][f]] \in [Files -> SUBSET Versions]
    BY Setting DEF TypeOK
  <1>2. Put(p, S) = [prefix EXCEPT ![p] =
                        [f \in Files |-> IF f \in S THEN {Key} ELSE prefix[p][f]]]
    BY DEF Put, TypeOK
  <1> QED
    BY <1>1, <1>2 DEF TypeOK

LEMMA JoinType ==
    ASSUME TypeOK, NEW S \in SUBSET Files
    PROVE  Join(S) \in [Places -> [Files -> SUBSET Versions]]
  <1> DEFINE new == [f \in Files |-> IF f \in S THEN prefix[where][f] \cup {Key}
                                     ELSE prefix[where][f]]
  <1>1. new \in [Files -> SUBSET Versions]
    BY Setting DEF TypeOK
  <1>2. Join(S) = [prefix EXCEPT ![where] = new]
    BY DEF Join, TypeOK
  <1> HIDE DEF new
  <1> QED
    BY <1>1, <1>2 DEF TypeOK

LEMMA DropType ==
    ASSUME TypeOK, NEW S
    PROVE  Drop(S) \in [Places -> [Files -> SUBSET Versions]]
  <1> DEFINE new == [f \in Files |-> IF f \in S THEN {} ELSE prefix[where][f]]
  <1>1. new \in [Files -> SUBSET Versions]
    BY DEF TypeOK
  <1>2. Drop(S) = [prefix EXCEPT ![where] = new]
    BY DEF Drop, TypeOK
  <1> HIDE DEF new
  <1> QED
    BY <1>1, <1>2 DEF TypeOK

\* A step of a run keeps the type when it keeps that of what it changes.
LEMMA TypeStep ==
    ASSUME TypeOK, UNCHANGED <<setting, ver, where, before>>,
           cache' \in [Versions -> Tarball], tree' \in [Versions -> Tree],
           prefix' \in [Places -> [Files -> SUBSET Versions]],
           pc' \in Busy \cup Stopped, why' \in Outcome, todo' \in SUBSET ByMakeInstall
    PROVE  TypeOK'
  BY Fixed DEF TypeOK, setting

\* What the run has left so far.
LEMMA MarksSoFar ==
    ASSUME IInv, pc \in Installing, NEW p \in Places, NEW f \in Files
    PROVE  Mark(p, f)
  <1>1. /\ \A g \in Of("archive") : Kind[g] = "archive"
        /\ \A g \in Of("ini") : Kind[g] = "ini"
        /\ where \in Places /\ script.strips \in SUBSET {"bin", "share"}
    BY Setting DEF IInv, TypeOK, Of
  <1>2. CASE pc = "append"
    BY <1>2 DEF IInv, WriteInv, Mark
  <1>3. CASE pc \in {"install", "strip", "static", "ini"} /\ p = where
    BY <1>1, <1>3 DEF IInv, LayoutInv, Laid, Mark
  <1>4. CASE pc \in {"install", "strip", "static", "ini"} /\ p # where
    BY <1>1, <1>4 DEF IInv, LayoutInv, Mark
  <1>5. CASE pc = "show"
    BY <1>1, <1>5 DEF IInv, DoneInv, Wanted, Laid, Mark
  <1> QED
    BY <1>2, <1>3, <1>4, <1>5 DEF Installing

LEMMA MarksStay ==
    ASSUME IInv, pc \in Installing, UNCHANGED <<setting, ver, where, before, prefix>>
    PROVE  \A p \in Places, f \in Files : Mark(p, f)'
  <1>1. /\ Of("archive")' = Of("archive") /\ Of("ini")' = Of("ini")
        /\ ByMakeInstall' = ByMakeInstall /\ Key' = Key /\ script' = script
    BY Fixed DEF Kinds, setting
  <1>2. \A p \in Places, f \in Files : Mark(p, f)
    BY MarksSoFar
  <1> QED
    BY <1>1, <1>2 DEF Mark

LEMMA JoinMarks ==
    ASSUME IInv, pc = "append", script.archive = "appended",
           NEW S \in SUBSET Of("archive"), prefix' = Join(S),
           UNCHANGED <<setting, ver, where, before>>
    PROVE  \A p \in Places, f \in Files : Mark(p, f)'
  <1>1. /\ Of("archive")' = Of("archive") /\ Key' = Key /\ script' = script
        /\ where \in Places /\ prefix = before /\ TypeOK
    BY Fixed DEF IInv, TypeOK, WriteInv, Kinds, setting
  <1>2. \A p \in Places, f \in Files :
           prefix'[p][f] = IF p = where /\ f \in S THEN before[p][f] \cup {Key}
                           ELSE before[p][f]
    BY <1>1 DEF Join, TypeOK
  <1> QED
    BY <1>1, <1>2 DEF Mark

LEMMA MakePrefixStep ==
    ASSUME IInv, MakePrefix
    PROVE  IInv'
  <1>1. TypeOK'
    <2>1. /\ UNCHANGED <<setting, ver, where, before, prefix>>
          /\ TypeOK /\ Key \in Versions /\ todo' \in SUBSET ByMakeInstall
          /\ pc' \in Busy \cup Stopped /\ why' \in Outcome
      BY Setting DEF IInv, TypeOK, MakePrefix, Absent, Goto, Abort, setting, Busy, Early, Compiling,
         Installing, Stopped, Outcome
    <2>2. cache' \in [Versions -> Tarball] /\ tree' \in [Versions -> Tree]
      BY <2>1 DEF TypeOK, MakePrefix, Absent
    <2> QED
      BY <2>1, <2>2, TypeStep DEF TypeOK
  <1>2. TarballInv'
    BY Setting, FileAssumption DEF IInv, MakePrefix, Absent, Goto, Abort,
       setting, run, TarballInv, TypeOK, Key, Busy, Early, Compiling,
       Installing, Stopped, Tarball, Tree, Outcome
  <1>3. TreeInv'
    BY Setting, FileAssumption DEF IInv, MakePrefix, Absent, Goto, Abort,
       setting, run, TreeInv, TarballInv, TypeOK, Key, Busy, Early,
       Compiling, Installing, Stopped, Tarball, Tree, Outcome
  <1>4. WriteInv'
    BY Setting, FileAssumption DEF IInv, MakePrefix, Absent, Goto, Abort,
       setting, run, WriteInv, LayoutInv, TypeOK, MayInstall, Key,
       ByMakeInstall, Busy, Early, Compiling, Installing, Stopped, Tarball,
       Tree, Outcome
  <1>5. LayoutInv'
    BY Setting, FileAssumption DEF IInv, MakePrefix, Absent, Goto, Abort,
       setting, run, LayoutInv, WriteInv, TypeOK, Laid, Of, ByMakeInstall,
       Key, MayInstall, Busy, Early, Compiling, Installing, Stopped,
       Tarball, Tree, Outcome
  <1>6. DoneInv'
    BY Setting, FileAssumption DEF IInv, MakePrefix, Absent, Goto, Abort,
       setting, run, DoneInv, LayoutInv, Wanted, Laid, Of, ByMakeInstall,
       Key, TypeOK, Busy, Early, Compiling, Installing, Stopped, Tarball,
       Tree, Outcome
  <1>7. DamageIsBounded'
    <2>1. pc' = "aborted" => UNCHANGED <<prefix, before>> /\ prefix = before
      BY DEF IInv, WriteInv, MakePrefix, Goto, Abort, Early, Compiling
    <2> QED
      BY <2>1 DEF DamageIsBounded, Mark
  <1>8. AbortsExplained'
    BY Setting, FileAssumption DEF IInv, MakePrefix, Absent, Goto, Abort,
       setting, run, AbortsExplained, TarballInv, TreeInv, WriteInv,
       LayoutInv, TypeOK, MayInstall, MayStrip, Key, Busy, Early, Compiling,
       Installing, Stopped, Tarball, Tree, Outcome
  <1> QED
    BY <1>1, <1>2, <1>3, <1>4, <1>5, <1>6, <1>7, <1>8 DEF IInv

LEMMA FetchStep ==
    ASSUME IInv, Fetch
    PROVE  IInv'
  <1>1. TypeOK'
    <2>1. /\ UNCHANGED <<setting, ver, where, before, prefix>>
          /\ TypeOK /\ Key \in Versions /\ todo' \in SUBSET ByMakeInstall
          /\ pc' \in Busy \cup Stopped /\ why' \in Outcome
      BY Setting DEF IInv, TypeOK, Fetch, Tarball, Goto, Abort, setting, Busy, Early, Compiling,
         Installing, Stopped, Outcome
    <2>2. cache' \in [Versions -> Tarball] /\ tree' \in [Versions -> Tree]
      BY <2>1 DEF TypeOK, Fetch, Tarball
    <2> QED
      BY <2>1, <2>2, TypeStep DEF TypeOK
  <1>2. TarballInv'
    BY Setting, FileAssumption DEF IInv, Fetch, Goto, Abort, setting, run,
       TarballInv, TypeOK, Key, Busy, Early, Compiling, Installing, Stopped,
       Tarball, Tree, Outcome
  <1>3. TreeInv'
    BY Setting, FileAssumption DEF IInv, Fetch, Goto, Abort, setting, run,
       TreeInv, TarballInv, TypeOK, Key, Busy, Early, Compiling, Installing,
       Stopped, Tarball, Tree, Outcome
  <1>4. WriteInv'
    BY Setting, FileAssumption DEF IInv, Fetch, Goto, Abort, setting, run,
       WriteInv, LayoutInv, TypeOK, MayInstall, Key, ByMakeInstall, Busy,
       Early, Compiling, Installing, Stopped, Tarball, Tree, Outcome
  <1>5. LayoutInv'
    BY Setting, FileAssumption DEF IInv, Fetch, Goto, Abort, setting, run,
       LayoutInv, WriteInv, TypeOK, Laid, Of, ByMakeInstall, Key,
       MayInstall, Busy, Early, Compiling, Installing, Stopped, Tarball,
       Tree, Outcome
  <1>6. DoneInv'
    BY Setting, FileAssumption DEF IInv, Fetch, Goto, Abort, setting, run,
       DoneInv, LayoutInv, Wanted, Laid, Of, ByMakeInstall, Key, TypeOK,
       Busy, Early, Compiling, Installing, Stopped, Tarball, Tree, Outcome
  <1>7. DamageIsBounded'
    <2>1. pc' = "aborted" => UNCHANGED <<prefix, before>> /\ prefix = before
      BY DEF IInv, WriteInv, Fetch, Goto, Abort, Early, Compiling
    <2> QED
      BY <2>1 DEF DamageIsBounded, Mark
  <1>8. AbortsExplained'
    BY Setting, FileAssumption DEF IInv, Fetch, Goto, Abort, setting, run,
       AbortsExplained, TarballInv, TreeInv, WriteInv, LayoutInv, TypeOK,
       MayInstall, MayStrip, Key, Busy, Early, Compiling, Installing,
       Stopped, Tarball, Tree, Outcome
  <1> QED
    BY <1>1, <1>2, <1>3, <1>4, <1>5, <1>6, <1>7, <1>8 DEF IInv

LEMMA WipeStep ==
    ASSUME IInv, Wipe
    PROVE  IInv'
  <1>1. TypeOK'
    <2>1. /\ UNCHANGED <<setting, ver, where, before, prefix>>
          /\ TypeOK /\ Key \in Versions /\ todo' \in SUBSET ByMakeInstall
          /\ pc' \in Busy \cup Stopped /\ why' \in Outcome
      BY Setting DEF IInv, TypeOK, Wipe, HoldsRootDirs, Tree, Goto, Abort, setting, Busy, Early, Compiling,
         Installing, Stopped, Outcome
    <2>2. cache' \in [Versions -> Tarball] /\ tree' \in [Versions -> Tree]
      BY <2>1 DEF TypeOK, Wipe, HoldsRootDirs, Tree
    <2> QED
      BY <2>1, <2>2, TypeStep DEF TypeOK
  <1>2. TarballInv'
    BY Setting, FileAssumption DEF IInv, Wipe, HoldsRootDirs, Goto, Abort,
       setting, run, TarballInv, TypeOK, Key, Busy, Early, Compiling,
       Installing, Stopped, Tarball, Tree, Outcome
  <1>3. TreeInv'
    BY Setting, FileAssumption DEF IInv, Wipe, HoldsRootDirs, Goto, Abort,
       setting, run, TreeInv, TarballInv, TypeOK, Key, Busy, Early,
       Compiling, Installing, Stopped, Tarball, Tree, Outcome
  <1>4. WriteInv'
    BY Setting, FileAssumption DEF IInv, Wipe, HoldsRootDirs, Goto, Abort,
       setting, run, WriteInv, LayoutInv, TypeOK, MayInstall, Key,
       ByMakeInstall, Busy, Early, Compiling, Installing, Stopped, Tarball,
       Tree, Outcome
  <1>5. LayoutInv'
    BY Setting, FileAssumption DEF IInv, Wipe, HoldsRootDirs, Goto, Abort,
       setting, run, LayoutInv, WriteInv, TypeOK, Laid, Of, ByMakeInstall,
       Key, MayInstall, Busy, Early, Compiling, Installing, Stopped,
       Tarball, Tree, Outcome
  <1>6. DoneInv'
    BY Setting, FileAssumption DEF IInv, Wipe, HoldsRootDirs, Goto, Abort,
       setting, run, DoneInv, LayoutInv, Wanted, Laid, Of, ByMakeInstall,
       Key, TypeOK, Busy, Early, Compiling, Installing, Stopped, Tarball,
       Tree, Outcome
  <1>7. DamageIsBounded'
    <2>1. pc' = "aborted" => UNCHANGED <<prefix, before>> /\ prefix = before
      BY DEF IInv, WriteInv, Wipe, Goto, Abort, Early, Compiling
    <2> QED
      BY <2>1 DEF DamageIsBounded, Mark
  <1>8. AbortsExplained'
    BY Setting, FileAssumption DEF IInv, Wipe, HoldsRootDirs, Goto, Abort,
       setting, run, AbortsExplained, TarballInv, TreeInv, WriteInv,
       LayoutInv, TypeOK, MayInstall, MayStrip, Key, Busy, Early, Compiling,
       Installing, Stopped, Tarball, Tree, Outcome
  <1> QED
    BY <1>1, <1>2, <1>3, <1>4, <1>5, <1>6, <1>7, <1>8 DEF IInv

LEMMA UnpackStep ==
    ASSUME IInv, Unpack
    PROVE  IInv'
  <1>1. TypeOK'
    <2>1. /\ UNCHANGED <<setting, ver, where, before, prefix>>
          /\ TypeOK /\ Key \in Versions /\ todo' \in SUBSET ByMakeInstall
          /\ pc' \in Busy \cup Stopped /\ why' \in Outcome
      BY Setting DEF IInv, TypeOK, Unpack, Unpacked, Tree, Goto, Abort, setting, Busy, Early, Compiling,
         Installing, Stopped, Outcome
    <2>2. cache' \in [Versions -> Tarball] /\ tree' \in [Versions -> Tree]
      BY <2>1 DEF TypeOK, Unpack, Unpacked, Tree
    <2> QED
      BY <2>1, <2>2, TypeStep DEF TypeOK
  <1>2. TarballInv'
    BY Setting, FileAssumption DEF IInv, Unpack, Unpacked, Goto, Abort,
       setting, run, TarballInv, TypeOK, Key, Busy, Early, Compiling,
       Installing, Stopped, Tarball, Tree, Outcome
  <1>3. TreeInv'
    BY Setting, FileAssumption DEF IInv, Unpack, Unpacked, Goto, Abort,
       setting, run, TreeInv, TarballInv, TypeOK, Key, Busy, Early,
       Compiling, Installing, Stopped, Tarball, Tree, Outcome
  <1>4. WriteInv'
    BY Setting, FileAssumption DEF IInv, Unpack, Unpacked, Goto, Abort,
       setting, run, WriteInv, LayoutInv, TypeOK, MayInstall, Key,
       ByMakeInstall, Busy, Early, Compiling, Installing, Stopped, Tarball,
       Tree, Outcome
  <1>5. LayoutInv'
    BY Setting, FileAssumption DEF IInv, Unpack, Unpacked, Goto, Abort,
       setting, run, LayoutInv, WriteInv, TypeOK, Laid, Of, ByMakeInstall,
       Key, MayInstall, Busy, Early, Compiling, Installing, Stopped,
       Tarball, Tree, Outcome
  <1>6. DoneInv'
    BY Setting, FileAssumption DEF IInv, Unpack, Unpacked, Goto, Abort,
       setting, run, DoneInv, LayoutInv, Wanted, Laid, Of, ByMakeInstall,
       Key, TypeOK, Busy, Early, Compiling, Installing, Stopped, Tarball,
       Tree, Outcome
  <1>7. DamageIsBounded'
    <2>1. pc' = "aborted" => UNCHANGED <<prefix, before>> /\ prefix = before
      BY DEF IInv, WriteInv, Unpack, Goto, Abort, Early, Compiling
    <2> QED
      BY <2>1 DEF DamageIsBounded, Mark
  <1>8. AbortsExplained'
    BY Setting, FileAssumption DEF IInv, Unpack, Unpacked, Goto, Abort,
       setting, run, AbortsExplained, TarballInv, TreeInv, WriteInv,
       LayoutInv, TypeOK, MayInstall, MayStrip, Key, Busy, Early, Compiling,
       Installing, Stopped, Tarball, Tree, Outcome
  <1> QED
    BY <1>1, <1>2, <1>3, <1>4, <1>5, <1>6, <1>7, <1>8 DEF IInv

LEMMA ListStep ==
    ASSUME IInv, List
    PROVE  IInv'
  <1>1. TypeOK'
    <2>1. /\ UNCHANGED <<setting, ver, where, before, prefix>>
          /\ TypeOK /\ Key \in Versions /\ todo' \in SUBSET ByMakeInstall
          /\ pc' \in Busy \cup Stopped /\ why' \in Outcome
      BY Setting DEF IInv, TypeOK, List, Goto, Abort, setting, Busy, Early, Compiling,
         Installing, Stopped, Outcome
    <2>2. cache' \in [Versions -> Tarball] /\ tree' \in [Versions -> Tree]
      BY <2>1 DEF TypeOK, List
    <2> QED
      BY <2>1, <2>2, TypeStep DEF TypeOK
  <1>2. TarballInv'
    BY Setting, FileAssumption DEF IInv, List, Goto, Abort, setting, run,
       TarballInv, TypeOK, Key, Busy, Early, Compiling, Installing, Stopped,
       Tarball, Tree, Outcome
  <1>3. TreeInv'
    BY Setting, FileAssumption DEF IInv, List, Goto, Abort, setting, run,
       TreeInv, TarballInv, TypeOK, Key, Busy, Early, Compiling, Installing,
       Stopped, Tarball, Tree, Outcome
  <1>4. WriteInv'
    BY Setting, FileAssumption DEF IInv, List, Goto, Abort, setting, run,
       WriteInv, LayoutInv, TypeOK, MayInstall, Key, ByMakeInstall, Busy,
       Early, Compiling, Installing, Stopped, Tarball, Tree, Outcome
  <1>5. LayoutInv'
    BY Setting, FileAssumption DEF IInv, List, Goto, Abort, setting, run,
       LayoutInv, WriteInv, TypeOK, Laid, Of, ByMakeInstall, Key,
       MayInstall, Busy, Early, Compiling, Installing, Stopped, Tarball,
       Tree, Outcome
  <1>6. DoneInv'
    BY Setting, FileAssumption DEF IInv, List, Goto, Abort, setting, run,
       DoneInv, LayoutInv, Wanted, Laid, Of, ByMakeInstall, Key, TypeOK,
       Busy, Early, Compiling, Installing, Stopped, Tarball, Tree, Outcome
  <1>7. DamageIsBounded'
    <2>1. pc' = "aborted" => UNCHANGED <<prefix, before>> /\ prefix = before
      BY DEF IInv, WriteInv, List, Goto, Abort, Early, Compiling
    <2> QED
      BY <2>1 DEF DamageIsBounded, Mark
  <1>8. AbortsExplained'
    BY Setting, FileAssumption DEF IInv, List, Goto, Abort, setting, run,
       AbortsExplained, TarballInv, TreeInv, WriteInv, LayoutInv, TypeOK,
       MayInstall, MayStrip, Key, Busy, Early, Compiling, Installing,
       Stopped, Tarball, Tree, Outcome
  <1> QED
    BY <1>1, <1>2, <1>3, <1>4, <1>5, <1>6, <1>7, <1>8 DEF IInv

LEMMA CleanStep ==
    ASSUME IInv, Clean
    PROVE  IInv'
  <1>1. TypeOK'
    <2>1. /\ UNCHANGED <<setting, ver, where, before, prefix>>
          /\ TypeOK /\ Key \in Versions /\ todo' \in SUBSET ByMakeInstall
          /\ pc' \in Busy \cup Stopped /\ why' \in Outcome
      BY Setting DEF IInv, TypeOK, Clean, Tree, Goto, Abort, setting, Busy, Early, Compiling,
         Installing, Stopped, Outcome
    <2>2. cache' \in [Versions -> Tarball] /\ tree' \in [Versions -> Tree]
      BY <2>1 DEF TypeOK, Clean, Tree
    <2> QED
      BY <2>1, <2>2, TypeStep DEF TypeOK
  <1>2. TarballInv'
    BY Setting, FileAssumption DEF IInv, Clean, Goto, Abort, setting, run,
       TarballInv, TypeOK, Key, Busy, Early, Compiling, Installing, Stopped,
       Tarball, Tree, Outcome
  <1>3. TreeInv'
    BY Setting, FileAssumption DEF IInv, Clean, Goto, Abort, setting, run,
       TreeInv, TarballInv, TypeOK, Key, Busy, Early, Compiling, Installing,
       Stopped, Tarball, Tree, Outcome
  <1>4. WriteInv'
    BY Setting, FileAssumption DEF IInv, Clean, Goto, Abort, setting, run,
       WriteInv, LayoutInv, TypeOK, MayInstall, Key, ByMakeInstall, Busy,
       Early, Compiling, Installing, Stopped, Tarball, Tree, Outcome
  <1>5. LayoutInv'
    BY Setting, FileAssumption DEF IInv, Clean, Goto, Abort, setting, run,
       LayoutInv, WriteInv, TypeOK, Laid, Of, ByMakeInstall, Key,
       MayInstall, Busy, Early, Compiling, Installing, Stopped, Tarball,
       Tree, Outcome
  <1>6. DoneInv'
    BY Setting, FileAssumption DEF IInv, Clean, Goto, Abort, setting, run,
       DoneInv, LayoutInv, Wanted, Laid, Of, ByMakeInstall, Key, TypeOK,
       Busy, Early, Compiling, Installing, Stopped, Tarball, Tree, Outcome
  <1>7. DamageIsBounded'
    BY DEF Clean, Goto, DamageIsBounded
  <1>8. AbortsExplained'
    BY Setting, FileAssumption DEF IInv, Clean, Goto, Abort, setting, run,
       AbortsExplained, TarballInv, TreeInv, WriteInv, LayoutInv, TypeOK,
       MayInstall, MayStrip, Key, Busy, Early, Compiling, Installing,
       Stopped, Tarball, Tree, Outcome
  <1> QED
    BY <1>1, <1>2, <1>3, <1>4, <1>5, <1>6, <1>7, <1>8 DEF IInv

LEMMA ConfigureStep ==
    ASSUME IInv, Configure
    PROVE  IInv'
  <1>1. TypeOK'
    <2>1. /\ UNCHANGED <<setting, ver, where, before, prefix>>
          /\ TypeOK /\ Key \in Versions /\ todo' \in SUBSET ByMakeInstall
          /\ pc' \in Busy \cup Stopped /\ why' \in Outcome
      BY Setting DEF IInv, TypeOK, Configure, AfterConfigure, Tree, Goto, Abort, setting, Busy, Early, Compiling,
         Installing, Stopped, Outcome
    <2>2. cache' \in [Versions -> Tarball] /\ tree' \in [Versions -> Tree]
      BY <2>1 DEF TypeOK, Configure, AfterConfigure, Tree
    <2> QED
      BY <2>1, <2>2, TypeStep DEF TypeOK
  <1>2. TarballInv'
    BY Setting, FileAssumption DEF IInv, Configure, MayConfigure,
       AfterConfigure, Goto, Abort, setting, run, TarballInv, TypeOK, Key,
       Busy, Early, Compiling, Installing, Stopped, Tarball, Tree, Outcome
  <1>3. TreeInv'
    BY Setting, FileAssumption DEF IInv, Configure, MayConfigure,
       AfterConfigure, Goto, Abort, setting, run, TreeInv, TarballInv,
       TypeOK, Key, Busy, Early, Compiling, Installing, Stopped, Tarball,
       Tree, Outcome
  <1>4. WriteInv'
    BY Setting, FileAssumption DEF IInv, Configure, MayConfigure,
       AfterConfigure, Goto, Abort, setting, run, WriteInv, LayoutInv,
       TypeOK, MayInstall, Key, ByMakeInstall, Busy, Early, Compiling,
       Installing, Stopped, Tarball, Tree, Outcome
  <1>5. LayoutInv'
    BY Setting, FileAssumption DEF IInv, Configure, MayConfigure,
       AfterConfigure, Goto, Abort, setting, run, LayoutInv, WriteInv,
       TypeOK, Laid, Of, ByMakeInstall, Key, MayInstall, Busy, Early,
       Compiling, Installing, Stopped, Tarball, Tree, Outcome
  <1>6. DoneInv'
    BY Setting, FileAssumption DEF IInv, Configure, MayConfigure,
       AfterConfigure, Goto, Abort, setting, run, DoneInv, LayoutInv,
       Wanted, Laid, Of, ByMakeInstall, Key, TypeOK, Busy, Early, Compiling,
       Installing, Stopped, Tarball, Tree, Outcome
  <1>7. DamageIsBounded'
    <2>1. pc' = "aborted" => UNCHANGED <<prefix, before>> /\ prefix = before
      BY DEF IInv, WriteInv, Configure, Goto, Abort, Early, Compiling
    <2> QED
      BY <2>1 DEF DamageIsBounded, Mark
  <1>8. AbortsExplained'
    BY Setting, FileAssumption DEF IInv, Configure, MayConfigure,
       AfterConfigure, Goto, Abort, setting, run, AbortsExplained,
       TarballInv, TreeInv, WriteInv, LayoutInv, TypeOK, MayInstall,
       MayStrip, Key, Busy, Early, Compiling, Installing, Stopped, Tarball,
       Tree, Outcome
  <1> QED
    BY <1>1, <1>2, <1>3, <1>4, <1>5, <1>6, <1>7, <1>8 DEF IInv

LEMMA MakeStep ==
    ASSUME IInv, Make
    PROVE  IInv'
  <1>1. TypeOK'
    <2>1. /\ UNCHANGED <<setting, ver, where, before, prefix>>
          /\ TypeOK /\ Key \in Versions /\ todo' \in SUBSET ByMakeInstall
          /\ pc' \in Busy \cup Stopped /\ why' \in Outcome
      BY Setting DEF IInv, TypeOK, Make, Tree, Goto, Abort, setting, Busy, Early, Compiling,
         Installing, Stopped, Outcome
    <2>2. cache' \in [Versions -> Tarball] /\ tree' \in [Versions -> Tree]
      BY <2>1 DEF TypeOK, Make, Tree
    <2> QED
      BY <2>1, <2>2, TypeStep DEF TypeOK
  <1>2. TarballInv'
    BY Setting, FileAssumption DEF IInv, Make, HasMakefile, Goto, Abort,
       setting, run, TarballInv, TypeOK, Key, Busy, Early, Compiling,
       Installing, Stopped, Tarball, Tree, Outcome
  <1>3. TreeInv'
    BY Setting, FileAssumption DEF IInv, Make, HasMakefile, Goto, Abort,
       setting, run, TreeInv, TarballInv, TypeOK, Key, Busy, Early,
       Compiling, Installing, Stopped, Tarball, Tree, Outcome
  <1>4. WriteInv'
    BY Setting, FileAssumption DEF IInv, Make, HasMakefile, Goto, Abort,
       setting, run, WriteInv, LayoutInv, TypeOK, MayInstall, Key,
       ByMakeInstall, Busy, Early, Compiling, Installing, Stopped, Tarball,
       Tree, Outcome
  <1>5. LayoutInv'
    BY Setting, FileAssumption DEF IInv, Make, HasMakefile, Goto, Abort,
       setting, run, LayoutInv, WriteInv, TypeOK, Laid, Of, ByMakeInstall,
       Key, MayInstall, Busy, Early, Compiling, Installing, Stopped,
       Tarball, Tree, Outcome
  <1>6. DoneInv'
    BY Setting, FileAssumption DEF IInv, Make, HasMakefile, Goto, Abort,
       setting, run, DoneInv, LayoutInv, Wanted, Laid, Of, ByMakeInstall,
       Key, TypeOK, Busy, Early, Compiling, Installing, Stopped, Tarball,
       Tree, Outcome
  <1>7. DamageIsBounded'
    <2>1. pc' = "aborted" => UNCHANGED <<prefix, before>> /\ prefix = before
      BY DEF IInv, WriteInv, Make, Goto, Abort, Early, Compiling
    <2> QED
      BY <2>1 DEF DamageIsBounded, Mark
  <1>8. AbortsExplained'
    BY Setting, FileAssumption DEF IInv, Make, HasMakefile, Goto, Abort,
       setting, run, AbortsExplained, TarballInv, TreeInv, WriteInv,
       LayoutInv, TypeOK, MayInstall, MayStrip, Key, Busy, Early, Compiling,
       Installing, Stopped, Tarball, Tree, Outcome
  <1> QED
    BY <1>1, <1>2, <1>3, <1>4, <1>5, <1>6, <1>7, <1>8 DEF IInv

LEMMA AppendStep ==
    ASSUME IInv, Append
    PROVE  IInv'
  <1>1. TypeOK'
    <2>1. /\ UNCHANGED <<setting, ver, where, before, cache, tree>> /\ TypeOK
          /\ pc' \in Busy \cup Stopped /\ why' \in Outcome
          /\ todo' \in SUBSET ByMakeInstall /\ Of("archive") \in SUBSET Files
      BY Setting DEF IInv, TypeOK, Append, Goto, Abort, setting, Of, Busy, Early,
         Compiling, Installing, Stopped, Outcome
    <2>2. prefix' \in [Places -> [Files -> SUBSET Versions]]
      BY <2>1, JoinType DEF Append, TypeOK
    <2> QED
      BY <2>1, <2>2, TypeStep DEF TypeOK
  <1>2. TarballInv'
    BY Setting, FileAssumption DEF IInv, Append, Goto, Abort, setting, run,
       TarballInv, TypeOK, Key, Busy, Early, Compiling, Installing, Stopped,
       Tarball, Tree, Outcome
  <1>3. TreeInv'
    BY Setting, FileAssumption DEF IInv, Append, Goto, Abort, setting, run,
       TreeInv, TarballInv, TypeOK, Key, Busy, Early, Compiling, Installing,
       Stopped, Tarball, Tree, Outcome
  <1>4. WriteInv'
    BY Setting, FileAssumption DEF IInv, Append, Goto, Abort, setting, run,
       WriteInv, LayoutInv, TypeOK, MayInstall, Key, ByMakeInstall, Busy,
       Early, Compiling, Installing, Stopped, Tarball, Tree, Outcome
  <1>5. LayoutInv'
    <2>1. /\ UNCHANGED <<setting, ver, where, before>> /\ where \in Places
          /\ TypeOK /\ LayoutInv /\ WriteInv
      BY DEF IInv, TypeOK, Append, Goto, Abort, setting
    <2>2. CASE pc' = "aborted"
      BY <2>2 DEF LayoutInv
    <2>3. prefix = before
      BY <2>1 DEF WriteInv, Append
    <2>4. CASE /\ pc' = "install" /\ todo' = ByMakeInstall
               /\ script.archive # "appended" /\ UNCHANGED prefix
      BY <2>1, <2>3, <2>4, Fixed DEF LayoutInv, Laid
    <2>5. CASE /\ pc' = "install" /\ todo' = ByMakeInstall /\ script.archive = "appended"
               /\ prefix' = Join(Of("archive"))
      <3>1. /\ \A f \in Files : prefix'[where][f] =
                  IF f \in Of("archive") THEN before[where][f] \cup {Key} ELSE before[where][f]
            /\ \A q \in Places \ {where} : prefix'[q] = before[q]
        BY <2>1, <2>3, <2>5 DEF TypeOK, Join
      <3>2. \A f \in Files : f \in Of("archive") => f \notin ByMakeInstall
        BY <2>5 DEF Of, ByMakeInstall
      <3> QED
        BY <2>1, <2>5, <3>1, <3>2, Fixed DEF LayoutInv, Laid
    <2> QED
      BY <2>2, <2>4, <2>5 DEF Append, Goto, Abort
  <1>6. DoneInv'
    BY Setting, FileAssumption DEF IInv, Append, Goto, Abort, setting, run,
       DoneInv, LayoutInv, Wanted, Laid, Of, ByMakeInstall, Key, TypeOK,
       Busy, Early, Compiling, Installing, Stopped, Tarball, Tree, Outcome
  <1>7. DamageIsBounded'
    <2>1. CASE pc' = "aborted"
      <3>1. /\ UNCHANGED <<setting, ver, where, before>> /\ prefix = before
            /\ pc = "append" /\ TypeOK
        BY <2>1 DEF IInv, WriteInv, Append, Goto, Abort, setting
      <3>2. CASE UNCHANGED prefix
        BY <3>1, <3>2 DEF DamageIsBounded, Mark
      <3>3. CASE prefix' = Join(Of("archive")) /\ why' = "link" /\ script.archive = "appended"
        <4>1. \A p \in Places, f \in Files : Mark(p, f)'
          BY <3>1, <3>3, JoinMarks
        <4> QED
          BY <3>1, <3>3, <4>1 DEF DamageIsBounded, setting
      <3> QED
        BY <2>1, <3>2, <3>3 DEF Append, Goto, Abort
    <2> QED
      BY <2>1 DEF DamageIsBounded
  <1>8. AbortsExplained'
    BY Setting, FileAssumption DEF IInv, Append, Goto, Abort, setting, run,
       AbortsExplained, TarballInv, TreeInv, WriteInv, LayoutInv, TypeOK,
       MayInstall, MayStrip, Key, Busy, Early, Compiling, Installing,
       Stopped, Tarball, Tree, Outcome
  <1> QED
    BY <1>1, <1>2, <1>3, <1>4, <1>5, <1>6, <1>7, <1>8 DEF IInv

LEMMA InstallStep ==
    ASSUME IInv, Install
    PROVE  IInv'
  <1>1. TypeOK'
    <2>1. /\ UNCHANGED <<setting, ver, where, before>> /\ TypeOK
          /\ where \in Places /\ Home \in Places
      BY FileAssumption DEF IInv, TypeOK, Install, Goto, Abort, setting
    <2>2. /\ \A k : Of(k) \in SUBSET Files
          /\ \A f \in todo : {f} \in SUBSET Files
      BY <2>1, Setting DEF TypeOK, Of
    <2>3. prefix' \in [Places -> [Files -> SUBSET Versions]]
      <3>1. CASE UNCHANGED prefix
        BY <2>1, <3>1 DEF TypeOK
      <3>2. ASSUME NEW f \in todo, prefix' = Put(where, {f})
            PROVE  prefix' \in [Places -> [Files -> SUBSET Versions]]
        <4>1. Put(where, {f}) \in [Places -> [Files -> SUBSET Versions]]
          BY <2>1, <2>2, PutType
        <4> QED
          BY <3>2, <4>1
      <3> QED
        BY <3>1, <3>2 DEF Install
    <2>4. todo' \in SUBSET ByMakeInstall
      BY <2>1 DEF Install, TypeOK, Goto, Abort
    <2> QED
      BY <2>1, <2>3, <2>4, Fixed
         DEF TypeOK, Install, Goto, Abort, setting, Busy, Early, Compiling,
             Installing, Stopped, Outcome
  <1>2. TarballInv'
    BY Setting, FileAssumption DEF IInv, Install, Goto, Abort, setting, run,
       TarballInv, TypeOK, Key, Busy, Early, Compiling, Installing, Stopped,
       Tarball, Tree, Outcome
  <1>3. TreeInv'
    BY Setting, FileAssumption DEF IInv, Install, Goto, Abort, setting, run,
       TreeInv, TarballInv, TypeOK, Key, Busy, Early, Compiling, Installing,
       Stopped, Tarball, Tree, Outcome
  <1>4. WriteInv'
    BY Setting, FileAssumption DEF IInv, Install, Goto, Abort, setting, run,
       WriteInv, LayoutInv, TypeOK, MayInstall, Key, ByMakeInstall, Busy,
       Early, Compiling, Installing, Stopped, Tarball, Tree, Outcome
  <1>5. LayoutInv'
    <2>1. /\ UNCHANGED <<setting, ver, where, before>> /\ where \in Places
          /\ TypeOK /\ LayoutInv /\ WriteInv /\ pc = "install"
      BY DEF IInv, TypeOK, Install, Goto, Abort, setting
    <2>2. CASE pc' = "aborted"
      BY <2>2 DEF LayoutInv
    <2>3. ASSUME NEW f \in todo, todo' = todo \ {f}, prefix' = Put(where, {f}), pc' = "install"
          PROVE  LayoutInv'
      <3>1. f \in ByMakeInstall /\ f \in Files
        BY <2>1, Setting DEF TypeOK
      <3>2. /\ \A g \in Files : prefix'[where][g] = IF g = f THEN {Key} ELSE prefix[where][g]
            /\ \A q \in Places \ {where} : prefix'[q] = prefix[q]
        BY <2>1, <2>3, <3>1 DEF Put, TypeOK
      <3>3. Laid(f) = {Key}
        BY <3>1 DEF Laid
      <3>4. \A g \in Files : Laid(g)' = Laid(g) /\ before'[where'][g] = before[where][g]
        BY <2>1, Fixed
      <3>5. \A g \in Files :
              prefix'[where'][g] = IF g \in todo' THEN before'[where'][g] ELSE Laid(g)'
        BY <2>1, <2>3, <3>2, <3>3, <3>4 DEF LayoutInv
      <3>6. \A q \in Places \ {where'} : prefix'[q] = before'[q]
        BY <2>1, <3>2 DEF LayoutInv
      <3> QED
        BY <2>3, <3>5, <3>6 DEF LayoutInv
    <2> QED
      BY <2>2, <2>3 DEF Install, Goto, Abort
  <1>6. DoneInv'
    BY Setting, FileAssumption DEF IInv, Install, Goto, Abort, setting, run,
       DoneInv, LayoutInv, Wanted, Laid, Of, ByMakeInstall, Key, TypeOK,
       Busy, Early, Compiling, Installing, Stopped, Tarball, Tree, Outcome
  <1>7. DamageIsBounded'
    <2>1. pc' = "aborted" => UNCHANGED <<prefix, before>> /\ prefix = before
      BY DEF IInv, WriteInv, Install, Goto, Abort, Early, Compiling
    <2> QED
      BY <2>1 DEF DamageIsBounded, Mark
  <1>8. AbortsExplained'
    BY Setting, FileAssumption DEF IInv, Install, Goto, Abort, setting, run,
       AbortsExplained, TarballInv, TreeInv, WriteInv, LayoutInv, TypeOK,
       MayInstall, MayStrip, Key, Busy, Early, Compiling, Installing,
       Stopped, Tarball, Tree, Outcome
  <1> QED
    BY <1>1, <1>2, <1>3, <1>4, <1>5, <1>6, <1>7, <1>8 DEF IInv

LEMMA EndInstallStep ==
    ASSUME IInv, EndInstall
    PROVE  IInv'
  <1>1. TypeOK'
    <2>1. /\ UNCHANGED <<setting, ver, where, before, prefix>>
          /\ TypeOK /\ Key \in Versions /\ todo' \in SUBSET ByMakeInstall
          /\ pc' \in Busy \cup Stopped /\ why' \in Outcome
      BY Setting DEF IInv, TypeOK, EndInstall, Goto, Abort, setting, Busy, Early, Compiling,
         Installing, Stopped, Outcome
    <2>2. cache' \in [Versions -> Tarball] /\ tree' \in [Versions -> Tree]
      BY <2>1 DEF TypeOK, EndInstall
    <2> QED
      BY <2>1, <2>2, TypeStep DEF TypeOK
  <1>2. TarballInv'
    BY Setting, FileAssumption DEF IInv, EndInstall, Goto, Abort, setting,
       run, TarballInv, TypeOK, Key, Busy, Early, Compiling, Installing,
       Stopped, Tarball, Tree, Outcome
  <1>3. TreeInv'
    BY Setting, FileAssumption DEF IInv, EndInstall, Goto, Abort, setting,
       run, TreeInv, TarballInv, TypeOK, Key, Busy, Early, Compiling,
       Installing, Stopped, Tarball, Tree, Outcome
  <1>4. WriteInv'
    BY Setting, FileAssumption DEF IInv, EndInstall, Goto, Abort, setting,
       run, WriteInv, LayoutInv, TypeOK, MayInstall, Key, ByMakeInstall,
       Busy, Early, Compiling, Installing, Stopped, Tarball, Tree, Outcome
  <1>5. LayoutInv'
    <2>1. /\ UNCHANGED <<setting, ver, where, before, prefix>>
          /\ pc = "install" /\ todo = {} /\ pc' = "strip" /\ LayoutInv
      BY DEF IInv, EndInstall, Goto, setting
    <2> QED
      BY <2>1, Fixed DEF LayoutInv
  <1>6. DoneInv'
    BY Setting, FileAssumption DEF IInv, EndInstall, Goto, Abort, setting,
       run, DoneInv, LayoutInv, Wanted, Laid, Of, ByMakeInstall, Key,
       TypeOK, Busy, Early, Compiling, Installing, Stopped, Tarball, Tree,
       Outcome
  <1>7. DamageIsBounded'
    BY DEF EndInstall, Goto, DamageIsBounded
  <1>8. AbortsExplained'
    BY Setting, FileAssumption DEF IInv, EndInstall, Goto, Abort, setting,
       run, AbortsExplained, TarballInv, TreeInv, WriteInv, LayoutInv,
       TypeOK, MayInstall, MayStrip, Key, Busy, Early, Compiling,
       Installing, Stopped, Tarball, Tree, Outcome
  <1> QED
    BY <1>1, <1>2, <1>3, <1>4, <1>5, <1>6, <1>7, <1>8 DEF IInv

LEMMA StripStep ==
    ASSUME IInv, Strip
    PROVE  IInv'
  <1>1. TypeOK'
    <2>1. /\ UNCHANGED <<setting, ver, where, before>> /\ TypeOK
          /\ where \in Places
      BY DEF IInv, TypeOK, Strip, Goto, Abort, setting
    <2>2. prefix' \in [Places -> [Files -> SUBSET Versions]]
      <3>2. CASE UNCHANGED prefix
        BY <2>1, <3>2 DEF TypeOK
      <3>3. ASSUME NEW k, prefix' = Drop(All(k))
            PROVE  prefix' \in [Places -> [Files -> SUBSET Versions]]
        BY <2>1, <3>3, DropType
      <3> QED
        BY <3>2, <3>3 DEF Strip
    <2>3. todo' \in SUBSET ByMakeInstall
      BY <2>1 DEF Strip, TypeOK, Goto, Abort
    <2> QED
      BY <2>1, <2>2, <2>3, Fixed
         DEF TypeOK, Strip, Goto, Abort, setting, Busy, Early, Compiling,
             Installing, Stopped, Outcome
  <1>2. TarballInv'
    BY Setting, FileAssumption DEF IInv, Strip, Present, Goto, Abort,
       setting, run, TarballInv, TypeOK, Key, Busy, Early, Compiling,
       Installing, Stopped, Tarball, Tree, Outcome
  <1>3. TreeInv'
    BY Setting, FileAssumption DEF IInv, Strip, Present, Goto, Abort,
       setting, run, TreeInv, TarballInv, TypeOK, Key, Busy, Early,
       Compiling, Installing, Stopped, Tarball, Tree, Outcome
  <1>4. WriteInv'
    BY Setting, FileAssumption DEF IInv, Strip, Present, Goto, Abort,
       setting, run, WriteInv, LayoutInv, TypeOK, MayInstall, Key,
       ByMakeInstall, Busy, Early, Compiling, Installing, Stopped, Tarball,
       Tree, Outcome
  <1>5. LayoutInv'
    <2>1. /\ UNCHANGED <<setting, ver, where, before>> /\ where \in Places
          /\ TypeOK /\ LayoutInv /\ WriteInv
      BY DEF IInv, TypeOK, Strip, Goto, Abort, setting
    <2>2. CASE pc' = "aborted"
      BY <2>2 DEF LayoutInv
    <2>3. CASE /\ pc' = "static" /\ UNCHANGED prefix
               /\ \A k \in script.strips : ~Present(k)
      <3>1. \A f \in Files : Kind[f] \in script.strips => prefix[where][f] = {}
        BY <2>3 DEF Present, All
      <3> QED
        BY <2>1, <2>3, <3>1, Fixed DEF LayoutInv, Strip, setting
    <2>4. ASSUME NEW k \in script.strips, pc' = "strip",
                 prefix' = Drop(All(k))
          PROVE  LayoutInv'
      <3>1. /\ \A f \in Files : prefix'[where][f] = IF Kind[f] = k THEN {} ELSE prefix[where][f]
            /\ \A q \in Places \ {where} : prefix'[q] = prefix[q]
        BY <2>1, <2>4 DEF TypeOK, Drop, All
      <3> QED
        BY <2>1, <2>4, <3>1, Fixed DEF LayoutInv, Strip, setting
    <2> QED
      BY <2>2, <2>3, <2>4 DEF Strip, Goto, Abort
  <1>6. DoneInv'
    BY Setting, FileAssumption DEF IInv, Strip, Present, Goto, Abort,
       setting, run, DoneInv, LayoutInv, Wanted, Laid, Of, ByMakeInstall,
       Key, TypeOK, Busy, Early, Compiling, Installing, Stopped, Tarball,
       Tree, Outcome
  <1>7. DamageIsBounded'
    <2>1. CASE pc' = "aborted"
      <3>1. /\ UNCHANGED <<setting, ver, where, before, prefix>> /\ pc \in Installing
            /\ TypeOK /\ WriteInv
        BY <2>1 DEF IInv, Strip, Goto, Abort, setting, Installing
      <3>2. \A p \in Places, f \in Files : Mark(p, f)'
        BY <3>1, MarksStay
      <3> QED
        BY <2>1, <3>1, <3>2, Setting
           DEF DamageIsBounded, Strip, Abort, Goto, WriteInv, MayInstall, MayStrip, setting
    <2> QED
      BY <2>1 DEF DamageIsBounded
  <1>8. AbortsExplained'
    BY Setting, FileAssumption DEF IInv, Strip, Present, Goto, Abort,
       setting, run, AbortsExplained, TarballInv, TreeInv, WriteInv,
       LayoutInv, TypeOK, MayInstall, MayStrip, Key, Busy, Early, Compiling,
       Installing, Stopped, Tarball, Tree, Outcome
  <1> QED
    BY <1>1, <1>2, <1>3, <1>4, <1>5, <1>6, <1>7, <1>8 DEF IInv

LEMMA StaticStep ==
    ASSUME IInv, Static
    PROVE  IInv'
  <1>1. TypeOK'
    <2>1. /\ UNCHANGED <<setting, ver, where, before>> /\ TypeOK
          /\ where \in Places /\ Home \in Places
      BY FileAssumption DEF IInv, TypeOK, Static, Goto, Abort, setting
    <2>2. /\ \A k : Of(k) \in SUBSET Files
          /\ \A f \in todo : {f} \in SUBSET Files
      BY <2>1, Setting DEF TypeOK, Of
    <2>3. prefix' \in [Places -> [Files -> SUBSET Versions]]
      BY <2>1, <2>2, PutType DEF Static, TypeOK
    <2>4. todo' \in SUBSET ByMakeInstall
      BY <2>1 DEF Static, TypeOK, Goto, Abort
    <2> QED
      BY <2>1, <2>3, <2>4, Fixed
         DEF TypeOK, Static, Goto, Abort, setting, Busy, Early, Compiling,
             Installing, Stopped, Outcome
  <1>2. TarballInv'
    BY Setting, FileAssumption DEF IInv, Static, Goto, Abort, setting, run,
       TarballInv, TypeOK, Key, Busy, Early, Compiling, Installing, Stopped,
       Tarball, Tree, Outcome
  <1>3. TreeInv'
    BY Setting, FileAssumption DEF IInv, Static, Goto, Abort, setting, run,
       TreeInv, TarballInv, TypeOK, Key, Busy, Early, Compiling, Installing,
       Stopped, Tarball, Tree, Outcome
  <1>4. WriteInv'
    BY Setting, FileAssumption DEF IInv, Static, Goto, Abort, setting, run,
       WriteInv, LayoutInv, TypeOK, MayInstall, Key, ByMakeInstall, Busy,
       Early, Compiling, Installing, Stopped, Tarball, Tree, Outcome
  <1>5. LayoutInv'
    <2>1. /\ UNCHANGED <<setting, ver, where, before>> /\ where \in Places
          /\ TypeOK /\ LayoutInv /\ WriteInv
      BY DEF IInv, TypeOK, Static, Goto, Abort, setting
    <2>2. CASE pc' = "aborted"
      BY <2>2 DEF LayoutInv
    <2>3. Of("archive") \in SUBSET Files /\ Of("archive")' = Of("archive")
      BY <2>1, Fixed, Setting DEF Of, Kinds
    <2>4. CASE pc' = "ini" /\ UNCHANGED prefix /\ script.archive # "copied"
      BY <2>1, <2>4, Fixed DEF LayoutInv, Static, setting
    <2>5. CASE /\ pc' = "ini" /\ prefix' = Put(where, Of("archive"))
               /\ script.archive = "copied"
      <3>1. /\ \A g \in Files : prefix'[where][g] =
                    IF g \in Of("archive") THEN {Key} ELSE prefix[where][g]
            /\ \A q \in Places \ {where} : prefix'[q] = prefix[q]
        BY <2>1, <2>3, <2>5 DEF Put, TypeOK
      <3>2. \A g \in Of("archive") : Kind[g] \notin script.strips
        BY <2>1, Setting DEF Of
      <3> QED
        BY <2>1, <2>3, <2>5, <3>1, <3>2, Fixed DEF LayoutInv, Static, setting
    <2> QED
      BY <2>2, <2>4, <2>5 DEF Static, Goto, Abort
  <1>6. DoneInv'
    BY Setting, FileAssumption DEF IInv, Static, Goto, Abort, setting, run,
       DoneInv, LayoutInv, Wanted, Laid, Of, ByMakeInstall, Key, TypeOK,
       Busy, Early, Compiling, Installing, Stopped, Tarball, Tree, Outcome
  <1>7. DamageIsBounded'
    <2>1. CASE pc' = "aborted"
      <3>1. /\ UNCHANGED <<setting, ver, where, before, prefix>> /\ pc \in Installing
            /\ TypeOK /\ WriteInv
        BY <2>1 DEF IInv, Static, Goto, Abort, setting, Installing
      <3>2. \A p \in Places, f \in Files : Mark(p, f)'
        BY <3>1, MarksStay
      <3> QED
        BY <2>1, <3>1, <3>2, Setting
           DEF DamageIsBounded, Static, Abort, Goto, WriteInv, setting
    <2> QED
      BY <2>1 DEF DamageIsBounded
  <1>8. AbortsExplained'
    BY Setting, FileAssumption DEF IInv, Static, Goto, Abort, setting, run,
       AbortsExplained, TarballInv, TreeInv, WriteInv, LayoutInv, TypeOK,
       MayInstall, MayStrip, Key, Busy, Early, Compiling, Installing,
       Stopped, Tarball, Tree, Outcome
  <1> QED
    BY <1>1, <1>2, <1>3, <1>4, <1>5, <1>6, <1>7, <1>8 DEF IInv

LEMMA IniStep ==
    ASSUME IInv, Ini
    PROVE  IInv'
  <1>1. TypeOK'
    <2>1. /\ UNCHANGED <<setting, ver, where, before>> /\ TypeOK
          /\ where \in Places /\ Home \in Places
      BY FileAssumption DEF IInv, TypeOK, Ini, Goto, Abort, setting
    <2>2. /\ \A k : Of(k) \in SUBSET Files
          /\ \A f \in todo : {f} \in SUBSET Files
      BY <2>1, Setting DEF TypeOK, Of
    <2>3. prefix' \in [Places -> [Files -> SUBSET Versions]]
      BY <2>1, <2>2, PutType DEF Ini, TypeOK
    <2>4. todo' \in SUBSET ByMakeInstall
      BY <2>1 DEF Ini, TypeOK, Goto, Abort
    <2> QED
      BY <2>1, <2>3, <2>4, Fixed
         DEF TypeOK, Ini, Goto, Abort, setting, Busy, Early, Compiling,
             Installing, Stopped, Outcome
  <1>2. TarballInv'
    BY Setting, FileAssumption DEF IInv, Ini, Absent, Goto, Abort, setting,
       run, TarballInv, TypeOK, Key, Busy, Early, Compiling, Installing,
       Stopped, Tarball, Tree, Outcome
  <1>3. TreeInv'
    BY Setting, FileAssumption DEF IInv, Ini, Absent, Goto, Abort, setting,
       run, TreeInv, TarballInv, TypeOK, Key, Busy, Early, Compiling,
       Installing, Stopped, Tarball, Tree, Outcome
  <1>4. WriteInv'
    BY Setting, FileAssumption DEF IInv, Ini, Absent, Goto, Abort, setting,
       run, WriteInv, LayoutInv, TypeOK, MayInstall, Key, ByMakeInstall,
       Busy, Early, Compiling, Installing, Stopped, Tarball, Tree, Outcome
  <1>5. LayoutInv'
    BY Setting, FileAssumption DEF IInv, Ini, Absent, Goto, Abort, setting,
       run, LayoutInv, WriteInv, TypeOK, Laid, Of, ByMakeInstall, Key,
       MayInstall, Busy, Early, Compiling, Installing, Stopped, Tarball,
       Tree, Outcome
  <1>6. DoneInv'
    <2>1. /\ UNCHANGED <<setting, ver, where, before>> /\ where \in Places
          /\ TypeOK /\ LayoutInv /\ WriteInv
      BY DEF IInv, TypeOK, Ini, Goto, Abort, setting
    <2>2. CASE pc' = "aborted"
      BY <2>2 DEF DoneInv
    <2>3. /\ Of("ini") \in SUBSET Files /\ Of("ini")' = Of("ini") /\ Home \in Places
          /\ script.ini' = script.ini
      BY <2>1, Fixed, Setting, FileAssumption DEF Of, Kinds, setting
    <2>4. CASE pc' = "show" /\ UNCHANGED prefix /\ ~script.ini
      BY <2>1, <2>3, <2>4, Fixed DEF DoneInv, LayoutInv, Wanted, Ini
    <2>5. CASE pc' = "show" /\ prefix' = Put(Home, Of("ini")) /\ script.ini
      <3>1. /\ \A g \in Files : prefix'[Home][g] =
                    IF g \in Of("ini") THEN {Key} ELSE prefix[Home][g]
            /\ \A q \in Places \ {Home} : prefix'[q] = prefix[q]
        BY <2>1, <2>3, <2>5 DEF Put, TypeOK
      <3>2. \A g \in Of("ini") : Kind[g] \notin script.strips
        BY <2>1, Setting DEF Of
      <3>3. \A g \in Files : prefix'[where][g] = Wanted(g)
        BY <2>1, <2>3, <2>5, <3>1, <3>2 DEF LayoutInv, Wanted, Ini
      <3>4. \A q \in Places \ {where}, g \in Files :
                prefix'[q][g] = IF q = Home /\ script.ini /\ g \in Of("ini")
                                THEN {Key} ELSE before[q][g]
        BY <2>1, <2>3, <2>5, <3>1 DEF LayoutInv, Ini
      <3> QED
        BY <2>1, <2>3, <2>5, <3>3, <3>4, Fixed DEF DoneInv
    <2> QED
      BY <2>2, <2>4, <2>5 DEF Ini, Goto, Abort
  <1>7. DamageIsBounded'
    <2>1. CASE pc' = "aborted"
      <3>1. /\ UNCHANGED <<setting, ver, where, before, prefix>> /\ pc \in Installing
            /\ TypeOK /\ WriteInv
        BY <2>1 DEF IInv, Ini, Goto, Abort, setting, Installing
      <3>2. \A p \in Places, f \in Files : Mark(p, f)'
        BY <3>1, MarksStay
      <3> QED
        BY <2>1, <3>1, <3>2, Setting
           DEF DamageIsBounded, Ini, Abort, Goto, WriteInv, setting
    <2> QED
      BY <2>1 DEF DamageIsBounded
  <1>8. AbortsExplained'
    <2>1. ASSUME where = Home, script.ini PROVE canSudo /\ ~Absent(Home)
      <3>1. canSudo /\ TypeOK
        BY <2>1, Setting DEF IInv, Ini, WriteInv, MayInstall
      <3>2. PICK f \in ByMakeInstall : Kind[f] = "lib"
        BY <3>1, Setting
      <3>3. f \in Files /\ Kind[f] \notin script.strips /\ f \notin Of("archive")
        BY <3>1, <3>2, Setting DEF Of
      <3>4. prefix[where][f] = {Key}
        BY <3>2, <3>3 DEF IInv, Ini, LayoutInv, Laid
      <3>5. Empty[f] = {}
        BY <3>3 DEF Empty
      <3> QED
        BY <2>1, <3>1, <3>4, <3>5 DEF Absent
    <2>2. UNCHANGED <<setting, where>> /\ (pc' = "aborted" => where # Home /\ why' = "copy")
      BY <2>1 DEF Ini, Goto, Abort, setting
    <2> QED
      BY <2>2 DEF AbortsExplained, Ini
  <1> QED
    BY <1>1, <1>2, <1>3, <1>4, <1>5, <1>6, <1>7, <1>8 DEF IInv

LEMMA ShowStep ==
    ASSUME IInv, Show
    PROVE  IInv'
  <1>1. TypeOK'
    <2>1. /\ UNCHANGED <<setting, ver, where, before, prefix>>
          /\ TypeOK /\ Key \in Versions /\ todo' \in SUBSET ByMakeInstall
          /\ pc' \in Busy \cup Stopped /\ why' \in Outcome
      BY Setting DEF IInv, TypeOK, Show, Goto, Abort, setting, Busy, Early, Compiling,
         Installing, Stopped, Outcome
    <2>2. cache' \in [Versions -> Tarball] /\ tree' \in [Versions -> Tree]
      BY <2>1 DEF TypeOK, Show
    <2> QED
      BY <2>1, <2>2, TypeStep DEF TypeOK
  <1>2. TarballInv'
    BY Setting, FileAssumption DEF IInv, Show, Goto, Abort, setting, run,
       TarballInv, TypeOK, Key, Busy, Early, Compiling, Installing, Stopped,
       Tarball, Tree, Outcome
  <1>3. TreeInv'
    BY Setting, FileAssumption DEF IInv, Show, Goto, Abort, setting, run,
       TreeInv, TarballInv, TypeOK, Key, Busy, Early, Compiling, Installing,
       Stopped, Tarball, Tree, Outcome
  <1>4. WriteInv'
    BY Setting, FileAssumption DEF IInv, Show, Goto, Abort, setting, run,
       WriteInv, LayoutInv, TypeOK, MayInstall, Key, ByMakeInstall, Busy,
       Early, Compiling, Installing, Stopped, Tarball, Tree, Outcome
  <1>5. LayoutInv'
    BY Setting, FileAssumption DEF IInv, Show, Goto, Abort, setting, run,
       LayoutInv, WriteInv, TypeOK, Laid, Of, ByMakeInstall, Key,
       MayInstall, Busy, Early, Compiling, Installing, Stopped, Tarball,
       Tree, Outcome
  <1>6. DoneInv'
    <2>1. UNCHANGED <<setting, ver, where, before, prefix>> /\ pc = "show" /\ DoneInv
      BY DEF IInv, Show, Goto, Abort, setting
    <2> QED
      BY <2>1, Fixed DEF DoneInv, Kinds, setting
  <1>7. DamageIsBounded'
    <2>1. CASE pc' = "aborted"
      <3>1. /\ UNCHANGED <<setting, ver, where, before, prefix>> /\ pc \in Installing
            /\ TypeOK /\ WriteInv
        BY <2>1 DEF IInv, Show, Goto, Abort, setting, Installing
      <3>2. \A p \in Places, f \in Files : Mark(p, f)'
        BY <3>1, MarksStay
      <3> QED
        BY <2>1, <3>1, <3>2, Setting
           DEF DamageIsBounded, Show, Abort, Goto, WriteInv, setting
    <2> QED
      BY <2>1 DEF DamageIsBounded
  <1>8. AbortsExplained'
    BY Setting, FileAssumption DEF IInv, Show, Goto, Abort, setting, run,
       AbortsExplained, TarballInv, TreeInv, WriteInv, LayoutInv, TypeOK,
       MayInstall, MayStrip, Key, Busy, Early, Compiling, Installing,
       Stopped, Tarball, Tree, Outcome
  <1> QED
    BY <1>1, <1>2, <1>3, <1>4, <1>5, <1>6, <1>7, <1>8 DEF IInv

LEMMA MarkFile ==
    ASSUME IInv, pc \in Installing, UNCHANGED <<setting, ver, where, before>>,
           NEW p \in Places, NEW f \in Files, prefix'[p][f] = prefix[p][f]
    PROVE  Mark(p, f)'
  <1>1. /\ Of("archive")' = Of("archive") /\ Of("ini")' = Of("ini")
        /\ ByMakeInstall' = ByMakeInstall /\ Key' = Key /\ script' = script
    BY Fixed DEF Kinds, setting
  <1>2. Mark(p, f)
    BY MarksSoFar
  <1> QED
    BY <1>1, <1>2 DEF Mark

\* What a command that dies halfway does to the files of build/ and of $PREFIX.
LEMMA HalfwayFiles ==
    ASSUME IInv, Halfway, UNCHANGED <<setting, ver, where, before>>
    PROVE  /\ cache' \in [Versions -> Tarball] /\ tree' \in [Versions -> Tree]
           /\ prefix' \in [Places -> [Files -> SUBSET Versions]]
           /\ \A v \in Versions : cache'[v] = "page" => script.fetch = "lax"
           /\ script.rootTree => \A v \in Versions :
                 \/ tree'[v] \in {"none", "raw"}
                 \/ canSudo /\ tree'[v] \in {"touched", "configured", "built"}
           /\ pc \notin Installing => prefix' = prefix
  <1>1. /\ TypeOK /\ TarballInv /\ TreeInv /\ Key \in Versions
        /\ where \in Places /\ Home \in Places
        /\ script.rootTree => script.wipes /\ script.configure # "none"
    BY Setting, FileAssumption DEF IInv, TypeOK
  <1>2. /\ cache' \in [Versions -> Tarball]
        /\ \A v \in Versions : cache'[v] = "page" => script.fetch = "lax"
    BY <1>1 DEF Halfway, TypeOK, TarballInv, Tarball
  <1>3. tree' \in [Versions -> Tree]
    BY <1>1 DEF Halfway, Unpacked, AfterConfigure, TypeOK, Tree
  <1>4. ASSUME script.rootTree, NEW v \in Versions
        PROVE  \/ tree'[v] \in {"none", "raw"}
               \/ canSudo /\ tree'[v] \in {"touched", "configured", "built"}
    BY <1>1, <1>4 DEF Halfway, Unpacked, AfterConfigure, MayConfigure, TypeOK, TreeInv,
       Compiling
  <1>5. prefix' \in [Places -> [Files -> SUBSET Versions]]
    <2>1. \A k : Of(k) \in SUBSET Files
      BY <1>1, Setting DEF Of
    <2>2. ASSUME NEW S \in SUBSET Files, NEW q \in Places,
                 prefix' \in {Join(S), Put(q, S), Drop(S)}
          PROVE  prefix' \in [Places -> [Files -> SUBSET Versions]]
      <3>1. /\ Join(S) \in [Places -> [Files -> SUBSET Versions]]
            /\ Put(q, S) \in [Places -> [Files -> SUBSET Versions]]
            /\ Drop(S) \in [Places -> [Files -> SUBSET Versions]]
        BY <1>1, JoinType, PutType, DropType
      <3> QED
        BY <2>2, <3>1
    <2>3. CASE UNCHANGED prefix
      BY <1>1, <2>3 DEF TypeOK
    <2>4. CASE prefix' # prefix
      <3>1. PICK S \in SUBSET Files, q \in Places : prefix' \in {Join(S), Put(q, S), Drop(S)}
        BY <1>1, <2>1, <2>4 DEF Halfway, All
      <3> QED
        BY <2>2, <3>1
    <2> QED
      BY <2>3, <2>4
  <1>6. pc \notin Installing => prefix' = prefix
    BY DEF Halfway, Installing
  <1> QED
    BY <1>2, <1>3, <1>4, <1>5, <1>6

\* ... and how far it reaches.
LEMMA HalfwayMarks ==
    ASSUME IInv, Halfway, pc \in Busy, UNCHANGED <<setting, ver, where, before>>,
           NEW p \in Places, NEW f \in Files
    PROVE  Mark(p, f)'
  <1>1. /\ Of("archive")' = Of("archive") /\ Of("ini")' = Of("ini")
        /\ Key' = Key /\ script' = script
        /\ where \in Places /\ Home \in Places /\ TypeOK
    BY Fixed, FileAssumption DEF IInv, TypeOK, Kinds, setting
  <1>2. CASE UNCHANGED prefix /\ pc \in Installing
    BY <1>2, MarkFile
  <1>3. CASE UNCHANGED prefix /\ pc \notin Installing
    BY <1>3 DEF IInv, WriteInv, Mark, Busy
  <1>4. ASSUME pc = "append", script.archive = "appended",
               NEW S \in SUBSET Of("archive"), prefix' = Join(S)
        PROVE  Mark(p, f)'
    BY <1>4, JoinMarks
  <1>5. ASSUME pc = "strip", NEW k \in script.strips, NEW S \in SUBSET All(k),
               prefix' = Drop(S)
        PROVE  Mark(p, f)'
    <2>1. prefix'[p][f] = IF p = where /\ f \in S THEN {} ELSE prefix[p][f]
      BY <1>1, <1>5 DEF Drop, TypeOK
    <2>2. CASE p = where /\ f \in S
      BY <1>1, <1>5, <2>1, <2>2 DEF Mark, All
    <2>3. CASE ~(p = where /\ f \in S)
      BY <1>5, <2>1, <2>3, MarkFile DEF Installing
    <2> QED
      BY <2>2, <2>3
  <1>6. ASSUME pc = "static", script.archive = "copied",
               NEW S \in SUBSET Of("archive"), prefix' = Put(where, S)
        PROVE  Mark(p, f)'
    <2>1. prefix'[p][f] = IF p = where /\ f \in S THEN {Key} ELSE prefix[p][f]
      BY <1>1, <1>6 DEF Put, TypeOK
    <2>2. CASE p = where /\ f \in S
      BY <1>1, <1>6, <2>1, <2>2 DEF Mark
    <2>3. CASE ~(p = where /\ f \in S)
      BY <1>6, <2>1, <2>3, MarkFile DEF Installing
    <2> QED
      BY <2>2, <2>3
  <1>7. ASSUME pc = "ini", script.ini, NEW S \in SUBSET Of("ini"), prefix' = Put(Home, S)
        PROVE  Mark(p, f)'
    <2>1. prefix'[p][f] = IF p = Home /\ f \in S THEN {Key} ELSE prefix[p][f]
      BY <1>1, <1>7 DEF Put, TypeOK
    <2>2. CASE p = Home /\ f \in S
      BY <1>1, <1>7, <2>1, <2>2 DEF Mark
    <2>3. CASE ~(p = Home /\ f \in S)
      BY <1>7, <2>1, <2>3, MarkFile DEF Installing
    <2> QED
      BY <2>2, <2>3
  <1> QED
    BY <1>2, <1>3, <1>4, <1>5, <1>6, <1>7 DEF Halfway

LEMMA BreakStep ==
    ASSUME IInv, Break
    PROVE  IInv'
  <1>1. /\ UNCHANGED <<setting, ver, where, before>> /\ Halfway
        /\ pc' = "aborted" /\ todo' = {} /\ TypeOK /\ pc \in Busy
        /\ why' = IF pc \in Installing THEN "write" ELSE "disk"
    BY DEF IInv, Break, Abort, Busy, Early, Installing
  <1>2. TypeOK'
    BY <1>1, HalfwayFiles, Fixed DEF TypeOK, setting, Busy, Stopped, Outcome
  <1>3. TarballInv' /\ TreeInv'
    BY <1>1, HalfwayFiles
       DEF TarballInv, TreeInv, setting, Early, Compiling, Installing
  <1>4. WriteInv' /\ LayoutInv' /\ DoneInv' /\ AbortsExplained'
    BY <1>1 DEF WriteInv, LayoutInv, DoneInv, AbortsExplained, Early, Compiling
  <1>5. DamageIsBounded'
    <2>1. \A p \in Places, f \in Files : Mark(p, f)'
      BY <1>1, HalfwayMarks
    <2>2. pc \notin Installing => prefix' = before'
      BY <1>1, HalfwayFiles DEF IInv, WriteInv, Busy
    <2> QED
      BY <1>1, <2>1, <2>2 DEF DamageIsBounded
  <1> QED
    BY <1>2, <1>3, <1>4, <1>5 DEF IInv

LEMMA InterruptStep ==
    ASSUME IInv, Interrupt
    PROVE  IInv'
  <1>1. /\ UNCHANGED <<setting, ver, where, before>> /\ Halfway
        /\ pc' = "rest" /\ why' = "none" /\ todo' = {} /\ TypeOK
    BY DEF IInv, Interrupt
  <1>2. TypeOK'
    BY <1>1, HalfwayFiles, Fixed DEF TypeOK, setting, Busy, Stopped, Outcome
  <1>3. TarballInv' /\ TreeInv'
    BY <1>1, HalfwayFiles
       DEF TarballInv, TreeInv, setting, Early, Compiling, Installing
  <1>4. /\ WriteInv' /\ LayoutInv' /\ DoneInv'
        /\ DamageIsBounded' /\ AbortsExplained'
    BY <1>1 DEF WriteInv, LayoutInv, DoneInv, DamageIsBounded, AbortsExplained,
       Early, Compiling
  <1> QED
    BY <1>2, <1>3, <1>4 DEF IInv

LEMMA DeleteBuildStep ==
    ASSUME IInv, DeleteBuild
    PROVE  IInv'
  <1>1. TypeOK'
    BY Setting, FileAssumption DEF IInv, DeleteBuild, Goto, Abort, setting,
       run, TypeOK, ByMakeInstall, Key, Of, Busy, Early, Compiling,
       Installing, Stopped, Tarball, Tree, Outcome
  <1>2. TarballInv'
    BY Setting, FileAssumption DEF IInv, DeleteBuild, Goto, Abort, setting,
       run, TarballInv, TypeOK, Key, Busy, Early, Compiling, Installing,
       Stopped, Tarball, Tree, Outcome
  <1>3. TreeInv'
    BY Setting, FileAssumption DEF IInv, DeleteBuild, Goto, Abort, setting,
       run, TreeInv, TarballInv, TypeOK, Key, Busy, Early, Compiling,
       Installing, Stopped, Tarball, Tree, Outcome
  <1>4. WriteInv'
    BY Setting, FileAssumption DEF IInv, DeleteBuild, Goto, Abort, setting,
       run, WriteInv, LayoutInv, TypeOK, MayInstall, Key, ByMakeInstall,
       Busy, Early, Compiling, Installing, Stopped, Tarball, Tree, Outcome
  <1>5. LayoutInv'
    BY Setting, FileAssumption DEF IInv, DeleteBuild, Goto, Abort, setting,
       run, LayoutInv, WriteInv, TypeOK, Laid, Of, ByMakeInstall, Key,
       MayInstall, Busy, Early, Compiling, Installing, Stopped, Tarball,
       Tree, Outcome
  <1>6. DoneInv'
    BY Setting, FileAssumption DEF IInv, DeleteBuild, Goto, Abort, setting,
       run, DoneInv, LayoutInv, Wanted, Laid, Of, ByMakeInstall, Key,
       TypeOK, Busy, Early, Compiling, Installing, Stopped, Tarball, Tree,
       Outcome
  <1>7. DamageIsBounded'
    BY DEF DeleteBuild, DamageIsBounded
  <1>8. AbortsExplained'
    BY Setting, FileAssumption DEF IInv, DeleteBuild, Goto, Abort, setting,
       run, AbortsExplained, TarballInv, TreeInv, WriteInv, LayoutInv,
       TypeOK, MayInstall, MayStrip, Key, Busy, Early, Compiling,
       Installing, Stopped, Tarball, Tree, Outcome
  <1> QED
    BY <1>1, <1>2, <1>3, <1>4, <1>5, <1>6, <1>7, <1>8 DEF IInv

LEMMA StartStep ==
    ASSUME IInv, NEW v \in Versions, NEW p \in Places, Start(v, p)
    PROVE  IInv'
  <1>1. TypeOK'
    BY Setting, FileAssumption DEF IInv, Start, Empty, Goto, Abort, setting,
       run, TypeOK, ByMakeInstall, Key, Of, Busy, Early, Compiling,
       Installing, Stopped, Tarball, Tree, Outcome
  <1>2. TarballInv'
    BY Setting, FileAssumption DEF IInv, Start, Empty, Goto, Abort, setting,
       run, TarballInv, TypeOK, Key, Busy, Early, Compiling, Installing,
       Stopped, Tarball, Tree, Outcome
  <1>3. TreeInv'
    BY Setting, FileAssumption DEF IInv, Start, Empty, Goto, Abort, setting,
       run, TreeInv, TarballInv, TypeOK, Key, Busy, Early, Compiling,
       Installing, Stopped, Tarball, Tree, Outcome
  <1>4. WriteInv'
    BY Setting, FileAssumption DEF IInv, Start, Empty, Goto, Abort, setting,
       run, WriteInv, LayoutInv, TypeOK, MayInstall, Key, ByMakeInstall,
       Busy, Early, Compiling, Installing, Stopped, Tarball, Tree, Outcome
  <1>5. LayoutInv'
    BY Setting, FileAssumption DEF IInv, Start, Empty, Goto, Abort, setting,
       run, LayoutInv, WriteInv, TypeOK, Laid, Of, ByMakeInstall, Key,
       MayInstall, Busy, Early, Compiling, Installing, Stopped, Tarball,
       Tree, Outcome
  <1>6. DoneInv'
    BY Setting, FileAssumption DEF IInv, Start, Empty, Goto, Abort, setting,
       run, DoneInv, LayoutInv, Wanted, Laid, Of, ByMakeInstall, Key,
       TypeOK, Busy, Early, Compiling, Installing, Stopped, Tarball, Tree,
       Outcome
  <1>7. DamageIsBounded'
    BY DEF Start, DamageIsBounded
  <1>8. AbortsExplained'
    BY Setting, FileAssumption DEF IInv, Start, Empty, Goto, Abort, setting,
       run, AbortsExplained, TarballInv, TreeInv, WriteInv, LayoutInv,
       TypeOK, MayInstall, MayStrip, Key, Busy, Early, Compiling,
       Installing, Stopped, Tarball, Tree, Outcome
  <1> QED
    BY <1>1, <1>2, <1>3, <1>4, <1>5, <1>6, <1>7, <1>8 DEF IInv

LEMMA DeletePrefixStep ==
    ASSUME IInv, NEW p \in Places, DeletePrefix(p)
    PROVE  IInv'
  <1>1. TypeOK'
    BY Setting, FileAssumption DEF IInv, DeletePrefix, Empty, Goto, Abort,
       setting, run, TypeOK, ByMakeInstall, Key, Of, Busy, Early, Compiling,
       Installing, Stopped, Tarball, Tree, Outcome
  <1>2. TarballInv'
    BY Setting, FileAssumption DEF IInv, DeletePrefix, Empty, Goto, Abort,
       setting, run, TarballInv, TypeOK, Key, Busy, Early, Compiling,
       Installing, Stopped, Tarball, Tree, Outcome
  <1>3. TreeInv'
    BY Setting, FileAssumption DEF IInv, DeletePrefix, Empty, Goto, Abort,
       setting, run, TreeInv, TarballInv, TypeOK, Key, Busy, Early,
       Compiling, Installing, Stopped, Tarball, Tree, Outcome
  <1>4. WriteInv'
    BY Setting, FileAssumption DEF IInv, DeletePrefix, Empty, Goto, Abort,
       setting, run, WriteInv, LayoutInv, TypeOK, MayInstall, Key,
       ByMakeInstall, Busy, Early, Compiling, Installing, Stopped, Tarball,
       Tree, Outcome
  <1>5. LayoutInv'
    BY Setting, FileAssumption DEF IInv, DeletePrefix, Empty, Goto, Abort,
       setting, run, LayoutInv, WriteInv, TypeOK, Laid, Of, ByMakeInstall,
       Key, MayInstall, Busy, Early, Compiling, Installing, Stopped,
       Tarball, Tree, Outcome
  <1>6. DoneInv'
    BY Setting, FileAssumption DEF IInv, DeletePrefix, Empty, Goto, Abort,
       setting, run, DoneInv, LayoutInv, Wanted, Laid, Of, ByMakeInstall,
       Key, TypeOK, Busy, Early, Compiling, Installing, Stopped, Tarball,
       Tree, Outcome
  <1>7. DamageIsBounded'
    BY DEF DeletePrefix, DamageIsBounded
  <1>8. AbortsExplained'
    BY Setting, FileAssumption DEF IInv, DeletePrefix, Empty, Goto, Abort,
       setting, run, AbortsExplained, TarballInv, TreeInv, WriteInv,
       LayoutInv, TypeOK, MayInstall, MayStrip, Key, Busy, Early, Compiling,
       Installing, Stopped, Tarball, Tree, Outcome
  <1> QED
    BY <1>1, <1>2, <1>3, <1>4, <1>5, <1>6, <1>7, <1>8 DEF IInv

-----------------------------------------------------------------------------

LEMMA InitInv == Init => IInv
  <1> SUFFICES ASSUME Init PROVE IInv
    OBVIOUS
  <1>1. TypeOK
    <2>1. Empty \in [Files -> SUBSET Versions]
      BY DEF Empty
    <2>2. \A v \in Versions : [f \in Files |-> IF f \in Ships[v] THEN {v} ELSE {}]
                                \in [Files -> SUBSET Versions]
      OBVIOUS
    <2>3. prefix \in [Places -> [Files -> SUBSET Versions]]
      BY <2>1, <2>2 DEF Init
    <2> QED
      BY <2>3, FileAssumption DEF Init, TypeOK, Busy, Stopped, Outcome, Tarball, Tree
  <1>2. pc = "rest" /\ \A v \in Versions : cache[v] = "none" /\ tree[v] = "none"
    BY DEF Init
  <1> QED
    BY <1>1, <1>2
       DEF IInv, TarballInv, TreeInv, WriteInv, LayoutInv, DoneInv,
           DamageIsBounded, AbortsExplained, Early, Compiling, Installing

LEMMA StutterStep == IInv /\ UNCHANGED vars => IInv'
  <1> SUFFICES ASSUME IInv, UNCHANGED vars PROVE IInv'
    OBVIOUS
  <1>1. UNCHANGED <<setting, ver, where, before, cache, tree, prefix, pc, todo, why,
                    script, canSudo, rootOwned>>
    BY DEF vars, setting, run
  <1>2. /\ \A k \in Kinds : Of(k)' = Of(k)
        /\ "archive" \in Kinds /\ "ini" \in Kinds
    BY <1>1, Fixed DEF Kinds
  <1>3. TypeOK' /\ TarballInv' /\ TreeInv' /\ WriteInv'
    BY <1>1, Fixed DEF IInv, TypeOK, TarballInv, TreeInv, WriteInv
  <1>4. LayoutInv' /\ DoneInv'
    BY <1>1, <1>2, Fixed DEF IInv, LayoutInv, DoneInv
  <1>5. DamageIsBounded' /\ AbortsExplained'
    BY <1>1, <1>2, Fixed DEF IInv, DamageIsBounded, Mark, AbortsExplained
  <1> QED
    BY <1>3, <1>4, <1>5 DEF IInv

LEMMA NextInv == IInv /\ [Next]_vars => IInv'
  <1> SUFFICES ASSUME IInv, [Next]_vars PROVE IInv'
    OBVIOUS
  <1>1. CASE Step
    BY <1>1, MakePrefixStep, FetchStep, WipeStep, UnpackStep, ListStep, CleanStep,
       ConfigureStep, MakeStep, AppendStep, InstallStep, EndInstallStep,
       StripStep, StaticStep, IniStep, ShowStep DEF Step
  <1>2. CASE Break \/ Interrupt \/ DeleteBuild
    BY <1>2, BreakStep, InterruptStep, DeleteBuildStep
  <1>3. CASE \E v \in Versions, p \in Places : Start(v, p)
    BY <1>3, StartStep
  <1>4. CASE \E p \in Places : DeletePrefix(p)
    BY <1>4, DeletePrefixStep
  <1>5. CASE UNCHANGED vars
    BY <1>5, StutterStep
  <1> QED
    BY <1>1, <1>2, <1>3, <1>4, <1>5 DEF Next

\* The strengthened invariant holds of every script.
THEOREM Invariant == Spec => []IInv
  BY InitInv, NextInv, PTL DEF Spec

\* The state of the run and of build/ keeps its type (all scripts).
THEOREM TypeCorrect == Spec => []TypeOK
  <1>1. IInv => TypeOK
    BY DEF IInv
  <1> QED
    BY <1>1, Invariant, PTL

\* Whatever earlier runs left behind, a script installs only what it compiled
\* in this run from a whole tarball (the fetch, wipe and unpack of all scripts).
THEOREM FreshBuilds == Spec => []InstallsThisBuild
  <1>1. IInv => InstallsThisBuild
    BY DEF IInv, InstallsThisBuild, TarballInv, TreeInv
  <1> QED
    BY <1>1, Invariant, PTL

\* A failed run changes an installation only in the five ways the property
\* lists, of which one is that a command of the installation breaks off, and
\* never beyond the run's own files (set -e of all scripts).
THEOREM FailuresBounded == Spec => []DamageIsBounded
  <1>1. IInv => DamageIsBounded
    BY DEF IInv
  <1> QED
    BY <1>1, Invariant, PTL

\* A run that ends well has installed all of the new build and nothing else has
\* changed (the installing half of all scripts).
THEOREM SuccessComplete == Spec => []SuccessIsComplete
  <1>1. IInv => SuccessIsComplete
    BY DEF IInv, DoneInv, SuccessIsComplete
  <1> QED
    BY <1>1, Invariant, PTL

\* Every failure has the cause the property names.
THEOREM AbortsHaveCauses == Spec => []AbortsExplained
  <1>1. IInv => AbortsExplained
    BY DEF IInv
  <1> QED
    BY <1>1, Invariant, PTL

\* No run ever replaces a tarball that is broken (the [ ! -f $TARBALL ] of all
\* scripts).
THEOREM BadTarballsStay == Spec => BadTarballStays
  <1>1. ASSUME IInv, [Next]_vars, NEW v \in Versions, cache[v] \in {"page", "partial"}
        PROVE  cache'[v] = cache[v] \/ (pc \in Stopped /\ cache'[v] = "none")
    <2>1. CASE Fetch
      BY <1>1, <2>1, Setting DEF IInv, Fetch, TypeOK
    <2>2. CASE Break \/ Interrupt
      BY <1>1, <2>2, Setting DEF IInv, Break, Interrupt, Halfway, TypeOK
    <2>3. CASE DeleteBuild
      BY <1>1, <2>3 DEF DeleteBuild
    <2>4. CASE UNCHANGED cache
      BY <2>4
    <2> QED
      BY <1>1, <2>1, <2>2, <2>3, <2>4
         DEF Next, Step, vars, MakePrefix, Wipe, Unpack, List, Clean, Configure,
             Make, Append, Install, EndInstall, Strip, Static, Ini, Show, Start,
             DeletePrefix
  <1>2. IInv /\ [Next]_vars =>
          [\A v \in Versions : cache[v] \in {"page", "partial"} =>
              cache'[v] = cache[v] \/ (pc \in Stopped /\ cache'[v] = "none")]_vars
    BY <1>1
  <1> QED
    BY <1>2, Invariant, PTL DEF Spec, BadTarballStays

-----------------------------------------------------------------------------
(* What a success is worth.                                                *)

\* Whatever version was there, and whatever a run that was killed has left, a
\* success leaves nothing else in any file the new version has; only the archive
\* that is appended to (bzip2.sh:50) still holds members of both, and only the
\* templates may be those of before (the installing half of all scripts).
THEOREM RerunHeals ==
    Spec => [](pc = "done" => \A f \in Ships[Key] :
                  \/ prefix[where][f] = IF Kind[f] \in script.strips THEN {} ELSE {Key}
                  \/ Kind[f] = "archive" /\ script.archive = "appended"
                  \/ Kind[f] = "ini")
<1>1. ASSUME IInv, pc = "done", NEW f \in Ships[Key], Kind[f] # "ini",
             Kind[f] = "archive" => script.archive # "appended"
      PROVE  prefix[where][f] = IF Kind[f] \in script.strips THEN {} ELSE {Key}
  <2>1. f \in Files /\ prefix[where][f] = Wanted(f)
    BY <1>1, Setting, FileAssumption DEF IInv, DoneInv, TypeOK
  <2>2. script.archive \in {"installed", "appended", "copied"}
    BY <1>1, Setting DEF IInv
  <2> QED
    BY <1>1, <2>1, <2>2 DEF Wanted, Laid, ByMakeInstall, Of
<1>2. IInv => (pc = "done" => \A f \in Ships[Key] :
                  \/ prefix[where][f] = IF Kind[f] \in script.strips THEN {} ELSE {Key}
                  \/ Kind[f] = "archive" /\ script.archive = "appended"
                  \/ Kind[f] = "ini")
  BY <1>1
<1> QED
  BY <1>2, Invariant, PTL

\* The files that a script leaves of the version it has built.
Kept == {f \in Ships[Key] : /\ Kind[f] \notin script.strips
                            /\ Kind[f] = "ini" => script.ini /\ where = Home}

\* A place that another script, or this one in another version, filled: it holds
\* nothing of what this script deletes, and no archive it would append to.
Compatible(disk) ==
    \A f \in Files : /\ Kind[f] \in script.strips => disk[f] = {}
                     /\ f \in Of("archive") /\ script.archive = "appended" => disk[f] = {}

\* On an empty place, or one that was prepared with the committed libraries, a
\* whole run comes to one step that lays the version's files over the others.
\* This is the step that module Release takes for it (Lay there).
THEOREM BuildsLay ==
    Spec => [](pc = "done" /\ Compatible(before[where]) =>
                  prefix[where] = [f \in Files |-> IF f \in Kept THEN {Key} ELSE before[where][f]])
<1>1. ASSUME IInv, pc = "done", Compatible(before[where])
      PROVE  prefix[where] = [f \in Files |-> IF f \in Kept THEN {Key} ELSE before[where][f]]
  <2>1. /\ where \in Places /\ prefix[where] \in [Files -> SUBSET Versions]
        /\ script.archive \in {"installed", "appended", "copied"}
        /\ script.strips \in SUBSET {"bin", "share"}
        /\ Kind \in [Files -> Kinds]
    BY <1>1, Setting, FileAssumption DEF IInv, TypeOK
  <2>2. ASSUME NEW f \in Files
        PROVE  prefix[where][f] = IF f \in Kept THEN {Key} ELSE before[where][f]
    <3>1. prefix[where][f] = Wanted(f)
      BY <1>1 DEF IInv, DoneInv
    <3> QED
      BY <1>1, <2>1, <3>1 DEF Wanted, Laid, ByMakeInstall, Of, Kept, Compatible, Kinds
  <2> QED
    BY <2>1, <2>2
<1>2. IInv => (pc = "done" /\ Compatible(before[where]) =>
          prefix[where] = [f \in Files |-> IF f \in Kept THEN {Key} ELSE before[where][f]])
  BY <1>1
<1> QED
  BY <1>2, Invariant, PTL

-----------------------------------------------------------------------------
(* The scripts by name.                                                    *)

\* Only php-8.0.sh builds in a tree that it may not have removed.
LEMMA WhichWipe == \A s \in AllScripts : ~s.wipes => s = php_8_0
  <1>1. Library.wipes /\ Strict.wipes /\ OldPhp.wipes /\ NewPhp.wipes /\ Backport.wipes
    BY DEF Library, Strict, OldPhp, NewPhp, Backport
  <1>2. /\ argon2.wipes /\ bzip2.wipes /\ gmp.wipes /\ libiconv.wipes
        /\ libjpeg_turbo.wipes /\ libzip.wipes /\ oniguruma.wipes
        /\ openssl_1_1.wipes /\ openssl_3_5.wipes /\ pcre2.wipes /\ zlib.wipes
    BY DEF Library, argon2, bzip2, gmp, libiconv, libjpeg_turbo, libzip, oniguruma,
       openssl_1_1, openssl_3_5, pcre2, zlib
  <1>3. /\ freetype.wipes /\ icu.wipes /\ libgd.wipes /\ libpng.wipes /\ libpq.wipes
        /\ libxml2.wipes /\ libxml2_2_11.wipes /\ nghttp2.wipes
        /\ mysql_5_7.wipes /\ nginx.wipes /\ redis_7_2.wipes
    BY DEF Library, freetype, icu, libgd, libpng, libpq, libxml2, libxml2_2_11,
       nghttp2, mysql_5_7, nginx, redis_7_2
  <1>4. /\ brotli.wipes /\ curl.wipes /\ krb5.wipes /\ libnghttp2.wipes
        /\ libnghttp3.wipes /\ libngtcp2.wipes /\ libssh2.wipes /\ libwebp.wipes
        /\ lz4.wipes /\ xz.wipes /\ zstd.wipes
    BY DEF Library, Strict, brotli, curl, krb5, libnghttp2, libnghttp3, libngtcp2,
       libssh2, libwebp, lz4, xz, zstd
  <1>5. php_5_6.wipes /\ php_7_0.wipes /\ php_7_1.wipes /\ php_7_2.wipes
    BY DEF Library, OldPhp, php_5_6, php_7_0, php_7_1, php_7_2
  <1>6. /\ php_7_3_log.wipes /\ php_8_1.wipes /\ php_8_2.wipes /\ php_8_3.wipes
        /\ php_8_4.wipes /\ php_8_5.wipes
    BY DEF Library, NewPhp, php_7_3_log, php_8_1, php_8_2, php_8_3, php_8_4, php_8_5
  <1>7. php_7_3.wipes /\ php_7_4.wipes /\ php_7_4_log.wipes
    BY DEF Library, NewPhp, Backport, php_7_3, php_7_4, php_7_4_log
  <1> QED
    BY <1>2, <1>3, <1>4, <1>5, <1>6, <1>7 DEF AllScripts, Programs

\* Of all scripts under mac_arm64/ only php-8.0.sh ever installs anything that
\* contains objects of an earlier run (php-8.0.sh:28-33).
THEOREM OnlyPhp80Mixes ==
    ASSUME ScriptSet \subseteq AllScripts
    PROVE  Spec => [](pc \in Installing => tree[Key] = "built" \/ script = php_8_0)
  <1>1. IInv => (pc \in Installing => tree[Key] = "built" \/ script = php_8_0)
    BY WhichWipe DEF IInv, TypeOK, TreeInv
  <1> QED
    BY <1>1, Invariant, PTL

\* The scripts that write with sudo, from one build, and run nothing of it.
OneWrite == {
    argon2, libzip, oniguruma, freetype, libgd, libpng, libpq, libxml2, libxml2_2_11,
    curl, krb5, libnghttp2, libnghttp3, libngtcp2, libssh2, lz4, xz, zstd,
    nginx, redis_7_2 }

LEMMA OneWriteProfile ==
    \A s \in OneWrite : s.archive = "installed" /\ s.sudo /\ ~s.ini /\ ~s.runs
  <1> DEFINE Good(s) == s.archive = "installed" /\ s.sudo /\ ~s.ini /\ ~s.runs
  <1>1. /\ Good(argon2) /\ Good(libzip) /\ Good(oniguruma) /\ Good(nginx) /\ Good(redis_7_2)
        /\ Good(freetype) /\ Good(libgd) /\ Good(libpng) /\ Good(libpq)
        /\ Good(libxml2) /\ Good(libxml2_2_11)
    BY DEF Library, argon2, libzip, oniguruma, nginx, redis_7_2, freetype, libgd,
       libpng, libpq, libxml2, libxml2_2_11
  <1>2. /\ Good(curl) /\ Good(krb5) /\ Good(libnghttp2) /\ Good(libnghttp3)
        /\ Good(libngtcp2) /\ Good(libssh2) /\ Good(lz4) /\ Good(xz) /\ Good(zstd)
    BY DEF Library, Strict, curl, krb5, libnghttp2, libnghttp3, libngtcp2, libssh2,
       lz4, xz, zstd
  <1> HIDE DEF Good
  <1>3. \A s \in OneWrite : Good(s)
    BY <1>1, <1>2 DEF OneWrite
  <1> QED
    BY <1>3 DEF Good

\* Of the five ways in which a failed run may have damaged an installation,
\* twenty of the scripts have one: a command of the installation itself that
\* broke off. Whatever else fails, above all for want of rights, has left every
\* installation as it was; and what the broken command has changed are files of
\* the new version and directories that the script deletes (their `sudo make
\* install' and `sudo rm -rf', e.g. curl.sh).
THEOREM OneWriteOneDamage ==
    ASSUME ScriptSet \subseteq OneWrite
    PROVE  Spec => [](pc = "aborted" =>
                         /\ why # "write" => prefix = before
                         /\ \A p \in Places, f \in Files :
                               \/ prefix[p][f] = before[p][f]
                               \/ /\ p = where
                                  /\ \/ f \in Ships[Key] /\ prefix[p][f] = {Key}
                                     \/ Kind[f] \in script.strips /\ prefix[p][f] = {})
  <1> DEFINE Damage ==
        /\ why # "write" => prefix = before
        /\ \A p \in Places, f \in Files :
              \/ prefix[p][f] = before[p][f]
              \/ /\ p = where
                 /\ \/ f \in Ships[Key] /\ prefix[p][f] = {Key}
                    \/ Kind[f] \in script.strips /\ prefix[p][f] = {}
  <1>1. ASSUME IInv, pc = "aborted" PROVE Damage
    <2>1. script.archive = "installed" /\ script.sudo /\ ~script.ini /\ ~script.runs
      BY <1>1, OneWriteProfile DEF IInv, TypeOK
    <2>2. /\ prefix # before => why = "write"
          /\ \A p \in Places, f \in Files : Mark(p, f)
      BY <1>1, <2>1 DEF IInv, DamageIsBounded
    <2> QED
      BY <2>1, <2>2 DEF Mark, ByMakeInstall
  <1>2. IInv => (pc = "aborted" => Damage)
    BY <1>1
  <1> QED
    BY <1>2, Invariant, PTL

\* The programs but for php-5.6.sh, php-7.0.sh and php-7.1.sh.
LEMMA WhichProgramsStrip ==
    \A s \in Programs : s.strips = {} \/ s \in {php_5_6, php_7_0, php_7_1}
  <1> DEFINE Good(s) == s.strips = {}
  <1>1. Good(php_7_2)
    BY DEF Library, OldPhp, php_7_2
  <1>2. /\ Good(php_7_3_log) /\ Good(php_8_1) /\ Good(php_8_2) /\ Good(php_8_3)
        /\ Good(php_8_4) /\ Good(php_8_5)
    BY DEF Library, NewPhp, php_7_3_log, php_8_1, php_8_2, php_8_3, php_8_4, php_8_5
  <1>3. Good(php_7_3) /\ Good(php_7_4) /\ Good(php_7_4_log) /\ Good(php_8_0)
    BY DEF Library, NewPhp, Backport, php_7_3, php_7_4, php_7_4_log, php_8_0
  <1>4. Good(mysql_5_7) /\ Good(nginx) /\ Good(redis_7_2)
    BY DEF Library, mysql_5_7, nginx, redis_7_2
  <1> HIDE DEF Good
  <1>5. \A s \in Programs : Good(s) \/ s \in {php_5_6, php_7_0, php_7_1}
    BY <1>1, <1>2, <1>3, <1>4 DEF Programs
  <1> QED
    BY <1>5 DEF Good

\* Where the rule of MEMORY.md:35-36 is kept: by every program but the three
\* that the run programs_keep finds to break it (php-5.6.sh:82-85).
THEOREM OnlyThreeStrip ==
    ASSUME ScriptSet \intersect {php_5_6, php_7_0, php_7_1} = {}
    PROVE  Spec => []ProgramsKeepAll
  <1>1. ASSUME IInv, pc = "done", script \in Programs, NEW f \in ByMakeInstall
        PROVE  prefix[where][f] = {Key}
    <2>1. script \in ScriptSet /\ f \in Files
      BY <1>1, Setting DEF IInv, TypeOK
    <2>2. script.strips = {}
      BY <1>1, <2>1, WhichProgramsStrip
    <2>3. prefix[where][f] = Wanted(f)
      BY <1>1, <2>1 DEF IInv, DoneInv
    <2> QED
      BY <1>1, <2>2, <2>3 DEF Wanted, Laid, ByMakeInstall
  <1>2. IInv => ProgramsKeepAll
    BY <1>1 DEF ProgramsKeepAll
  <1> QED
    BY <1>2, Invariant, PTL

-----------------------------------------------------------------------------
(* A run's way to its end.                                                 *)

\* One of three amounts gets less and none gets more.
LEMMA Fewer ==
    ASSUME NEW s \in Nat, NEW t \in Nat, t <= s,
           NEW A, NEW B, IsFiniteSet(A), B \subseteq A,
           NEW C, NEW D, IsFiniteSet(C), D \subseteq C,
           t < s \/ B # A \/ D # C
    PROVE  t + Cardinality(B) + Cardinality(D) < s + Cardinality(A) + Cardinality(C)
  <1>1. /\ IsFiniteSet(B) /\ Cardinality(B) <= Cardinality(A)
        /\ Cardinality(B) = Cardinality(A) => B = A
    BY FS_Subset
  <1>2. /\ IsFiniteSet(D) /\ Cardinality(D) <= Cardinality(C)
        /\ Cardinality(D) = Cardinality(C) => D = C
    BY FS_Subset
  <1>3. /\ Cardinality(A) \in Nat /\ Cardinality(B) \in Nat
        /\ Cardinality(C) \in Nat /\ Cardinality(D) \in Nat
    BY <1>1, <1>2, FS_CardinalityType
  <1> QED
    BY <1>1, <1>2, <1>3

LEMMA Stages == \A p \in Busy : Stage[p] \in Nat /\ Stage[p] > 0
  BY DEF Stage, Busy, Early, Compiling, Installing

\* The amounts a run is measured by are finite.
LEMMA LeftFinite ==
    ASSUME TypeOK
    PROVE  IsFiniteSet(Uncopied) /\ IsFiniteSet(Undeleted)
  <1>1. IsFiniteSet(Files) /\ todo \subseteq Files
    BY Setting, FilesFinite DEF TypeOK
  <1>2. IsFiniteSet(Uncopied)
    BY <1>1, FS_Subset DEF Uncopied
  <1>3. Undeleted \subseteq {"bin", "share"}
    BY Setting DEF Undeleted
  <1>4. IsFiniteSet({"bin", "share"})
    <2>1. /\ IsFiniteSet({"bin"} \cup {"share"})
          /\ {"bin", "share"} = {"bin"} \cup {"share"}
      BY FS_Singleton, FS_Union
    <2> QED
      BY <2>1
  <1> QED
    BY <1>2, <1>3, <1>4, FS_Subset

\* From one command to the next, file to file or part to part.
LEMMA Onward ==
    ASSUME IInv, Step, pc' \in Busy
    PROVE  /\ pc \in Busy /\ Stage[pc'] <= Stage[pc]
           /\ Uncopied' \subseteq Uncopied /\ Undeleted' \subseteq Undeleted
           /\ Stage[pc'] < Stage[pc] \/ Uncopied' # Uncopied \/ Undeleted' # Undeleted
  <1> USE DEF Stage, Busy, Early, Compiling, Installing, Stopped, Uncopied, Undeleted
  <1>1. TypeOK /\ todo \subseteq Files /\ UNCHANGED <<script, where>>
    BY Setting DEF IInv, Step, TypeOK, MakePrefix, Fetch, Wipe, Unpack, List, Clean,
       Configure, Make, Append, Install, EndInstall, Strip, Static, Ini, Show, Goto,
       Abort, setting
  <1>2. CASE MakePrefix \/ Fetch \/ Wipe \/ Unpack \/ List \/ Clean \/ Configure \/ Make
    <2>1. <<pc, pc'>> \in {<<"mkprefix", "fetch">>, <<"fetch", "wipe">>, <<"wipe", "unpack">>,
                           <<"unpack", "list">>, <<"list", "clean">>, <<"clean", "configure">>,
                           <<"configure", "make">>, <<"make", "append">>}
      BY <1>2 DEF MakePrefix, Fetch, Wipe, Unpack, List, Clean, Configure, Make, Goto, Abort
    <2> QED
      BY <1>1, <2>1
  <1>3. CASE Append
    <2>1. pc = "append" /\ pc' = "install" /\ todo' \subseteq Files
      BY <1>1, <1>3, Setting DEF Append, Goto, Abort
    <2> QED
      BY <1>1, <2>1
  <1>4. CASE Install
    <2>1. pc = "install" /\ pc' = "install" /\ \E f \in todo : todo' = todo \ {f}
      BY <1>4 DEF Install, Goto, Abort
    <2> QED
      BY <1>1, <2>1
  <1>5. CASE EndInstall
    <2>1. pc = "install" /\ pc' = "strip" /\ todo' = todo
      BY <1>5 DEF EndInstall, Goto
    <2> QED
      BY <1>1, <2>1
  <1>6. CASE Strip
    <2>1. CASE pc' = "static"
      <3>1. pc = "strip" /\ todo' = todo
        BY <1>6, <2>1 DEF Strip, Goto, Abort
      <3> QED
        BY <1>1, <2>1, <3>1
    <2>2. CASE pc' # "static"
      <3>1. PICK k \in script.strips :
              /\ pc = "strip" /\ pc' = "strip" /\ todo' = todo /\ Present(k)
              /\ prefix' = Drop(All(k))
        BY <1>6, <2>2 DEF Strip, Goto, Abort
      <3>2. \A f \in Files :
              prefix'[where][f] = IF Kind[f] = k THEN {} ELSE prefix[where][f]
        BY <1>1, <3>1 DEF TypeOK, Drop, All
      <3>3. ~Present(k)' /\ \A l : Present(l)' => Present(l)
        BY <1>1, <3>2 DEF Present, All
      <3> QED
        BY <1>1, <3>1, <3>3
    <2> QED
      BY <2>1, <2>2
  <1>7. CASE Static \/ Ini
    <2>1. <<pc, pc'>> \in {<<"static", "ini">>, <<"ini", "show">>} /\ todo' = todo
      BY <1>7 DEF Static, Ini, Goto, Abort
    <2> QED
      BY <1>1, <2>1
  <1>8. ~Show
    BY DEF Show, Goto, Abort
  <1> QED
    BY <1>2, <1>3, <1>4, <1>5, <1>6, <1>7, <1>8 DEF Step

\* Every step of a run, and a kill, brings its end nearer (the commands of
\* every script in their order).
THEOREM RunsGetShorter == Spec => RunsShorten
<1>1. ASSUME IInv, Next, pc \in Busy
      PROVE  Left' < Left
  <2>1. IsFiniteSet(Uncopied) /\ IsFiniteSet(Undeleted)
    BY <1>1, LeftFinite DEF IInv
  <2>2. Stage[pc] \in Nat /\ Stage[pc] > 0
    BY <1>1, Stages
  <2>3. CASE pc' \in Busy
    <3>1. Step
      BY <1>1, <2>3 DEF Next, Break, Abort, Interrupt, DeleteBuild, Start, DeletePrefix, Busy,
         Stopped, Early, Compiling, Installing
    <3>2. /\ Stage[pc'] <= Stage[pc]
          /\ Uncopied' \subseteq Uncopied /\ Undeleted' \subseteq Undeleted
          /\ Stage[pc'] < Stage[pc] \/ Uncopied' # Uncopied \/ Undeleted' # Undeleted
      BY <1>1, <2>3, <3>1, Onward
    <3>3. Stage[pc'] \in Nat
      BY <2>3, Stages
    <3>4. Stage[pc'] + Cardinality(Uncopied') + Cardinality(Undeleted')
             < Stage[pc] + Cardinality(Uncopied) + Cardinality(Undeleted)
      BY <2>1, <2>2, <3>2, <3>3, Fewer
    <3> QED
      BY <1>1, <2>3, <3>4, Zenon DEF Left
  <2>4. CASE pc' \notin Busy
    <3>1. Cardinality(Uncopied) \in Nat /\ Cardinality(Undeleted) \in Nat
      BY <2>1, FS_CardinalityType
    <3>2. \A s, a, b \in Nat : s > 0 => 0 < s + a + b
      OBVIOUS
    <3>3. 0 < Stage[pc] + Cardinality(Uncopied) + Cardinality(Undeleted)
      BY <2>2, <3>1, <3>2, Zenon
    <3>4. Left' = 0
      BY <2>4 DEF Left
    <3> QED
      BY <1>1, <3>3, <3>4, Zenon DEF Left
  <2> QED
    BY <2>3, <2>4
<1>2. IInv /\ [Next]_vars => [(pc \in Busy) => Left' < Left]_vars
  BY <1>1
<1> QED
  BY <1>2, Invariant, PTL DEF Spec, RunsShorten

-----------------------------------------------------------------------------
(* The refinement.                                                         *)

\* What is there when the message of success is printed.
LEMMA EndsComplete ==
    ASSUME IInv, pc = "show", NEW f \in Ships[Key]
    PROVE  /\ Kind[f] = "lib" => prefix[where][f] = {Key}
           /\ Kind[f] = "archive" => Key \in prefix[where][f]
           /\ Kind[f] \in {"bin", "share"} => prefix[where][f] \in {{}, {Key}}
  <1>1. f \in Files /\ prefix[where][f] = Wanted(f)
    BY Setting, FileAssumption DEF IInv, DoneInv, TypeOK
  <1>2. /\ script.strips \subseteq {"bin", "share"}
        /\ script.archive \in {"installed", "appended", "copied"}
    BY Setting, ScriptAssumption DEF IInv, TypeOK, Profile
  <1> QED
    BY <1>1, <1>2 DEF Wanted, Laid, ByMakeInstall, Of

\* Files of one kind, or one file, of the new version are put up.
LEMMA PutIsWrite ==
    ASSUME IInv, NEW p \in Places, NEW S \in SUBSET Ships[Key], prefix' = Put(p, S),
           p = where \/ (p = Home /\ \A f \in S : Kind[f] = "ini"),
           pc \in Installing, pc' \in Installing \cup {"rest", "aborted"},
           UNCHANGED <<setting, ver, where>>
    PROVE  Ins!Write
  <1>1. S \in SUBSET Files /\ TypeOK /\ Key' = Key
    BY Setting, FileAssumption DEF IInv, TypeOK, Key, setting
  <1>2. prefix' \in [Places -> [Files -> SUBSET Versions]]
    BY <1>1, PutType
  <1>3. \A q \in Places, f \in Files :
           prefix'[q][f] = IF q = p /\ f \in S THEN {Key} ELSE prefix[q][f]
    BY <1>1 DEF Put, TypeOK
  <1> QED
    BY <1>1, <1>2, <1>3 DEF Ins!Write, Installing, Early, Compiling

\* Members of the new version are added to an archive.
LEMMA JoinIsWrite ==
    ASSUME IInv, NEW S \in SUBSET Of("archive"), prefix' = Join(S), pc = "append",
           pc' \in Installing \cup {"rest", "aborted"}, UNCHANGED <<setting, ver, where>>
    PROVE  Ins!Write
  <1>1. S \in SUBSET Files /\ TypeOK /\ Key' = Key
    BY Setting DEF IInv, TypeOK, Key, Of, setting
  <1>2. prefix' \in [Places -> [Files -> SUBSET Versions]]
    BY <1>1, JoinType
  <1>3. \A q \in Places, f \in Files :
           prefix'[q][f] = IF q = where /\ f \in S THEN prefix[q][f] \cup {Key} ELSE prefix[q][f]
    BY <1>1 DEF Join, TypeOK
  <1>4. \A f \in S : f \in Ships[Key] /\ Kind[f] = "archive"
    BY DEF Of
  <1> QED
    BY <1>1, <1>2, <1>3, <1>4 DEF Ins!Write, Installing, Early, Compiling

\* Files of a kind that the script deletes are deleted.
LEMMA DropIsWrite ==
    ASSUME IInv, NEW k \in script.strips, NEW S \in SUBSET All(k), prefix' = Drop(S),
           pc = "strip", pc' \in Installing \cup {"rest", "aborted"},
           UNCHANGED <<setting, ver, where>>
    PROVE  Ins!Write
  <1>1. TypeOK /\ Key' = Key /\ k \in {"bin", "share"}
    BY Setting DEF IInv, Key, setting
  <1>2. prefix' \in [Places -> [Files -> SUBSET Versions]]
    BY <1>1, DropType
  <1>3. \A q \in Places, f \in Files :
           prefix'[q][f] = IF q = where /\ f \in S THEN {} ELSE prefix[q][f]
    BY <1>1 DEF Drop, TypeOK
  <1>4. \A f \in S : Kind[f] = k
    BY DEF All
  <1> QED
    BY <1>1, <1>2, <1>3, <1>4 DEF Ins!Write, Installing, Early, Compiling

\* A build script implements Installer (all scripts).
THEOREM Refinement == Spec => ImplementsInstaller
<1>1. Init => Ins!Init
  <2> SUFFICES ASSUME Init PROVE Ins!Init
    OBVIOUS
  <2>1. IInv
    BY InitInv
  <2> QED
    BY <2>1, Setting DEF IInv, TypeOK, Init, Ins!Init, Early, Compiling, Installing
<1>2. IInv /\ [Next]_vars => [Ins!Next]_(Ins!vars)
  <2> SUFFICES ASSUME IInv, [Next]_vars PROVE [Ins!Next]_(Ins!vars)
    OBVIOUS
  <2> USE DEF Early, Compiling, Installing, Stopped, Busy
  <2>1. CASE MakePrefix \/ Fetch \/ Wipe \/ Unpack \/ List \/ Clean \/ Configure
    <3>1. /\ UNCHANGED <<prefix, where>> /\ Key' = Key
          /\ pc \in {"mkprefix", "fetch", "wipe", "unpack", "list", "clean", "configure"}
          /\ pc' \in Early \cup Compiling \cup {"aborted"}
      BY <2>1 DEF MakePrefix, Fetch, Wipe, Unpack, List, Clean, Configure, Goto,
                  Abort, Key, setting
    <3> QED
      BY <3>1 DEF Ins!Next, Ins!GiveUp, Ins!vars
  <2>2. CASE Make
    <3>1. UNCHANGED <<prefix, where>> /\ Key' = Key /\ pc = "make"
          /\ pc' \in {"append", "aborted"}
      BY <2>2 DEF Make, Goto, Abort, Key, setting
    <3> QED
      BY <3>1 DEF Ins!Next, Ins!GiveUp, Ins!Built
  <2>3. CASE Append
    <3>1. /\ pc = "append" /\ pc' \in {"install", "aborted"}
          /\ UNCHANGED <<setting, ver, where>> /\ Key' = Key
          /\ TypeOK /\ where \in Places
      BY <2>3 DEF IInv, TypeOK, Append, Goto, Abort, Key, setting
    <3>2. CASE UNCHANGED prefix
      BY <3>1, <3>2 DEF Ins!Next, Ins!GiveUp, Ins!vars
    <3>3. CASE prefix' = Join(Of("archive"))
      BY <3>1, <3>3, JoinIsWrite DEF Ins!Next
    <3> QED
      BY <2>3, <3>2, <3>3 DEF Append
  <2>4. CASE Install
    <3>1. /\ pc = "install" /\ UNCHANGED <<setting, ver, where>> /\ Key' = Key
          /\ TypeOK /\ where \in Places
      BY <2>4 DEF IInv, TypeOK, Install, Goto, Abort, Key, setting
    <3>2. CASE UNCHANGED prefix
      BY <2>4, <3>1, <3>2 DEF Install, Goto, Abort, Ins!Next, Ins!GiveUp, Ins!vars
    <3>3. ASSUME NEW f \in todo, prefix' = Put(where, {f}), pc' = "install"
          PROVE  Ins!Write
      <4>1. {f} \in SUBSET Ships[Key]
        BY <3>1 DEF TypeOK, ByMakeInstall
      <4> QED
        BY <3>1, <3>3, <4>1, PutIsWrite
    <3> QED
      BY <2>4, <3>2, <3>3 DEF Install, Goto, Abort, Ins!Next
  <2>5. CASE EndInstall
    BY <2>5 DEF EndInstall, Goto, Key, setting, Ins!vars
  <2>6. CASE Strip
    <3>1. /\ pc = "strip" /\ pc' \in {"strip", "static", "aborted"}
          /\ UNCHANGED <<setting, ver, where>> /\ Key' = Key
          /\ TypeOK /\ where \in Places
      BY <2>6 DEF IInv, TypeOK, Strip, Goto, Abort, Key, setting
    <3>2. CASE UNCHANGED prefix
      BY <3>1, <3>2 DEF Ins!Next, Ins!GiveUp, Ins!vars
    <3>3. ASSUME NEW k \in script.strips,
                 prefix' = Drop(All(k))
          PROVE  Ins!Write
      BY <3>1, <3>3, DropIsWrite
    <3> QED
      BY <2>6, <3>2, <3>3 DEF Strip, Ins!Next
  <2>7. CASE Static
    <3>1. /\ pc = "static" /\ pc' \in {"ini", "aborted"}
          /\ UNCHANGED <<setting, ver, where>> /\ Key' = Key
          /\ TypeOK /\ where \in Places
      BY <2>7 DEF IInv, TypeOK, Static, Goto, Abort, Key, setting
    <3>2. CASE UNCHANGED prefix
      BY <3>1, <3>2 DEF Ins!Next, Ins!GiveUp, Ins!vars
    <3>3. CASE prefix' = Put(where, Of("archive")) /\ pc' = "ini"
      <4>1. Of("archive") \in SUBSET Ships[Key]
        BY DEF Of
      <4> QED
        BY <3>1, <3>3, <4>1, PutIsWrite DEF Ins!Next
    <3> QED
      BY <2>7, <3>2, <3>3 DEF Static, Goto
  <2>8. CASE Ini
    <3>1. /\ pc = "ini" /\ pc' \in {"show", "aborted"}
          /\ UNCHANGED <<setting, ver, where>> /\ Key' = Key
          /\ TypeOK /\ Home \in Places
      BY <2>8, FileAssumption DEF IInv, TypeOK, Ini, Goto, Abort, Key, setting
    <3>2. CASE UNCHANGED prefix
      BY <3>1, <3>2 DEF Ins!Next, Ins!GiveUp, Ins!vars
    <3>3. CASE prefix' = Put(Home, Of("ini")) /\ pc' = "show"
      <4>1. Of("ini") \in SUBSET Ships[Key] /\ \A f \in Of("ini") : Kind[f] = "ini"
        BY DEF Of
      <4> QED
        BY <3>1, <3>3, <4>1, PutIsWrite DEF Ins!Next
    <3> QED
      BY <2>8, <3>2, <3>3 DEF Ini, Goto
  <2>9. CASE Show
    <3>1. /\ pc = "show" /\ pc' \in {"done", "aborted"}
          /\ UNCHANGED <<prefix, where>> /\ Key' = Key
      BY <2>9 DEF Show, Goto, Abort, Key, setting
    <3>2. CASE pc' = "done"
      BY <3>1, <3>2, EndsComplete DEF Ins!Next, Ins!Succeed
    <3> QED
      BY <3>1, <3>2 DEF Ins!Next, Ins!GiveUp
  <2>10. CASE Break \/ Interrupt
    <3>1. /\ Halfway /\ UNCHANGED <<setting, ver, where>> /\ Key' = Key
          /\ pc \in Busy /\ pc' \in {"rest", "aborted"} /\ Home \in Places
          /\ TypeOK /\ where \in Places
      BY <2>10, FileAssumption DEF IInv, TypeOK, Break, Interrupt, Abort, Key, setting
    <3>2. CASE UNCHANGED prefix
      BY <3>1, <3>2 DEF Ins!Next, Ins!GiveUp
    <3>3. ASSUME pc = "append", NEW S \in SUBSET Of("archive"), prefix' = Join(S)
          PROVE  Ins!Write
      BY <3>1, <3>3, JoinIsWrite
    <3>4. ASSUME pc = "strip", NEW k \in script.strips, NEW S \in SUBSET All(k),
                 prefix' = Drop(S)
          PROVE  Ins!Write
      BY <3>1, <3>4, DropIsWrite
    <3>5. ASSUME pc \in {"static", "ini"}, NEW p \in Places, NEW S \in SUBSET Ships[Key],
                 p = where \/ (p = Home /\ \A f \in S : Kind[f] = "ini"),
                 prefix' = Put(p, S)
          PROVE  Ins!Write
      BY <3>1, <3>5, PutIsWrite
    <3>6. /\ Of("archive") \in SUBSET Ships[Key] /\ Of("ini") \in SUBSET Ships[Key]
          /\ \A f \in Of("ini") : Kind[f] = "ini"
      BY DEF Of
    <3>7. CASE \E S \in SUBSET Of("archive") : prefix' = Put(where, S) /\ pc = "static"
      BY <3>1, <3>5, <3>6, <3>7 DEF Ins!Next
    <3>8. CASE \E S \in SUBSET Of("ini") : prefix' = Put(Home, S) /\ pc = "ini"
      BY <3>1, <3>5, <3>6, <3>8 DEF Ins!Next
    <3> QED
      BY <3>1, <3>2, <3>3, <3>4, <3>7, <3>8 DEF Halfway, Ins!Next
  <2>11. CASE DeleteBuild
    BY <2>11 DEF DeleteBuild, Key, setting, Ins!Next, Ins!GiveUp
  <2>12. ASSUME NEW v \in Versions, NEW p \in Places, Start(v, p)
         PROVE  Ins!Begin
    <3>1. Key' \in Versions
      BY <2>12, FileAssumption DEF Start, Key
    <3> QED
      BY <2>12, <3>1 DEF Start, Ins!Begin, Ins!Running
  <2>13. ASSUME NEW p \in Places, DeletePrefix(p)
         PROVE  Ins!Remove
    BY <2>13 DEF DeletePrefix, Empty, Key, setting, Ins!Remove, Ins!Running
  <2>14. CASE UNCHANGED vars
    BY <2>14 DEF vars, run, setting, Key, Ins!vars
  <2> QED
    BY <2>1, <2>2, <2>3, <2>4, <2>5, <2>6, <2>7, <2>8, <2>9, <2>10, <2>11, <2>12,
       <2>13, <2>14 DEF Next, Step, Ins!Next
<1> QED
  BY <1>1, <1>2, Invariant, PTL DEF Spec, ImplementsInstaller, Ins!Spec
=============================================================================
