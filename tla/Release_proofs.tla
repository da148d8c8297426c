--------------------------- MODULE Release_proofs ---------------------------
(***************************************************************************)
(* What holds of every release workflow, for any number of runs, tags and  *)
(* commits.                                                                *)
(***************************************************************************)
EXTENDS Release, TLAPS

(***************************************************************************)
(* The inductive invariant.                                                *)
(***************************************************************************)

\* What is on a run's machine follows from the run's commit.
DiskInv ==
    \A j \in Runs :
        /\ runs[j].at = "build" => runs[j].disk = Before(runs[j].src)
        /\ runs[j].at = "package" /\ ~flow.logs =>
              runs[j].disk = Lay(Built(runs[j].src), Before(runs[j].src))
        /\ runs[j].at \in {"publish", "upload"} =>
              runs[j].disk = Packed(runs[j].src).disk

\* A build that failed is packed by the log workflows only.
BuiltInv ==
    \A j \in Runs : runs[j].at \in {"package", "publish", "upload", "done", "broken"} =>
        (runs[j].ok /\ flow.script) \/ flow.logs

\* Runs start in the order of their numbers; when one starts alone, the
\* earlier ones for its tag have ended, and an ended run never works again.
OrderInv ==
    \A i, j \in Runs : i < j /\ runs[j].at # "unused" =>
        /\ runs[i].at # "unused"
        /\ ~runs[j].raced /\ runs[i].ref = runs[j].ref => runs[i].at \notin Working

\* Nothing but the tarballs of the workflow itself gets into Library.
LibraryInv == ~flow.prepares => PureLibrary

IInv == /\ TypeOK /\ DiskInv /\ BuiltInv /\ OrderInv /\ LibraryInv
        /\ AssetsFollowCommits /\ UploadsStay /\ NewestRunWins

-----------------------------------------------------------------------------

\* What a build leaves on the machine is a content.
LEMMA LayType ==
    ASSUME NEW v \in Versions, NEW d \in Content
    PROVE  Lay(v, d) \in Content
  BY DEF Lay, Content

LEMMA NothingType == Nothing \in Content
  BY DEF Nothing, Content

LEMMA FlowType ==
    ASSUME TypeOK
    PROVE  flow \in Workflow
  BY ReleaseAssumption DEF TypeOK

\* The operators on commits depend on the workflow only.
LEMMA CommitTypes ==
    ASSUME TypeOK, NEW c \in Commit
    PROVE  /\ Built(c) \in Versions
           /\ Before(c) \in Content
           /\ NameOf(c) \in Names
           /\ Packed(c) \in Asset
           /\ Packed(c).src = c
           /\ Packed(c) # None
  <1>1. Built(c) \in Versions /\ NameOf(c) \in Names
    BY DEF Built, NameOf, Names, Commit
  <1>2. Before(c) \in Content
    BY NothingType DEF Before, Commit
  <1>3. Packed(c) \in Asset
    BY <1>1, <1>2, LayType, NothingType DEF Packed, Asset
  <1> QED
    BY <1>1, <1>2, <1>3, ReleaseAssumption DEF Packed

\* The repository before the first run.
THEOREM InitIInv == Init => IInv
  <1> SUFFICES ASSUME Init PROVE IInv
    OBVIOUS
  <1>1. \A v \in Versions : Pure(v) \in Content
    BY LayType, NothingType DEF Pure
  <1>2. master \in Commit
    BY <1>1, NothingType DEF Init, Commit
  <1>3. \A j \in Runs : runs[j] \in Run
    BY <1>2, NothingType DEF Init, Run, Refs
  <1>4. TypeOK
    <2>1. runs \in [Runs -> Run]
      BY <1>3 DEF Init
    <2>2. edits \in 0..MaxEdits
      BY ReleaseAssumption DEF Init
    <2>3. flow \in Flows /\ tags \in [Refs -> Commit \cup {None}]
      BY DEF Init
    <2>4. releases \in [Refs -> [Names -> Asset \cup {None}]]
      BY DEF Init
    <2> QED
      BY <1>2, <2>1, <2>2, <2>3, <2>4 DEF TypeOK
  <1>5. PureLibrary
    BY DEF Init, PureLibrary
  <1>6. DiskInv /\ BuiltInv /\ OrderInv /\ UploadsStay /\ NewestRunWins
    BY DEF Init, DiskInv, BuiltInv, OrderInv, UploadsStay, NewestRunWins
  <1>7. AssetsFollowCommits
    BY DEF Init, AssetsFollowCommits
  <1> QED
    BY <1>4, <1>5, <1>6, <1>7 DEF IInv, LibraryInv

-----------------------------------------------------------------------------
(* The steps that leave the runs alone.                                    *)

\* The parts of the invariant that neither a commit nor a tag can disturb.
LEMMA SameRuns ==
    ASSUME IInv, UNCHANGED <<flow, runs, releases>>
    PROVE  /\ DiskInv' /\ BuiltInv' /\ OrderInv' /\ AssetsFollowCommits'
           /\ UploadsStay' /\ NewestRunWins'
  BY DEF IInv, DiskInv, BuiltInv, OrderInv, AssetsFollowCommits, UploadsStay,
         NewestRunWins, SameAsset, Newest, Shown, Packed, NameOf, Built, Before,
         Lay, Nothing

\* A commit that keeps Library pure, where purity is claimed.
LEMMA EditStep ==
    ASSUME IInv, NEW c \in Commit, Edit(c),
           ~flow.prepares => c.lib \in {Nothing} \cup {Pure(v) : v \in Versions}
    PROVE  IInv'
  <1>1. TypeOK'
    BY ReleaseAssumption DEF IInv, TypeOK, Edit
  <1>2. LibraryInv'
    BY DEF Edit, LibraryInv, PureLibrary, Nothing, Pure, Lay
  <1> QED
    BY <1>1, <1>2, SameRuns DEF IInv, Edit

\* A tag moves and no run begins.
LEMMA TagStep ==
    ASSUME IInv, UNCHANGED <<flow, master, edits, runs, releases>>,
           tags' \in [Refs -> Commit \cup {None}]
    PROVE  IInv'
  <1>1. TypeOK'
    BY DEF IInv, TypeOK
  <1>2. LibraryInv'
    BY DEF IInv, LibraryInv, PureLibrary, Nothing, Pure, Lay
  <1> QED
    BY <1>1, <1>2, SameRuns DEF IInv

\* A released asset becomes the library's directory.
LEMMA PromoteStep ==
    ASSUME IInv, NEW t \in Refs, NEW n \in Names, Promote(t, n)
    PROVE  IInv'
  <1> DEFINE a == releases[t][n]
  <1>1. a \in Asset /\ a = Packed(a.src)
    BY DEF IInv, TypeOK, AssetsFollowCommits, Promote
  <1>2. a.src \in Commit /\ a.disk \in Content
    BY <1>1 DEF Asset
  <1>3. [master EXCEPT !.lib = a.disk] \in Commit
    BY <1>2 DEF IInv, TypeOK, Commit
  <1>4. ~flow.prepares => a.disk \in {Nothing} \cup {Pure(v) : v \in Versions}
    <2> SUFFICES ASSUME ~flow.prepares PROVE a.disk \in {Nothing} \cup {Pure(v) : v \in Versions}
      OBVIOUS
    <2>1. Before(a.src) = Nothing
      BY DEF Before
    <2>2. Built(a.src) \in Versions
      BY <1>2, CommitTypes DEF IInv
    <2>3. a.disk \in {Nothing, Pure(Built(a.src))}
      BY <1>1, <2>1 DEF Packed, Pure
    <2> QED
      BY <2>2, <2>3
  <1>5. [master EXCEPT !.lib = a.disk].lib = a.disk
    BY DEF IInv, TypeOK, Commit
  <1>6. Edit([master EXCEPT !.lib = a.disk])
    BY DEF Promote
  <1> HIDE DEF a
  <1> QED
    BY <1>3, <1>4, <1>5, <1>6, EditStep

LEMMA BumpStep ==
    ASSUME IInv, NEW v \in Versions, BumpWorkflow(v) \/ BumpScript(v)
    PROVE  IInv'
  <1> DEFINE w == [master EXCEPT !.want = v]
             o == [master EXCEPT !.own = v]
  <1>1. w \in Commit /\ o \in Commit /\ w.lib = master.lib /\ o.lib = master.lib
    BY DEF IInv, TypeOK, Commit
  <1>2. ~flow.prepares => master.lib \in {Nothing} \cup {Pure(u) : u \in Versions}
    BY DEF IInv, LibraryInv, PureLibrary
  <1>3. Edit(w) \/ Edit(o)
    BY DEF BumpWorkflow, BumpScript
  <1> HIDE DEF w, o
  <1> QED
    BY <1>1, <1>2, <1>3, EditStep

-----------------------------------------------------------------------------
(* The start of a run.                                                     *)

\* A new run gets the next number and an empty machine.
LEMMA BeginStep ==
    ASSUME IInv, NEW j \in Runs, NEW how \in {"push", "dispatch"}, NEW t \in Refs,
           NextRun(j), Begin(j, how, t),
           UNCHANGED <<flow, master, edits, releases>>,
           tags' \in [Refs -> Commit \cup {None}]
    PROVE  IInv'
  <1> DEFINE r == [at |-> "prepare", by |-> how, ref |-> t, src |-> master,
                   disk |-> Nothing, ok |-> FALSE, raced |-> Busy(t)]
  <1>1. Busy(t) \in BOOLEAN
    BY DEF Busy
  <1>2. r \in Run
    BY <1>1, NothingType DEF IInv, TypeOK, Run, Working
  <1>3. runs' = [runs EXCEPT ![j] = r]
    BY DEF Begin
  <1>4. /\ runs' \in [Runs -> Run] /\ runs'[j] = r
        /\ \A i \in Runs \ {j} : runs'[i] = runs[i]
    BY <1>2, <1>3 DEF IInv, TypeOK
  <1>5. /\ runs'[j].at = "prepare" /\ runs'[j].ref = t
        /\ runs'[j].raced = Busy(t)
    BY <1>4
  <1> HIDE DEF r
  <1>6. \A i \in Runs : j < i => runs[i].at = "unused"
    BY DEF NextRun, IInv, OrderInv
  <1>7. TypeOK'
    BY <1>4 DEF IInv, TypeOK
  <1>8. DiskInv' /\ BuiltInv'
    BY <1>4, <1>5 DEF IInv, DiskInv, BuiltInv, Packed, Built, Before, Lay, Nothing
  <1>9. OrderInv'
    <2> SUFFICES ASSUME NEW h \in Runs, NEW i \in Runs, h < i, runs'[i].at # "unused"
                 PROVE  /\ runs'[h].at # "unused"
                        /\ ~runs'[i].raced /\ runs'[h].ref = runs'[i].ref =>
                              runs'[h].at \notin Working
      BY DEF OrderInv
    <2>1. CASE i = j
      <3>1. h # j /\ runs'[h] = runs[h] /\ runs[h].at # "unused"
        BY <2>1, <1>4 DEF NextRun, Runs
      <3> QED
        BY <2>1, <3>1, <1>5 DEF Busy
    <2>2. CASE i # j
      <3>1. h # j /\ runs'[h] = runs[h] /\ runs'[i] = runs[i]
        BY <2>2, <1>4, <1>6 DEF Runs
      <3> QED
        BY <3>1 DEF IInv, OrderInv
    <2> QED
      BY <2>1, <2>2
  <1>10. LibraryInv' /\ AssetsFollowCommits'
    BY DEF IInv, LibraryInv, PureLibrary, AssetsFollowCommits, Packed, NameOf,
           Built, Before, Lay, Pure, Nothing
  <1>11. UploadsStay'
    <2> SUFFICES ASSUME NEW h \in Runs, runs'[h].at = "done",
                        releases[runs[h].ref][NameOf(runs[h].src)] = None
                 PROVE  \E i \in Runs \ {h} :
                           SameAsset(i, h)' /\ runs'[i].at \in {"upload", "broken"}
      BY <1>4, <1>5 DEF UploadsStay, NameOf
    <2>1. h # j /\ runs'[h] = runs[h]
      BY <1>4, <1>5
    <2>2. PICK i \in Runs \ {h} : SameAsset(i, h) /\ runs[i].at \in {"upload", "broken"}
      BY <2>1 DEF IInv, UploadsStay
    <2>3. i # j /\ runs'[i] = runs[i]
      BY <2>2, <1>4 DEF NextRun
    <2> QED
      BY <2>1, <2>2, <2>3 DEF SameAsset, NameOf
  <1>12. NewestRunWins'
    <2> SUFFICES ASSUME NEW h \in Runs, runs'[h].at = "done", Newest(h)', ~runs'[h].raced
                 PROVE  Shown(h)' = Packed(runs[h].src)' /\ runs'[h] = runs[h]
      BY DEF NewestRunWins
    <2>1. h # j /\ runs'[h] = runs[h]
      BY <1>4, <1>5
    <2>2. Newest(h)
      BY <2>1, <1>4 DEF Newest, NextRun
    <2>3. Shown(h) = Packed(runs[h].src)
      BY <2>1, <2>2 DEF IInv, NewestRunWins
    <2> QED
      BY <2>1, <2>3 DEF Shown, Packed, NameOf, Built, Before, Lay, Nothing
  <1> QED
    BY <1>7, <1>8, <1>9, <1>10, <1>11, <1>12 DEF IInv

LEMMA PushTagStep ==
    ASSUME IInv, NEW t \in Refs, PushTag(t)
    PROVE  IInv'
  <1>1. tags' \in [Refs -> Commit \cup {None}]
    BY DEF PushTag, IInv, TypeOK
  <1>2. CASE Triggers(t)
    <2>1. PICK j \in Runs : NextRun(j) /\ Begin(j, "push", t)
      BY <1>2 DEF PushTag
    <2> QED
      BY <1>1, <2>1, BeginStep DEF PushTag
  <1>3. CASE ~Triggers(t)
    BY <1>1, <1>3, TagStep DEF PushTag
  <1> QED
    BY <1>2, <1>3

LEMMA DeleteTagStep ==
    ASSUME IInv, NEW t \in Refs, DeleteTag(t)
    PROVE  IInv'
  <1>1. tags' \in [Refs -> Commit \cup {None}]
    BY DEF DeleteTag, IInv, TypeOK
  <1> QED
    BY <1>1, TagStep DEF DeleteTag

LEMMA DispatchStep ==
    ASSUME IInv, NEW t \in Refs, Dispatch(t)
    PROVE  IInv'
  <1>1. PICK j \in Runs : NextRun(j) /\ Begin(j, "dispatch", t)
    BY DEF Dispatch
  <1>2. tags' \in [Refs -> Commit \cup {None}]
    BY DEF Dispatch, IInv, TypeOK
  <1> QED
    BY <1>1, <1>2, BeginStep DEF Dispatch

-----------------------------------------------------------------------------
(* The steps of a run.                                                     *)

\* One step of a run: nothing but its own place, machine and success change.
Moves(j) ==
    /\ runs[j].at \in Working /\ runs'[j].at # "unused"
    /\ runs' \in [Runs -> Run]
    /\ \A i \in Runs \ {j} : runs'[i] = runs[i]
    /\ runs'[j].src = runs[j].src /\ runs'[j].ref = runs[j].ref
    /\ runs'[j].raced = runs[j].raced
    /\ UNCHANGED <<flow, master, edits>>
    /\ tags' \in [Refs -> Commit \cup {None}]

\* What a step of a run cannot disturb.
LEMMA MoveStep ==
    ASSUME IInv, NEW j \in Runs, Moves(j),
           releases' \in [Refs -> [Names -> Asset \cup {None}]]
    PROVE  /\ TypeOK' /\ OrderInv' /\ LibraryInv'
           /\ \A i \in Runs : /\ runs'[i].src = runs[i].src /\ runs'[i].ref = runs[i].ref
                              /\ NameOf(runs[i].src)' = NameOf(runs[i].src)
                              /\ Packed(runs[i].src)' = Packed(runs[i].src)
                              /\ Newest(i)' = Newest(i)
           /\ \A h, i \in Runs : SameAsset(h, i)' = SameAsset(h, i)
  <1>1. TypeOK'
    BY DEF IInv, TypeOK, Moves
  <1>2. LibraryInv'
    BY DEF IInv, LibraryInv, Moves, PureLibrary, Nothing, Pure, Lay
  <1>3. \A i \in Runs : runs'[i].src = runs[i].src /\ runs'[i].ref = runs[i].ref
                       /\ runs'[i].raced = runs[i].raced
                       /\ (runs'[i].at = "unused" <=> runs[i].at = "unused")
                       /\ (runs'[i].at \in Working => runs[i].at \in Working)
    BY DEF Moves, Working
  <1>4. \A i \in Runs : /\ NameOf(runs[i].src)' = NameOf(runs[i].src)
                        /\ Packed(runs[i].src)' = Packed(runs[i].src)
    BY <1>3 DEF Moves, NameOf, Packed, Built, Before, Lay, Nothing
  <1>5. \A i \in Runs : Newest(i)' = Newest(i)
    BY <1>3 DEF Newest
  <1>6. \A h, i \in Runs : SameAsset(h, i)' = SameAsset(h, i)
    BY <1>3, <1>4 DEF SameAsset
  <1>7. OrderInv'
    BY <1>3 DEF IInv, OrderInv
  <1> QED
    BY <1>1, <1>2, <1>3, <1>4, <1>5, <1>6, <1>7

\* A step that uploads nothing and does not end an upload.
LEMMA QuietStep ==
    ASSUME IInv, NEW j \in Runs, Moves(j), UNCHANGED releases,
           runs'[j].at # "done",
           runs[j].at \in {"upload", "broken"} => runs'[j].at \in {"upload", "broken"}
    PROVE  TypeOK' /\ OrderInv' /\ LibraryInv' /\ AssetsFollowCommits'
           /\ UploadsStay' /\ NewestRunWins'
  <1> USE MoveStep
  <1>1. releases' \in [Refs -> [Names -> Asset \cup {None}]]
    BY DEF IInv, TypeOK
  <1>2. TypeOK' /\ OrderInv' /\ LibraryInv'
    BY <1>1
  <1>3. AssetsFollowCommits'
    BY DEF IInv, AssetsFollowCommits, Moves, Packed, NameOf, Built, Before, Lay, Nothing
  <1>4. UploadsStay'
    <2> SUFFICES ASSUME NEW h \in Runs, runs'[h].at = "done",
                        releases[runs[h].ref][NameOf(runs[h].src)] = None
                 PROVE  \E i \in Runs \ {h} :
                           SameAsset(i, h)' /\ runs'[i].at \in {"upload", "broken"}
      BY <1>1 DEF UploadsStay
    <2>1. h # j /\ runs'[h] = runs[h]
      BY DEF Moves
    <2>2. PICK i \in Runs \ {h} : SameAsset(i, h) /\ runs[i].at \in {"upload", "broken"}
      BY <2>1 DEF IInv, UploadsStay
    <2>3. runs'[i].at \in {"upload", "broken"} /\ SameAsset(i, h)'
      BY <2>2, <1>1 DEF Moves
    <2> QED
      BY <2>3
  <1>5. NewestRunWins'
    <2> SUFFICES ASSUME NEW h \in Runs, runs'[h].at = "done", Newest(h)', ~runs'[h].raced
                 PROVE  Shown(h)' = Packed(runs[h].src)
      BY <1>1 DEF NewestRunWins
    <2>1. h # j /\ runs'[h] = runs[h] /\ Newest(h)
      BY <1>1 DEF Moves
    <2>2. Shown(h) = Packed(runs[h].src)
      BY <2>1 DEF IInv, NewestRunWins
    <2> QED
      BY <2>1, <2>2, <1>1 DEF Shown
  <1> QED
    BY <1>2, <1>3, <1>4, <1>5

\* What the machine and the outcome of the build must be after the step.
LEMMA DiskStep ==
    ASSUME IInv, NEW j \in Runs, Moves(j),
           runs'[j].at = "build" => runs'[j].disk = Before(runs[j].src),
           runs'[j].at = "package" /\ ~flow.logs =>
              runs'[j].disk = Lay(Built(runs[j].src), Before(runs[j].src)),
           runs'[j].at \in {"publish", "upload"} =>
              runs'[j].disk = Packed(runs[j].src).disk,
           runs'[j].at \in {"package", "publish", "upload", "done", "broken"} =>
              (runs'[j].ok /\ flow.script) \/ flow.logs
    PROVE  DiskInv' /\ BuiltInv'
  <1>1. \A i \in Runs : runs'[i].src = runs[i].src /\ runs[i].src \in Commit
    BY DEF Moves, IInv, TypeOK, Run
  <1>2. \A i \in Runs : /\ Before(runs[i].src)' = Before(runs[i].src)
                       /\ Packed(runs[i].src)' = Packed(runs[i].src)
                       /\ Lay(Built(runs[i].src), Before(runs[i].src))' =
                             Lay(Built(runs[i].src), Before(runs[i].src))
    BY <1>1 DEF Moves, Built, Before, Packed, Lay, Nothing
  <1>3. DiskInv'
    BY <1>2 DEF DiskInv, IInv, Moves
  <1>4. BuiltInv'
    BY DEF BuiltInv, IInv, Moves
  <1> QED
    BY <1>3, <1>4

LEMMA PrepareStep ==
    ASSUME IInv, NEW j \in Runs, Prepare(j)
    PROVE  IInv'
  <1>1. runs[j] \in Run /\ runs[j].src \in Commit
    BY DEF IInv, TypeOK, Run
  <1>2. Before(runs[j].src) \in Content
    BY <1>1, CommitTypes DEF IInv
  <1>3. runs'[j] = [runs[j] EXCEPT !.at = "build", !.disk = Before(runs[j].src)]
    BY DEF Prepare, IInv, TypeOK
  <1>4. runs'[j] \in Run
    BY <1>1, <1>2, <1>3 DEF Run, Working
  <1>5. Moves(j)
    BY <1>1, <1>3, <1>4 DEF Prepare, Moves, Working, IInv, TypeOK, Run
  <1>6. runs'[j].at = "build" /\ runs'[j].disk = Before(runs[j].src)
    BY <1>1, <1>3 DEF Run
  <1>7. DiskInv' /\ BuiltInv'
    BY <1>5, <1>6, DiskStep
  <1> QED
    BY <1>5, <1>6, <1>7, QuietStep DEF Prepare, IInv

LEMMA BuildStep ==
    ASSUME IInv, NEW j \in Runs, Build(j)
    PROVE  IInv'
  <1> DEFINE d == Lay(Built(runs[j].src), runs[j].disk)
  <1>1. runs[j] \in Run /\ runs[j].src \in Commit
    BY DEF IInv, TypeOK, Run
  <1>2. d \in Content
    BY <1>1, CommitTypes, LayType DEF IInv, Run
  <1>3. runs'[j] = [runs[j] EXCEPT !.at = "package", !.ok = TRUE, !.disk = d]
    BY DEF Build, IInv, TypeOK
  <1>4. d = Lay(Built(runs[j].src), Before(runs[j].src))
    BY DEF Build, IInv, DiskInv
  <1> HIDE DEF d
  <1>5. runs'[j] \in Run
    BY <1>1, <1>2, <1>3 DEF Run, Working
  <1>6. runs'[j].at = "package" /\ runs'[j].disk = d /\ runs'[j].ok
        /\ runs'[j].src = runs[j].src
    BY <1>1, <1>3 DEF Run
  <1>7. Moves(j)
    BY <1>1, <1>3, <1>5 DEF Build, Moves, Working, IInv, TypeOK, Run
  <1>8. DiskInv' /\ BuiltInv'
    BY <1>4, <1>6, <1>7, DiskStep DEF Build
  <1>9. runs[j].at = "build" /\ UNCHANGED releases
    BY DEF Build
  <1> QED
    BY <1>6, <1>7, <1>8, <1>9, QuietStep DEF IInv

LEMMA TolerateFailureStep ==
    ASSUME IInv, NEW j \in Runs, TolerateFailure(j)
    PROVE  IInv'
  <1>1. runs[j] \in Run
    BY DEF IInv, TypeOK
  <1>2. runs'[j] = [runs[j] EXCEPT !.at = "package"]
    BY DEF TolerateFailure, IInv, TypeOK
  <1>3. runs'[j] \in Run /\ runs'[j].at = "package"
    BY <1>1, <1>2 DEF Run, Working
  <1>4. Moves(j)
    BY <1>1, <1>2, <1>3 DEF TolerateFailure, Moves, Working, IInv, TypeOK, Run
  <1>5. DiskInv' /\ BuiltInv'
    BY <1>3, <1>4, DiskStep DEF TolerateFailure
  <1> QED
    BY <1>3, <1>4, <1>5, QuietStep DEF TolerateFailure, IInv

LEMMA PackageStep ==
    ASSUME IInv, NEW j \in Runs, Package(j)
    PROVE  IInv'
  <1> DEFINE d == IF flow.logs THEN Nothing ELSE runs[j].disk
  <1>1. runs[j] \in Run
    BY DEF IInv, TypeOK
  <1>2. d \in Content
    BY <1>1, NothingType DEF Run
  <1>3. runs'[j] = [runs[j] EXCEPT !.at = "publish", !.disk = d]
    BY DEF Package, IInv, TypeOK
  <1>4. d = Packed(runs[j].src).disk
    BY DEF Package, IInv, DiskInv, Packed
  <1> HIDE DEF d
  <1>5. runs'[j] \in Run /\ runs'[j].at = "publish" /\ runs'[j].disk = d
        /\ runs'[j].ok = runs[j].ok
    BY <1>1, <1>2, <1>3 DEF Run, Working
  <1>6. Moves(j)
    BY <1>1, <1>3, <1>5 DEF Package, Moves, Working, IInv, TypeOK, Run
  <1>7. DiskInv' /\ BuiltInv'
    BY <1>4, <1>5, <1>6, DiskStep DEF Package, IInv, BuiltInv
  <1> QED
    BY <1>5, <1>6, <1>7, QuietStep DEF Package, IInv

LEMMA FailStep ==
    ASSUME IInv, NEW j \in Runs, Fail(j)
    PROVE  IInv'
  <1> DEFINE e == IF runs[j].at = "upload" THEN "broken" ELSE "failed"
  <1>1. runs[j] \in Run
    BY DEF IInv, TypeOK
  <1>2. runs'[j] = [runs[j] EXCEPT !.at = e]
    BY DEF Fail, IInv, TypeOK
  <1>3. runs'[j] \in Run /\ runs'[j].at = e /\ runs'[j].ok = runs[j].ok
    BY <1>1, <1>2 DEF Run, Ended
  <1>4. Moves(j)
    BY <1>1, <1>2, <1>3 DEF Fail, Moves, IInv, TypeOK, Run
  <1>5. DiskInv' /\ BuiltInv'
    BY <1>3, <1>4, DiskStep DEF Fail, IInv, BuiltInv
  <1>6. /\ UNCHANGED releases /\ runs'[j].at # "done"
        /\ runs[j].at \in {"upload", "broken"} => runs'[j].at \in {"upload", "broken"}
    BY <1>3 DEF Fail, Working
  <1> QED
    BY <1>4, <1>5, <1>6, QuietStep DEF IInv

\* The asset of the same name goes; another's loss is this run's to answer for.
LEMMA PublishStep ==
    ASSUME IInv, NEW j \in Runs, Publish(j)
    PROVE  IInv'
  <1> DEFINE t == runs[j].ref
             n == NameOf(runs[j].src)
  <1>1. /\ runs[j] \in Run /\ runs[j].at = "publish" /\ t \in Refs
        /\ n \in Names /\ runs[j].src \in Commit
    BY CommitTypes DEF Publish, IInv, TypeOK, Run
  <1>2. runs'[j] = [runs[j] EXCEPT !.at = "upload"]
    BY DEF Publish, IInv, TypeOK
  <1>3. runs'[j] \in Run /\ runs'[j].at = "upload" /\ runs'[j].ok = runs[j].ok
        /\ runs'[j].disk = runs[j].disk
    BY <1>1, <1>2 DEF Run, Working
  <1>4. tags' \in [Refs -> Commit \cup {None}]
    BY DEF Publish, IInv, TypeOK
  <1>5. Moves(j)
    BY <1>1, <1>2, <1>3, <1>4 DEF Publish, Moves, Working, IInv, TypeOK, Run
  <1>6. releases' = [releases EXCEPT ![t][n] = None]
    BY DEF Publish
  <1> HIDE DEF t, n
  <1>7. /\ releases' \in [Refs -> [Names -> Asset \cup {None}]]
        /\ \A u \in Refs, m \in Names :
              releases'[u][m] = IF u = t /\ m = n THEN None ELSE releases[u][m]
    BY <1>1, <1>6 DEF IInv, TypeOK
  <1>8. DiskInv' /\ BuiltInv'
    BY <1>1, <1>3, <1>5, DiskStep DEF IInv, DiskInv, BuiltInv
  <1>9. AssetsFollowCommits'
    <2> SUFFICES ASSUME NEW u \in Refs, NEW m \in Names, releases'[u][m] # None
                 PROVE  /\ releases'[u][m] = Packed(releases'[u][m].src)
                        /\ m = NameOf(releases'[u][m].src)
      BY <1>5 DEF AssetsFollowCommits, Moves, Packed, NameOf, Built, Before, Lay, Nothing
    <2> QED
      BY <1>7 DEF IInv, AssetsFollowCommits
  <1>10. UploadsStay'
    <2> SUFFICES ASSUME NEW h \in Runs, runs'[h].at = "done",
                        releases'[runs[h].ref][NameOf(runs[h].src)] = None
                 PROVE  \E i \in Runs \ {h} :
                           SameAsset(i, h) /\ runs'[i].at \in {"upload", "broken"}
      BY <1>5, <1>7, MoveStep DEF UploadsStay
    <2>1. h # j /\ runs'[h] = runs[h]
      BY <1>3, <1>5 DEF Moves
    <2>2. CASE runs[h].ref = t /\ NameOf(runs[h].src) = n
      <3>1. SameAsset(j, h)
        BY <2>2 DEF SameAsset, t, n
      <3> QED
        BY <3>1, <2>1, <1>3
    <2>3. CASE ~(runs[h].ref = t /\ NameOf(runs[h].src) = n)
      <3>1. runs[h].ref \in Refs /\ NameOf(runs[h].src) \in Names
        BY CommitTypes DEF IInv, TypeOK, Run
      <3>2. releases[runs[h].ref][NameOf(runs[h].src)] = None
        BY <2>3, <3>1, <1>7
      <3>3. PICK i \in Runs \ {h} : SameAsset(i, h) /\ runs[i].at \in {"upload", "broken"}
        BY <2>1, <3>2 DEF IInv, UploadsStay
      <3>4. i # j /\ runs'[i] = runs[i]
        BY <1>1, <1>5, <3>3 DEF Moves
      <3> QED
        BY <3>3, <3>4
    <2> QED
      BY <2>2, <2>3
  <1>11. NewestRunWins'
    <2> SUFFICES ASSUME NEW h \in Runs, runs'[h].at = "done", Newest(h), ~runs'[h].raced
                 PROVE  releases'[runs[h].ref][NameOf(runs[h].src)] = Packed(runs[h].src)
      BY <1>5, <1>7, MoveStep DEF NewestRunWins, Shown
    <2>1. h # j /\ runs'[h] = runs[h]
      BY <1>3, <1>5 DEF Moves
    <2>2. runs[h].ref # t
      BY <2>1, <1>1 DEF Newest, IInv, OrderInv, Working, t, Runs
    <2>3. Shown(h) = Packed(runs[h].src)
      BY <2>1 DEF IInv, NewestRunWins
    <2>4. runs[h].ref \in Refs /\ NameOf(runs[h].src) \in Names
      BY CommitTypes DEF IInv, TypeOK, Run
    <2> QED
      BY <2>2, <2>3, <2>4, <1>7 DEF Shown
  <1> QED
    BY <1>5, <1>7, <1>8, <1>9, <1>10, <1>11, MoveStep DEF IInv

\* The new asset comes, or the name is taken.
LEMMA UploadStep ==
    ASSUME IInv, NEW j \in Runs, Upload(j)
    PROVE  IInv'
  <1> DEFINE t == runs[j].ref
             n == NameOf(runs[j].src)
             a == [src |-> runs[j].src, disk |-> runs[j].disk]
  <1>1. /\ runs[j] \in Run /\ runs[j].at = "upload" /\ t \in Refs
        /\ n \in Names /\ runs[j].src \in Commit
    BY CommitTypes DEF Upload, IInv, TypeOK, Run
  <1>2. a = Packed(runs[j].src)
    BY <1>1 DEF IInv, DiskInv, Packed
  <1>3. a \in Asset /\ a # None /\ a.src = runs[j].src
    BY <1>1, <1>2, CommitTypes DEF IInv
  <1>4. PICK e \in {"done", "broken"} : runs' = [runs EXCEPT ![j].at = e]
    BY DEF Upload
  <1>5. runs'[j] = [runs[j] EXCEPT !.at = e]
    BY <1>4 DEF IInv, TypeOK
  <1>6. runs'[j] \in Run /\ runs'[j].at = e /\ runs'[j].ok = runs[j].ok
    BY <1>1, <1>5 DEF Run, Ended
  <1>7. Moves(j)
    BY <1>1, <1>4, <1>5, <1>6 DEF Upload, Moves, Working, IInv, TypeOK, Run
  <1>8. DiskInv' /\ BuiltInv'
    BY <1>1, <1>6, <1>7, DiskStep DEF IInv, DiskInv, BuiltInv
  <1>9. CASE releases[t][n] = None
    <2>1. e = "done" /\ releases' = [releases EXCEPT ![t][n] = a]
      <3>1. runs' = [runs EXCEPT ![j].at = "done"] /\ releases' = [releases EXCEPT ![t][n] = a]
        BY <1>9 DEF Upload
      <3>2. runs'[j].at = "done"
        BY <1>1, <3>1 DEF IInv, TypeOK, Run
      <3> QED
        BY <3>1, <3>2, <1>6
    <2> HIDE DEF t, n, a
    <2>2. /\ releases' \in [Refs -> [Names -> Asset \cup {None}]]
          /\ \A u \in Refs, m \in Names :
                releases'[u][m] = IF u = t /\ m = n THEN a ELSE releases[u][m]
      BY <1>1, <1>3, <2>1 DEF IInv, TypeOK
    <2>3. AssetsFollowCommits'
      <3> SUFFICES ASSUME NEW u \in Refs, NEW m \in Names, releases'[u][m] # None
                   PROVE  /\ releases'[u][m] = Packed(releases'[u][m].src)
                          /\ m = NameOf(releases'[u][m].src)
        BY <1>7 DEF AssetsFollowCommits, Moves, Packed, NameOf, Built, Before, Lay, Nothing
      <3>1. CASE u = t /\ m = n
        BY <3>1, <2>2, <1>2, <1>3 DEF n
      <3>2. CASE ~(u = t /\ m = n)
        BY <3>2, <2>2 DEF IInv, AssetsFollowCommits
      <3> QED
        BY <3>1, <3>2
    <2>4. UploadsStay'
      <3> SUFFICES ASSUME NEW h \in Runs, runs'[h].at = "done",
                          releases'[runs[h].ref][NameOf(runs[h].src)] = None
                   PROVE  \E i \in Runs \ {h} :
                             SameAsset(i, h) /\ runs'[i].at \in {"upload", "broken"}
        BY <1>7, <2>2, MoveStep DEF UploadsStay
      <3>1. runs[h].ref \in Refs /\ NameOf(runs[h].src) \in Names
        BY CommitTypes DEF IInv, TypeOK, Run
      <3>2. ~(runs[h].ref = t /\ NameOf(runs[h].src) = n)
            /\ releases[runs[h].ref][NameOf(runs[h].src)] = None
        BY <3>1, <2>2, <1>3
      <3>3. h # j /\ runs'[h] = runs[h]
        BY <3>2, <1>7 DEF t, n, Moves
      <3>4. PICK i \in Runs \ {h} : SameAsset(i, h) /\ runs[i].at \in {"upload", "broken"}
        BY <3>2, <3>3 DEF IInv, UploadsStay
      <3>5. i # j /\ runs'[i] = runs[i]
        BY <3>2, <3>4, <1>7 DEF SameAsset, t, n, Moves
      <3> QED
        BY <3>4, <3>5
    <2>5. NewestRunWins'
      <3> SUFFICES ASSUME NEW h \in Runs, runs'[h].at = "done", Newest(h), ~runs'[h].raced
                   PROVE  releases'[runs[h].ref][NameOf(runs[h].src)] = Packed(runs[h].src)
        BY <1>7, <2>2, MoveStep DEF NewestRunWins, Shown
      <3>1. CASE h = j
        BY <3>1, <2>2, <1>1, <1>2 DEF t, n
      <3>2. CASE h # j
        <4>1. runs'[h] = runs[h]
          BY <3>2, <1>7 DEF Moves
        <4>2. runs[h].ref # t
          BY <3>2, <4>1, <1>1 DEF Newest, IInv, OrderInv, Working, t, Runs
        <4>3. Shown(h) = Packed(runs[h].src)
          BY <4>1 DEF IInv, NewestRunWins
        <4>4. runs[h].ref \in Refs /\ NameOf(runs[h].src) \in Names
          BY CommitTypes DEF IInv, TypeOK, Run
        <4> QED
          BY <4>2, <4>3, <4>4, <2>2 DEF Shown
      <3> QED
        BY <3>1, <3>2
    <2> QED
      BY <1>7, <1>8, <2>2, <2>3, <2>4, <2>5, MoveStep DEF IInv
  <1>10. CASE releases[t][n] # None
    <2>1. UNCHANGED releases /\ runs'[j].at # "done"
      BY <1>1, <1>3, <1>5, <1>10 DEF Upload, IInv, TypeOK, Run
    <2>2. runs'[j].at \in {"upload", "broken"}
      BY <1>6, <2>1
    <2> QED
      BY <1>7, <1>8, <2>1, <2>2, QuietStep DEF IInv
  <1> QED
    BY <1>9, <1>10

-----------------------------------------------------------------------------

\* Every step of the developer and of a run preserves the invariant.
THEOREM Inductive == IInv /\ [Next]_vars => IInv'
  <1> SUFFICES ASSUME IInv, [Next]_vars PROVE IInv'
    OBVIOUS
  <1>1. CASE \E v \in Versions : BumpWorkflow(v) \/ BumpScript(v)
    BY <1>1, BumpStep
  <1>2. CASE \E t \in Refs, n \in Names : Promote(t, n)
    BY <1>2, PromoteStep
  <1>3. CASE \E t \in Refs : PushTag(t) \/ DeleteTag(t) \/ Dispatch(t)
    BY <1>3, PushTagStep, DeleteTagStep, DispatchStep
  <1>4. CASE \E j \in Runs : Work(j)
    BY <1>4, PrepareStep, BuildStep, TolerateFailureStep, PackageStep,
       PublishStep, UploadStep, FailStep DEF Work
  <1>5. CASE UNCHANGED vars
    BY <1>5, TagStep DEF vars, IInv, TypeOK
  <1> QED
    BY <1>1, <1>2, <1>3, <1>4, <1>5 DEF Next, Develop

\* The invariant holds throughout.
THEOREM Invariant == Spec => []IInv
  BY InitIInv, Inductive, PTL DEF Spec

(***************************************************************************)
(* What follows.                                                           *)
(***************************************************************************)

\* The repository, the runs and the releases keep their types.
THEOREM TypeCorrect == Spec => []TypeOK
  <1>1. IInv => TypeOK
    BY DEF IInv
  <1> QED
    BY <1>1, Invariant, PTL

\* An asset is determined by its commit, whatever moves while it is built.
THEOREM CommitsDetermineAssets == Spec => []AssetsFollowCommits
  <1>1. IInv => AssetsFollowCommits
    BY DEF IInv
  <1> QED
    BY <1>1, Invariant, PTL

\* A version in an asset's name is the version of its files, for every
\* workflow whose version reaches the script.
THEOREM NamesTellBuilds == Spec => []NameTellsBuild
  <1>1. IInv => NameTellsBuild
    <2> SUFFICES ASSUME IInv, flow.passes, NEW t \in Refs, NEW n \in Versions,
                        releases[t][n] # None, NEW f \in Ships[n]
                 PROVE  releases[t][n].disk[f] = n
      BY DEF NameTellsBuild
    <2> DEFINE c == releases[t][n].src
    <2>1. n \in Names /\ releases[t][n] = Packed(c) /\ n = NameOf(c)
      BY DEF IInv, AssetsFollowCommits, Names
    <2>2. flow.named /\ c.want = n
      BY <2>1, ReleaseAssumption DEF NameOf
    <2>3. ~flow.logs /\ f \in Files
      BY <2>2, ReleaseAssumption DEF IInv, TypeOK
    <2>4. releases[t][n].disk = Lay(n, Before(c))
      BY <2>1, <2>2, <2>3 DEF Packed, Built
    <2> QED
      BY <2>3, <2>4 DEF Lay
  <1> QED
    BY <1>1, Invariant, PTL

\* Without the Prepare step Library never mixes two versions.
THEOREM LibraryStaysPure == Spec => []PureWithoutPrepare
  <1>1. IInv => PureWithoutPrepare
    BY DEF IInv, LibraryInv, PureWithoutPrepare
  <1> QED
    BY <1>1, Invariant, PTL

\* No failed build is released, by any workflow but those for logs.
THEOREM FailuresUnpublished == Spec => []FailedBuildsStayUnpublished
  <1>1. IInv => FailedBuildsStayUnpublished
    BY DEF IInv, BuiltInv, FailedBuildsStayUnpublished
  <1> QED
    BY <1>1, Invariant, PTL

\* An upload is lost only to another upload that broke off.
THEOREM UploadsSurvive == Spec => []UploadsStay
  <1>1. IInv => UploadsStay
    BY DEF IInv
  <1> QED
    BY <1>1, Invariant, PTL

\* Runs for a tag that do not overlap take effect in order.
THEOREM LastRunCounts == Spec => []NewestRunWins
  <1>1. IInv => NewestRunWins
    BY DEF IInv
  <1> QED
    BY <1>1, Invariant, PTL

\* What a run that has started keeps: its tag, its commit and the way it was
\* started; once it has reached the release, that, and once it has succeeded, that.
Keeps(i) ==
    /\ runs'[i].at # "unused" /\ runs'[i].ref = runs[i].ref
    /\ runs'[i].by = runs[i].by /\ runs'[i].src = runs[i].src
    /\ runs[i].at = "done" => runs'[i].at = "done"
    /\ runs[i].at \in {"upload", "done", "broken"} =>
          runs'[i].at \in {"upload", "done", "broken"}

LEMMA StartedRunsKeep ==
    ASSUME IInv, [Next]_vars, NEW i \in Runs, runs[i].at # "unused"
    PROVE  Keeps(i)
  <1>1. CASE UNCHANGED runs
    BY <1>1 DEF Keeps
  <1>2. ASSUME NEW j \in Runs, Work(j)
        PROVE  Keeps(i)
    <2>1. CASE i = j
      <3>1. CASE Prepare(j) \/ Build(j) \/ TolerateFailure(j) \/ Package(j)
        BY <2>1, <3>1 DEF Keeps, IInv, TypeOK, Run, Prepare, Build, TolerateFailure, Package
      <3>2. CASE Publish(j) \/ Upload(j) \/ Fail(j)
        BY <2>1, <3>2 DEF Keeps, IInv, TypeOK, Run, Publish, Upload, Fail, Working
      <3> QED
        BY <1>2, <3>1, <3>2 DEF Work
    <2>2. CASE i # j
      BY <1>2, <2>2 DEF Keeps, IInv, TypeOK, Run, Work, Prepare, Build, TolerateFailure,
         Package, Publish, Upload, Fail
    <2> QED
      BY <2>1, <2>2
  <1>3. ASSUME NEW j \in Runs, NEW how, NEW t, NextRun(j), Begin(j, how, t)
        PROVE  runs'[i] = runs[i]
    BY <1>3 DEF NextRun, Begin, IInv, TypeOK
  <1> QED
    BY <1>1, <1>2, <1>3 DEF Next, Develop, BumpWorkflow, BumpScript, Promote, Edit,
       PushTag, DeleteTag, Dispatch, vars, Keeps

\* A workflow with the right glob starts for its own tags and for no others
\* (the on: of the workflows; the release step may set a tag, too).
THEOREM RightGlobs == Spec => []RightGlobsStart
<1>1. Init => RightGlobsStart
  BY DEF Init, RightGlobsStart, TagsStartTheirWorkflow, Refs, Tags
<1>2. IInv /\ RightGlobsStart /\ [Next]_vars => RightGlobsStart'
  <2> SUFFICES ASSUME IInv, RightGlobsStart, [Next]_vars, flow'.own, ~flow'.sub
               PROVE  TagsStartTheirWorkflow'
    BY DEF RightGlobsStart
  <2>1. flow' = flow /\ TagsStartTheirWorkflow
    BY DEF RightGlobsStart, Next, Develop, BumpWorkflow, BumpScript, Promote, Edit,
       PushTag, DeleteTag, Dispatch, Work, Prepare, Build, TolerateFailure, Package,
       Publish, Upload, Fail, vars
  <2>2. ASSUME NEW j \in Runs, NEW how \in {"push", "dispatch"}, NEW t \in Refs, Begin(j, how, t)
        PROVE  /\ runs'[j].at # "unused" /\ runs'[j].ref = t /\ runs'[j].by = how
               /\ \A i \in Runs \ {j} : runs'[i] = runs[i]
    BY <2>2 DEF Begin, IInv, TypeOK
  <2>3. ASSUME NEW t \in OwnTags, tags'[t] # None
        PROVE  \E j \in Runs : runs'[j].at # "unused" /\ runs'[j].ref = t
    <3>1. t \in Tags /\ t \in Refs
      BY DEF Tags, Refs
    <3>2. CASE tags[t] # None
      BY <2>1, <3>2, StartedRunsKeep DEF Keeps, TagsStartTheirWorkflow
    <3>3. ASSUME NEW j \in Runs, Publish(j), tags[t] = None
          PROVE  runs[j].at # "unused" /\ runs[j].ref = t
      BY <2>3, <3>1, <3>3 DEF Publish, IInv, TypeOK
    <3>4. ASSUME NEW u \in Refs, PushTag(u), tags[t] = None
          PROVE  u = t /\ \E j \in Runs : NextRun(j) /\ Begin(j, "push", t)
      BY <2>1, <2>3, <3>1, <3>4 DEF PushTag, Triggers, IInv, TypeOK
    <3>5. CASE tags[t] = None
      <4>1. tags' # tags
        BY <2>3, <3>5
      <4>2. ASSUME NEW u \in Refs
            PROVE  ~DeleteTag(u)
        BY <2>3, <3>1, <3>5 DEF DeleteTag, IInv, TypeOK
      <4>3. (\E u \in Refs : PushTag(u)) \/ (\E j \in Runs : Publish(j))
        BY <4>1, <4>2 DEF Next, Develop, BumpWorkflow, BumpScript, Promote, Edit,
           Dispatch, Work, Prepare, Build, TolerateFailure, Package, Upload, Fail, vars
      <4> QED
        BY <2>2, <3>1, <3>3, <3>4, <3>5, <4>3, StartedRunsKeep DEF Keeps
    <3> QED
      BY <3>2, <3>5
  <2>4. ASSUME NEW i \in Runs, runs'[i].at # "unused", runs'[i].by = "push"
        PROVE  runs'[i].ref \in OwnTags
    <3>1. CASE runs[i].at # "unused"
      BY <2>1, <2>4, <3>1, StartedRunsKeep DEF Keeps, TagsStartTheirWorkflow
    <3>2. CASE runs[i].at = "unused"
      <4>1. ASSUME NEW j \in Runs
            PROVE  ~Work(j)
        BY <2>4, <3>2 DEF IInv, TypeOK, Run, Work, Prepare, Build, TolerateFailure,
           Package, Publish, Upload, Fail, Working
      <4>2. (\E t \in Refs : PushTag(t)) \/ (\E t \in Refs : Dispatch(t))
        BY <2>4, <3>2, <4>1 DEF Next, Develop, BumpWorkflow, BumpScript, Promote,
           Edit, DeleteTag, vars
      <4>3. ASSUME NEW t \in Refs, PushTag(t)
            PROVE  runs'[i].ref \in OwnTags
        <5>1. t \in OwnTags /\ \E j \in Runs : Begin(j, "push", t)
          BY <2>1, <2>4, <3>2, <4>3 DEF PushTag, Triggers
        <5> QED
          BY <2>2, <2>4, <3>2, <5>1
      <4>4. ASSUME NEW t \in Refs, Dispatch(t)
            PROVE  FALSE
        BY <2>2, <2>4, <3>2, <4>4 DEF Dispatch
      <4> QED
        BY <4>2, <4>3, <4>4
    <3> QED
      BY <3>1, <3>2
  <2> QED
    BY <2>3, <2>4 DEF TagsStartTheirWorkflow
<1> QED
  BY <1>1, <1>2, Invariant, PTL DEF Spec

\* And so it keeps the releases in line with the tags: a tag of its own stands
\* where a run for it was started, or where an upload has put it, and the release
\* of another workflow's tag shows its assets only by hand.
THEOREM RightGlobsReleaseTheirs == Spec => []RightGlobsRelease
<1>1. Init => RightGlobsRelease
  BY DEF Init, RightGlobsRelease, Refs, Tags
<1>2. IInv /\ RightGlobsStart /\ RightGlobsRelease /\ [Next]_vars => RightGlobsRelease'
  <2> SUFFICES ASSUME IInv, RightGlobsStart, RightGlobsRelease, [Next]_vars,
                      flow'.own, ~flow'.sub
               PROVE  RightGlobsRelease'
    BY DEF RightGlobsRelease
  <2>1. flow.own /\ ~flow.sub /\ TagsStartTheirWorkflow
    BY DEF RightGlobsStart, Next, Develop, BumpWorkflow, BumpScript, Promote, Edit,
       PushTag, DeleteTag, Dispatch, Work, Prepare, Build, TolerateFailure, Package,
       Publish, Upload, Fail, vars
  <2>2. ASSUME NEW t \in OwnTags, tags'[t] # None
        PROVE  \E j \in Runs : /\ runs'[j].at # "unused" /\ runs'[j].ref = t
                              /\ \/ runs'[j].src = tags'[t]
                                 \/ runs'[j].at \in {"upload", "done", "broken"}
    <3>1. t \in Tags /\ t \in Refs
      BY DEF Tags, Refs
    <3>2. ASSUME NEW u \in Refs
          PROVE  ~(DeleteTag(u) /\ tags'[t] # tags[t])
      BY <2>2, <3>1 DEF DeleteTag, IInv, TypeOK
    <3>3. ASSUME NEW j \in Runs, Publish(j), tags'[t] # tags[t]
          PROVE  runs'[j].at = "upload" /\ runs'[j].ref = t
      BY <3>1, <3>3 DEF Publish, IInv, TypeOK, Run
    <3>4. ASSUME NEW u \in Refs, PushTag(u), tags'[t] # tags[t]
          PROVE  \E j \in Runs : runs'[j].at = "prepare" /\ runs'[j].ref = t
                                 /\ runs'[j].src = tags'[t]
      <4>1. u = t /\ tags'[t] = master
        BY <3>1, <3>4 DEF PushTag, IInv, TypeOK
      <4>2. PICK j \in Runs : Begin(j, "push", t)
        BY <2>1, <3>4, <4>1 DEF PushTag, Triggers
      <4> QED
        BY <4>1, <4>2 DEF Begin, IInv, TypeOK
    <3>5. CASE tags'[t] = tags[t]
      BY <2>1, <2>2, <3>5, StartedRunsKeep DEF RightGlobsRelease, Keeps
    <3>6. CASE tags'[t] # tags[t]
      <4>1. (\E u \in Refs : PushTag(u)) \/ (\E j \in Runs : Publish(j))
        BY <3>2, <3>6 DEF Next, Develop, BumpWorkflow, BumpScript, Promote, Edit,
           Dispatch, Work, Prepare, Build, TolerateFailure, Package, Upload, Fail, vars
      <4> QED
        BY <3>3, <3>4, <3>6, <4>1
    <3> QED
      BY <3>5, <3>6
  <2>3. ASSUME NEW t \in SubTags, NEW n \in Names, releases'[t][n] # None
        PROVE  \E j \in Runs : runs'[j].at = "done" /\ runs'[j].ref = t
                               /\ runs'[j].by = "dispatch"
    <3>1. t \in Refs /\ t \notin OwnTags
      BY ReleaseAssumption DEF Tags, Refs
    <3>2. CASE releases[t][n] # None
      BY <2>1, <3>2, StartedRunsKeep DEF RightGlobsRelease, Keeps
    <3>3. ASSUME NEW j \in Runs, Upload(j), releases[t][n] = None
          PROVE  runs[j].at = "upload" /\ runs[j].ref = t /\ runs'[j].at = "done"
      <4> DEFINE m == NameOf(runs[j].src)
                 a == [src |-> runs[j].src, disk |-> runs[j].disk]
      <4> HIDE DEF m, a
      <4>1. releases' # releases
        BY <2>3, <3>3
      <4>2. /\ releases' = [releases EXCEPT ![runs[j].ref][m] = a]
            /\ runs' = [runs EXCEPT ![j].at = "done"] /\ runs[j].at = "upload"
        BY <3>3, <4>1 DEF Upload, m, a
      <4>3. runs[j].ref = t
        BY <2>3, <3>1, <3>3, <4>2 DEF IInv, TypeOK
      <4> QED
        BY <4>2, <4>3 DEF IInv, TypeOK, Run
    <3>4. ASSUME NEW j \in Runs, Publish(j), releases[t][n] = None
          PROVE  FALSE
      <4> DEFINE m == NameOf(runs[j].src)
      <4>1. releases' = [releases EXCEPT ![runs[j].ref][m] = None]
        BY <3>4 DEF Publish
      <4> HIDE DEF m
      <4> QED
        BY <2>3, <3>1, <3>4, <4>1 DEF IInv, TypeOK
    <3>5. CASE releases[t][n] = None
      <4>1. releases' # releases
        BY <2>3, <3>5
      <4>2. PICK j \in Runs : Upload(j)
        BY <3>4, <3>5, <4>1 DEF Next, Develop, BumpWorkflow, BumpScript, Promote, Edit,
           PushTag, DeleteTag, Dispatch, Work, Prepare, Build, TolerateFailure, Package,
           Fail, vars
      <4>3. runs[j].at # "unused" /\ runs[j].ref = t /\ runs'[j].at = "done"
        BY <3>3, <3>5, <4>2
      <4>4. runs[j].by = "dispatch"
        BY <2>1, <3>1, <4>3 DEF TagsStartTheirWorkflow, IInv, TypeOK, Run
      <4> QED
        BY <4>3, <4>4, StartedRunsKeep DEF Keeps
    <3> QED
      BY <3>2, <3>5
  <2> QED
    BY <2>2, <2>3 DEF RightGlobsRelease
<1> QED
  BY <1>1, <1>2, Invariant, RightGlobs, PTL DEF Spec

-----------------------------------------------------------------------------
(* When what the notes say is true.                                        *)

\* All workflows but two hand their version to the script or release under a
\* name without one.
LEMMA WhichPass ==
    \A w \in AllWorkflows \ {libnghttp2, libnghttp3} : w.passes \/ ~w.named
  <1> DEFINE Good(w) == w.passes \/ ~w.named
  <1>1. /\ Good(argon2) /\ Good(bzip2) /\ Good(gmp) /\ Good(libiconv)
        /\ Good(libjpeg_turbo) /\ Good(oniguruma) /\ Good(openssl_1_1)
        /\ Good(openssl_3_5) /\ Good(pcre2) /\ Good(zlib) /\ Good(icu) /\ Good(nghttp2)
    BY DEF Standalone, argon2, bzip2, gmp, libiconv, libjpeg_turbo, oniguruma,
       openssl_1_1, openssl_3_5, pcre2, zlib, icu, nghttp2
  <1>2. /\ Good(brotli) /\ Good(curl) /\ Good(freetype) /\ Good(krb5) /\ Good(libgd)
        /\ Good(libngtcp2) /\ Good(libpng) /\ Good(libpq) /\ Good(libssh2)
        /\ Good(libwebp) /\ Good(libxml2) /\ Good(libxml2_2_11) /\ Good(libzip)
        /\ Good(lz4) /\ Good(xz) /\ Good(zstd)
    BY DEF Standalone, Dependent, brotli, curl, freetype, krb5, libgd, libngtcp2,
       libpng, libpq, libssh2, libwebp, libxml2, libxml2_2_11, libzip, lz4, xz, zstd
  <1>3. /\ Good(php_5_6) /\ Good(php_7_0) /\ Good(php_7_1) /\ Good(php_7_2)
        /\ Good(php_7_3) /\ Good(php_7_4) /\ Good(php_8_0) /\ Good(php_7_3_log)
        /\ Good(php_7_4_log)
    BY DEF Standalone, Dependent, Program, OldPhp, Backport, php_5_6, php_7_0, php_7_1,
       php_7_2, php_7_3, php_7_4, php_8_0, php_7_3_log, php_7_4_log
  <1>4. /\ Good(php_8_1) /\ Good(php_8_2) /\ Good(php_8_3) /\ Good(php_8_4)
        /\ Good(php_8_5) /\ Good(mysql_5_7) /\ Good(nginx) /\ Good(redis_7_2)
    BY DEF Standalone, Dependent, Program, php_8_1, php_8_2, php_8_3, php_8_4, php_8_5,
       mysql_5_7, nginx, redis_7_2
  <1> HIDE DEF Good
  <1>5. \A w \in AllWorkflows \ {libnghttp2, libnghttp3} : Good(w)
    BY <1>1, <1>2, <1>3, <1>4 DEF AllWorkflows
  <1> QED
    BY <1>5 DEF Good

\* The version in the name of an asset is that of its files, whichever workflow
\* has released it, except for build-libnghttp2.yml and build-libnghttp3.yml.
THEOREM OtherNamesTellContents ==
    ASSUME Flows \subseteq AllWorkflows \ {libnghttp2, libnghttp3}
    PROVE  Spec => []NameTellsContents
<1>1. IInv /\ NameTellsBuild => NameTellsContents
  <2>1. CASE flow.passes
    BY <2>1 DEF NameTellsBuild, NameTellsContents
  <2>2. ASSUME ~flow.passes, IInv
        PROVE  NameTellsContents
    <3>1. ~flow.named
      BY <2>2, WhichPass DEF IInv, TypeOK
    <3>2. \A c : NameOf(c) \notin Versions
      BY <3>1, ReleaseAssumption DEF NameOf
    <3> QED
      BY <2>2, <3>2 DEF IInv, AssetsFollowCommits, NameTellsContents, Names
  <2> QED
    BY <2>1, <2>2
<1> QED
  BY <1>1, Invariant, NamesTellBuilds, PTL

\* Tags start the workflow they are named after wherever its glob is right.
THEOREM RightGlobsStartTheirs ==
    ASSUME \A w \in Flows : w.own /\ ~w.sub
    PROVE  Spec => []TagsStartTheirWorkflow
<1>1. TypeOK /\ RightGlobsStart => TagsStartTheirWorkflow
  BY DEF TypeOK, RightGlobsStart
<1> QED
  BY <1>1, TypeCorrect, RightGlobs, PTL

\* A retag releases anew what nothing else is being released to: it takes a
\* concurrency group, or a look at the runs, to make the note true.
THEOREM RetagAloneReleasesAnew ==
    Spec => []((\A j \in Runs : ~runs[j].raced) => RetagReleasesAnew)
<1>1. NewestRunWins => ((\A j \in Runs : ~runs[j].raced) => RetagReleasesAnew)
  BY DEF NewestRunWins, RetagReleasesAnew
<1> QED
  BY <1>1, LastRunCounts, PTL
=============================================================================
