------------------------------ MODULE Release ------------------------------
(***************************************************************************)
(* One workflow of .github/workflows/ and what surrounds it: the master    *)
(* branch with the committed Library, the tags, the runs of the workflow   *)
(* (each on a machine of its own, several at a time, since no workflow     *)
(* sets a concurrency group), the releases, and the developer who commits  *)
(* a released build to Library (.workbuddy/memory/2026-06-20.md:3-11).     *)
(*                                                                         *)
(* An installed file is the version its contents come from.  A commit is   *)
(* what the workflow reads of it: the version in the .yml, the default in  *)
(* the build script, and the library's own directory in Library.           *)
(***************************************************************************)
EXTENDS Workflows, Naturals

CONSTANTS
    Flows,     \* the profiles considered
    Versions,
    Files,     \* files a build may install
    Ships,     \* Ships[v]: those a build of version v does install
    OwnTags,   \* tags <name>-<version> of this workflow
    SubTags,   \* tags of another workflow that begin like them
    Branch,    \* the name of the branch, as a tag
    None,      \* no version, no tag, no asset
    MaxRuns,   \* bound: runs of the workflow
    MaxEdits   \* bound: commits

Tags  == OwnTags \cup SubTags
Refs  == Tags \cup {Branch}
Names == Versions \cup {"plain"}   \* asset names: with a version or without
Runs  == 1..MaxRuns

Content == [Files -> Versions \cup {None}]
Commit  == [want : Versions, own : Versions, lib : Content]
Asset   == [src : Commit, disk : Content]

ASSUME ReleaseAssumption ==
    /\ Flows \subseteq Workflow
    /\ \A w \in Flows : (w.logs => ~w.named) /\ (w.named \/ ~w.kept)
    /\ Ships \in [Versions -> SUBSET Files]
    /\ OwnTags \cap SubTags = {} /\ Branch \notin Tags
    /\ None \notin Versions /\ None \notin Asset /\ "plain" \notin Versions
    /\ MaxRuns \in Nat /\ MaxEdits \in Nat

VARIABLES
    flow,      \* the workflow's profile
    master,    \* the newest commit
    edits,     \* number of commits made
    tags,      \* tags[t]: the commit t points to
    runs,      \* runs[j]: the workflow's j-th run
    releases   \* releases[t][n]: the asset named n in the release of t

vars == <<flow, master, edits, tags, runs, releases>>

Working == {"prepare", "build", "package", "publish", "upload"}
Ended   == {"done", "failed", "broken"}
Run     == [at   : {"unused"} \cup Working \cup Ended,
            by   : {"push", "dispatch"},
            ref  : Refs,      \* the tag it releases to
            src  : Commit,    \* the commit it runs on
            disk : Content,   \* $PREFIX on its machine
            ok   : BOOLEAN,   \* the build succeeded
            raced : BOOLEAN ] \* another run for ref was under way at the start

Nothing == [f \in Files |-> None]

\* An installation goes over what is there.
Lay(v, disk) == [f \in Files |-> IF f \in Ships[v] THEN v ELSE disk[f]]
Pure(v)      == Lay(v, Nothing)

\* The version the script builds: the environment's or its own default.
M_Built(c) == c.own
Built(c) == IF flow.passes THEN c.want ELSE c.own

NameOf(c) == IF flow.named THEN c.want ELSE "plain"

Before(c) == IF flow.prepares THEN c.lib ELSE Nothing

\* What a run on commit c uploads.
Packed(c) == [src |-> c, disk |-> IF flow.logs THEN Nothing ELSE Lay(Built(c), Before(c))]

Init ==
    /\ flow \in Flows
    /\ master \in [want : Versions, own : Versions,
                   lib : {Nothing} \cup
                         (IF flow.kept THEN {Pure(v) : v \in Versions} ELSE {})]
    /\ edits = 0
    /\ tags = [t \in Refs |-> None]
    /\ runs = [j \in Runs |->
                 [at |-> "unused", by |-> "push", ref |-> Branch, src |-> master,
                  disk |-> Nothing, ok |-> FALSE, raced |-> FALSE]]
    /\ releases = [t \in Refs |-> [n \in Names |-> None]]

-----------------------------------------------------------------------------
(* The developer.                                                          *)

Edit(commit) ==
    /\ edits < MaxEdits /\ edits' = edits + 1
    /\ master' = commit
    /\ UNCHANGED <<flow, tags, runs, releases>>

BumpWorkflow(v) == Edit([master EXCEPT !.want = v])
BumpScript(v)   == Edit([master EXCEPT !.own = v])

\* Delete the old directory in Library, unpack a released asset, commit.
M_Promote(t, n) ==
    /\ flow.kept /\ releases[t][n] # None
    /\ Edit([master EXCEPT !.lib =
               [f \in Files |-> IF releases[t][n].disk[f] # None
                                THEN releases[t][n].disk[f] ELSE @[f]]])
Promote(t, n) ==
    /\ flow.kept /\ releases[t][n] # None
    /\ Edit([master EXCEPT !.lib = releases[t][n].disk])

Busy(t) == \E j \in Runs : runs[j].ref = t /\ runs[j].at \in Working

\* Runs get their numbers in the order they start.
NextRun(j) == /\ runs[j].at = "unused"
              /\ \A i \in Runs : i < j => runs[i].at # "unused"

Begin(j, how, t) ==
    runs' = [runs EXCEPT ![j] =
        [at |-> "prepare", by |-> how, ref |-> t, src |-> master,
         disk |-> Nothing, ok |-> FALSE, raced |-> Busy(t)]]

M_Triggers(t) == (t \in OwnTags /\ flow.own) \/ t \in SubTags
Triggers(t) == (t \in OwnTags /\ flow.own) \/ (t \in SubTags /\ flow.sub)

\* git tag, git push: the branch is pushed with it or before it.
PushTag(t) ==
    /\ t \in Tags /\ tags[t] = None
    /\ tags' = [tags EXCEPT ![t] = master]
    /\ \/ Triggers(t) /\ \E j \in Runs : NextRun(j) /\ Begin(j, "push", t)
       \/ ~Triggers(t) /\ UNCHANGED runs
    /\ UNCHANGED <<flow, master, edits, releases>>

\* git tag -d, git push :refs/tags/..., the first half of a retag. The runs
\* that the tag started go on.
M_DeleteTag(t) ==
    /\ t \in Tags /\ tags[t] # None
    /\ tags' = [tags EXCEPT ![t] = None]
    /\ releases' = [releases EXCEPT ![t] = None]
    /\ UNCHANGED <<flow, master, edits, runs>>
DeleteTag(t) ==
    /\ t \in Tags /\ tags[t] # None
    /\ tags' = [tags EXCEPT ![t] = None]
    /\ UNCHANGED <<flow, master, edits, runs, releases>>

\* Started by hand: without an input the run's ref is the branch.
Dispatch(t) ==
    /\ IF flow.input THEN t \in Tags ELSE t = Branch
    /\ \E j \in Runs : NextRun(j) /\ Begin(j, "dispatch", t)
    /\ UNCHANGED <<flow, master, edits, tags, releases>>

-----------------------------------------------------------------------------
(* The steps of a run.                                                     *)

\* cp -R Library/* onto the fresh machine: the library's own old directory is
\* among it.
Prepare(j) ==
    /\ runs[j].at = "prepare"
    /\ runs' = [runs EXCEPT ![j].at = "build", ![j].disk = Before(runs[j].src)]
    /\ UNCHANGED <<flow, master, edits, tags, releases>>

M_Build(j) ==
    /\ runs[j].at = "build" /\ flow.script
    /\ runs' = [runs EXCEPT ![j].at = "package", ![j].ok = TRUE,
                            ![j].disk = Lay(Built(master), @)]
    /\ UNCHANGED <<flow, master, edits, tags, releases>>
Build(j) ==
    /\ runs[j].at = "build" /\ flow.script
    /\ runs' = [runs EXCEPT ![j].at = "package", ![j].ok = TRUE,
                            ![j].disk = Lay(Built(runs[j].src), @)]
    /\ UNCHANGED <<flow, master, edits, tags, releases>>

\* continue-on-error lets the run go on after a failed build.
M_TolerateFailure(j) ==
    /\ runs[j].at = "build"
    /\ runs' = [runs EXCEPT ![j].at = "package"]
    /\ UNCHANGED <<flow, master, edits, tags, releases>>
TolerateFailure(j) ==
    /\ runs[j].at = "build" /\ flow.logs
    /\ runs' = [runs EXCEPT ![j].at = "package"]
    /\ UNCHANGED <<flow, master, edits, tags, releases>>

\* tar of $PREFIX, or the copy of the logs.
Package(j) ==
    /\ runs[j].at = "package"
    /\ runs' = [runs EXCEPT ![j].at = "publish",
                            ![j].disk = IF flow.logs THEN Nothing ELSE @]
    /\ UNCHANGED <<flow, master, edits, tags, releases>>

\* The upload step finds the release of the tag, creates it (and the tag, at
\* the head of the branch) if there is none, and deletes the asset of the
\* same name ...
Publish(j) ==
    LET t == runs[j].ref IN
    /\ runs[j].at = "publish"
    /\ runs' = [runs EXCEPT ![j].at = "upload"]
    /\ tags' = [tags EXCEPT ![t] = IF @ = None THEN master ELSE @]
    /\ releases' = [releases EXCEPT ![t][NameOf(runs[j].src)] = None]
    /\ UNCHANGED <<flow, master, edits>>

\* ... before it uploads the new one. A name that another run has taken in the
\* meantime is refused.
M_Upload(j) ==
    /\ runs[j].at = "upload"
    /\ runs' = [runs EXCEPT ![j].at = "done"]
    /\ UNCHANGED <<flow, master, edits, tags, releases>>
Upload(j) ==
    LET t == runs[j].ref
        n == NameOf(runs[j].src)
    IN /\ runs[j].at = "upload"
       /\ \/ /\ releases[t][n] = None
             /\ releases' = [releases EXCEPT ![t][n] =
                               [src |-> runs[j].src, disk |-> runs[j].disk]]
             /\ runs' = [runs EXCEPT ![j].at = "done"]
          \/ /\ releases[t][n] # None
             /\ runs' = [runs EXCEPT ![j].at = "broken"] /\ UNCHANGED releases
       /\ UNCHANGED <<flow, master, edits, tags>>

\* A step fails, the machine is lost or the run is cancelled.
M_Fail(j) ==
    /\ runs[j].at \in Working
    /\ runs' = [runs EXCEPT ![j].at = "done"]
    /\ UNCHANGED <<flow, master, edits, tags, releases>>
Fail(j) ==
    /\ runs[j].at \in Working
    /\ runs' = [runs EXCEPT ![j].at = IF @ = "upload" THEN "broken" ELSE "failed"]
    /\ UNCHANGED <<flow, master, edits, tags, releases>>

Develop == \/ \E v \in Versions : BumpWorkflow(v) \/ BumpScript(v)
           \/ \E t \in Refs, n \in Names : Promote(t, n)
           \/ \E t \in Refs : PushTag(t) \/ DeleteTag(t) \/ Dispatch(t)

Work(j) == \/ Prepare(j) \/ Build(j) \/ TolerateFailure(j) \/ Package(j)
           \/ Publish(j) \/ Upload(j) \/ Fail(j)

Next == Develop \/ \E j \in Runs : Work(j)

Spec == Init /\ [][Next]_vars

-----------------------------------------------------------------------------
(* Properties.                                                             *)

\* The repository, the runs and the releases.
TypeOK ==
    /\ flow \in Flows /\ master \in Commit /\ edits \in 0..MaxEdits
    /\ tags \in [Refs -> Commit \cup {None}]
    /\ runs \in [Runs -> Run]
    /\ releases \in [Refs -> [Names -> Asset \cup {None}]]

\* Runs overlap, tags move and commits arrive in between: still every asset is
\* the one that its commit determines, under the name its commit gives it.
AssetsFollowCommits ==
    \A t \in Refs, n \in Names : releases[t][n] # None =>
        LET a == releases[t][n] IN a = Packed(a.src) /\ n = NameOf(a.src)

\* An asset whose name contains a version holds every file of that version,
\* wherever the version reaches the script.
NameTellsBuild ==
    flow.passes => \A t \in Refs, n \in Versions : releases[t][n] # None =>
        \A f \in Ships[n] : releases[t][n].disk[f] = n

\* As long as a workflow starts from an empty $PREFIX, no sequence of releases
\* and promotions mixes the files of two versions in Library.
PureLibrary == master.lib \in {Nothing} \cup {Pure(v) : v \in Versions}
PureWithoutPrepare == ~flow.prepares => PureLibrary

\* Only the log workflows release anything after a failed build, and a workflow
\* without a script (build-nghttp2.yml:28-29) never releases.
FailedBuildsStayUnpublished ==
    \A j \in Runs : runs[j].at \in {"publish", "upload", "done", "broken"} =>
        (runs[j].ok /\ flow.script) \/ flow.logs

SameAsset(i, j) == /\ runs[i].ref = runs[j].ref
                   /\ NameOf(runs[i].src) = NameOf(runs[j].src)

\* What a successful run has uploaded stays, perhaps replaced; it is missing
\* only while, or after, another upload of the same name broke off.
UploadsStay ==
    \A j \in Runs : runs[j].at = "done" =>
        \/ releases[runs[j].ref][NameOf(runs[j].src)] # None
        \/ \E i \in Runs \ {j} : SameAsset(i, j) /\ runs[i].at \in {"upload", "broken"}

\* Run j is the newest one for its tag.
Newest(j) == \A i \in Runs : j < i => runs[i].at = "unused" \/ runs[i].ref # runs[j].ref

Shown(j) == releases[runs[j].ref][NameOf(runs[j].src)]

\* A run that began when no other run for its tag was under way, and that no
\* later one follows, determines what the release shows.
NewestRunWins ==
    \A j \in Runs :
        runs[j].at = "done" /\ Newest(j) /\ ~runs[j].raced => Shown(j) = Packed(runs[j].src)

\* MEMORY.md:27 gives "delete the tag, push it again" as the way to release a
\* tag anew: then the newest run for a tag determines what its release shows.
RetagReleasesAnew ==
    \A j \in Runs :
        /\ runs[j].at = "done" /\ Newest(j)
        /\ \A i \in Runs : runs[i].at # "unused" => runs[i].by = "push"
        => Shown(j) = Packed(runs[j].src)

\* The asset's name says which version it holds (build-libnghttp2.yml:19, :60).
NameTellsContents ==
    \A t \in Refs, n \in Versions : releases[t][n] # None =>
        \A f \in Ships[n] : releases[t][n].disk[f] = n

\* MEMORY.md:26 and :28: pushing a tag <name>-<version> starts build-<name>.yml,
\* and nothing else does.
TagsStartTheirWorkflow ==
    /\ \A t \in OwnTags : tags[t] # None =>
           \E j \in Runs : runs[j].at # "unused" /\ runs[j].ref = t
    /\ \A j \in Runs : runs[j].at # "unused" /\ runs[j].by = "push" => runs[j].ref \in OwnTags

\* So it is for every workflow whose glob is right, whatever becomes of the tag
\* and of its runs.
RightGlobsStart == flow.own /\ ~flow.sub => TagsStartTheirWorkflow

\* What that convention is for. Where the glob is right (e.g. build-brotli.yml:6)
\* a tag of the workflow's own never stands at a commit that no run for it was
\* started on, unless an upload has set it (build-brotli.yml:66-72); and the
\* release of another workflow's tag shows an asset of this one only if somebody
\* asked for it by hand.
RightGlobsRelease ==
    flow.own /\ ~flow.sub =>
        /\ \A t \in OwnTags : tags[t] # None =>
              \E j \in Runs : /\ runs[j].at # "unused" /\ runs[j].ref = t
                             /\ \/ runs[j].src = tags[t]
                                \/ runs[j].at \in {"upload", "done", "broken"}
        /\ \A t \in SubTags, n \in Names : releases[t][n] # None =>
              \E j \in Runs : /\ runs[j].at = "done" /\ runs[j].ref = t
                             /\ runs[j].by = "dispatch"
=============================================================================
