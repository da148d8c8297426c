----------------------------- MODULE CreateLibs -----------------------------
(***************************************************************************)
(* create-libs.sh: gathers the .pc files of every Library/<lib> into the   *)
(* link farm Library/lib/pkgconfig, the one directory the PHP and MySQL    *)
(* builds hand to pkg-config.                                              *)
(*                                                                         *)
(* The script is a sequence of separate file operations under `set -e`, so *)
(* each is a step here, and between any two the script may be killed and   *)
(* the developer may go on replacing the libraries it is walking over.     *)
(* The order of the names inside one directory is left open: the code      *)
(* visits them sorted, and nothing stated here depends on it.              *)
(***************************************************************************)
EXTENDS Naturals, FiniteSets

CONSTANTS
    Libs,       \* names of the directories Library/<lib> other than `lib'
    LibDir,     \* the directory Library/lib itself, which the glob finds too
    Names,      \* base names of files in a pkgconfig directory, Star included
    Star,       \* the name an unmatched glob expands to, `*' itself
    Ships,      \* Ships[l]: the .pc files the release tarball of l holds; a
                \* library that ships none has no pkgconfig directory
    Rank,       \* the position of a directory name in the shell's glob order
    None,       \* no such file, no current directory, no current name
    Plain       \* an entry of the farm that is a plain file, not a link

Subdirs == Libs \cup {LibDir}

ASSUME NamesAssumption ==
    /\ LibDir \notin Libs
    /\ None \notin Subdirs /\ None \notin Names
    /\ Plain \notin Subdirs /\ Plain # None
    /\ Star \in Names
    /\ Ships \in [Libs -> SUBSET (Names \ {Star})]
    /\ IsFiniteSet(Libs) /\ IsFiniteSet(Names)

\* The shell sorts a glob: directory names are totally ordered.
ASSUME RankAssumption ==
    /\ Rank \in [Subdirs -> Nat]
    /\ \A d, e \in Subdirs : Rank[d] = Rank[e] => d = e

VARIABLES
    \* the file system
    dirs,        \* the directories Library/*/
    pcs,         \* pcs[l]: the regular files of Library/l/lib/pkgconfig
    farm,        \* farm[n]: the library the link lib/pkgconfig/n points into
    libWritable, \* whether the invoking user may write LIBRARY_DIR
    farmOwner,   \* None: no farm directory; else who may write it
    canSudo,     \* whether sudo works for the invoking user
    \* the script
    pc,          \* the next operation
    sudo,        \* $SUDO is not empty
    todo,        \* directories of the outer glob not visited yet
    cur,         \* $lib_name
    files,       \* files of the inner glob not visited yet
    name,        \* $pc_name
    \* history of the current or last run
    farm0,       \* the farm when the run began
    churn        \* Library/* has changed since the run began

fs     == <<dirs, pcs>>
rights == <<libWritable, farmOwner, canSudo>>
script == <<pc, sudo, todo, cur, files, name>>
hist   == <<farm0, churn>>
vars   == <<fs, farm, rights, script, hist>>

Entry   == Libs \cup {None, Plain}
Busy    == {"mkdir", "glob", "dir", "file", "rm", "ln"}
Stopped == {"idle", "done", "aborted"}

Provides(l, n) == n \in pcs[l]

\* [ -d ] of $pkgconfig_dir.
HasPkgconfig(l) == l \in dirs /\ Ships[l] # {}

\* The last provider of n in glob order, whose link the loop leaves in place.
IsWinner(l, n) ==
    Provides(l, n) /\ \A k \in Libs : Provides(k, n) => Rank[k] <= Rank[l]

\* A link resolves when the file it points at is there.
Resolves(n) == farm[n] \in Libs /\ Provides(farm[n], n)

\* rm and ln succeed as root, or as the owner of the farm directory.
CanWrite == IF sudo THEN canSudo ELSE farmOwner = "user"

Init ==
    /\ dirs \in SUBSET Libs
    /\ pcs = [l \in Libs |-> IF l \in dirs THEN Ships[l] ELSE {}]
    /\ farmOwner \in {None, "user", "root"}
    /\ farm \in [Names -> Entry]
    /\ farm[Star] = None
    /\ farmOwner = None => farm = [n \in Names |-> None]
    /\ libWritable \in BOOLEAN
    /\ canSudo \in BOOLEAN
    /\ pc = "idle" /\ sudo = FALSE
    /\ todo = {} /\ cur = None /\ files = {} /\ name = None
    /\ farm0 = farm /\ churn = FALSE

-----------------------------------------------------------------------------
(* The script.                                                             *)

\* Every exit leaves no local state behind.
Exit(how) ==
    /\ pc' = how
    /\ todo' = {} /\ cur' = None /\ files' = {} /\ name' = None
    /\ UNCHANGED sudo

Start ==
    /\ pc \in Stopped
    /\ pc' = "mkdir"
    /\ sudo' = ~libWritable
    /\ farm0' = farm /\ churn' = FALSE
    /\ UNCHANGED <<fs, farm, rights, todo, cur, files, name>>

\* mkdir -p; under sudo even the directory that exists needs sudo to work.
MakeTarget ==
    /\ pc = "mkdir"
    /\ \/ /\ sudo => canSudo
          /\ farmOwner' = IF farmOwner # None THEN farmOwner
                          ELSE IF sudo THEN "root" ELSE "user"
          /\ pc' = "glob"
          /\ UNCHANGED <<sudo, todo, cur, files, name>>
       \/ /\ sudo /\ ~canSudo
          /\ Exit("aborted")
          /\ UNCHANGED farmOwner
    /\ UNCHANGED <<fs, farm, libWritable, canSudo, hist>>

GlobDirs ==
    /\ pc = "glob"
    /\ todo' = dirs \cup {LibDir}
    /\ pc' = "dir"
    /\ UNCHANGED <<fs, farm, rights, sudo, cur, files, name, hist>>

\* d comes next in glob order.
M_IsNext(d) == d \in todo
IsNext(d) == d \in todo /\ \A e \in todo : Rank[d] <= Rank[e]

\* What passes the tests at the head of the outer loop.
Visits(d) == d # LibDir /\ HasPkgconfig(d)

SkipDir ==
    /\ pc = "dir"
    /\ \E d \in todo : IsNext(d) /\ ~Visits(d) /\ todo' = todo \ {d}
    /\ UNCHANGED <<fs, farm, rights, pc, sudo, cur, files, name, hist>>

\* A glob that matches nothing stays as it is written.
EnterDir ==
    /\ pc = "dir"
    /\ \E d \in todo :
          /\ IsNext(d) /\ Visits(d)
          /\ todo' = todo \ {d}
          /\ cur' = d
          /\ files' = IF pcs[d] = {} THEN {Star} ELSE pcs[d]
    /\ pc' = "file"
    /\ UNCHANGED <<fs, farm, rights, sudo, name, hist>>

Finish ==
    /\ pc = "dir" /\ todo = {}
    /\ Exit("done")
    /\ UNCHANGED <<fs, farm, rights, hist>>

LeaveDir ==
    /\ pc = "file" /\ files = {}
    /\ pc' = "dir" /\ cur' = None
    /\ UNCHANGED <<fs, farm, rights, sudo, todo, files, name, hist>>

\* [ -f ]: false for the pattern itself, and for a file gone since the glob.
M_IsFile(n) == TRUE
IsFile(n) == Provides(cur, n)

M_SkipFile ==
    /\ pc = "file"
    /\ \E n \in files : ~IsFile(n)
    /\ UNCHANGED vars
SkipFile ==
    /\ pc = "file"
    /\ \E n \in files : ~IsFile(n) /\ files' = files \ {n}
    /\ UNCHANGED <<fs, farm, rights, pc, sudo, todo, cur, name, hist>>

\* [ -e ] || [ -L ]: -e follows the link, so -L is what finds a dangling one.
M_Exists(n) == farm[n] = Plain \/ Resolves(n)
Exists(n) == farm[n] # None

M_TakeFile ==
    /\ pc = "file"
    /\ \E n \in files : IsFile(n) /\ files' = files \ {n}
                        /\ pc' = IF Exists(n) THEN "rm" ELSE "ln"
    /\ UNCHANGED <<fs, farm, rights, sudo, todo, cur, name, hist>>
M_TakeAgain ==
    /\ pc = "file"
    /\ \E n \in files : IsFile(n) /\ name' = n /\ pc' = IF Exists(n) THEN "rm" ELSE "ln"
    /\ UNCHANGED <<fs, farm, rights, sudo, todo, cur, files, hist>>
TakeFile ==
    /\ pc = "file"
    /\ \E n \in files :
          /\ IsFile(n)
          /\ files' = files \ {n}
          /\ name' = n
          /\ pc' = IF Exists(n) THEN "rm" ELSE "ln"
    /\ UNCHANGED <<fs, farm, rights, sudo, todo, cur, hist>>

M_RemoveOld ==
    /\ pc = "rm" /\ CanWrite
    /\ farm' = [farm EXCEPT ![name] = None]
    /\ pc' = "file" /\ name' = None
    /\ UNCHANGED <<fs, rights, sudo, todo, cur, files, hist>>
RemoveOld ==
    /\ pc = "rm"
    /\ \/ /\ CanWrite
          /\ farm' = [farm EXCEPT ![name] = None]
          /\ pc' = "ln"
          /\ UNCHANGED <<sudo, todo, cur, files, name>>
       \/ /\ ~CanWrite
          /\ Exit("aborted")
          /\ UNCHANGED farm
    /\ UNCHANGED <<fs, rights, hist>>

\* ln -s refuses to replace a file.
MakeLink ==
    /\ pc = "ln"
    /\ \/ /\ CanWrite /\ farm[name] = None
          /\ farm' = [farm EXCEPT ![name] = cur]
          /\ pc' = "file" /\ name' = None
          /\ UNCHANGED <<sudo, todo, cur, files>>
       \/ /\ ~(CanWrite /\ farm[name] = None)
          /\ Exit("aborted")
          /\ UNCHANGED farm
    /\ UNCHANGED <<fs, rights, hist>>

Script == \/ MakeTarget \/ GlobDirs \/ SkipDir \/ EnterDir \/ Finish
          \/ LeaveDir \/ SkipFile \/ TakeFile \/ RemoveOld \/ MakeLink

-----------------------------------------------------------------------------
(* What happens around it.                                                 *)

\* Ctrl-C, a closed terminal, a lost machine.
Interrupt ==
    /\ pc \in Busy
    /\ Exit("idle")
    /\ UNCHANGED <<fs, farm, rights, hist>>

\* A library is replaced by deleting its directory ...
DeleteLib(l) ==
    /\ l \in dirs
    /\ dirs' = dirs \ {l}
    /\ pcs' = [pcs EXCEPT ![l] = {}]
    /\ churn' = TRUE
    /\ UNCHANGED <<farm, rights, script, farm0>>

\* ... and unpacking the new release, whose files appear one by one.
UnpackLib(l) ==
    /\ l \notin dirs
    /\ dirs' = dirs \cup {l}
    /\ churn' = TRUE
    /\ UNCHANGED <<pcs, farm, rights, script, farm0>>

UnpackFile(l, n) ==
    /\ l \in dirs /\ n \in Ships[l] \ pcs[l]
    /\ pcs' = [pcs EXCEPT ![l] = @ \cup {n}]
    /\ churn' = TRUE
    /\ UNCHANGED <<dirs, farm, rights, script, farm0>>

Promotion == \E l \in Libs : \/ DeleteLib(l)
                             \/ UnpackLib(l)
                             \/ \E n \in Names : UnpackFile(l, n)

Next == Start \/ Script \/ Interrupt \/ Promotion

Spec == Init /\ [][Next]_vars

\* A running script is scheduled; nobody has to start it or to promote.
FairSpec == Spec /\ WF_vars(Script)

-----------------------------------------------------------------------------
(* Properties.                                                             *)

\* The state of the script and of the directories it reads and writes.
TypeOK ==
    /\ dirs \in SUBSET Libs
    /\ pcs \in [Libs -> SUBSET Names]
    /\ farm \in [Names -> Entry] /\ farm0 \in [Names -> Entry]
    /\ libWritable \in BOOLEAN /\ canSudo \in BOOLEAN
    /\ farmOwner \in {None, "user", "root"}
    /\ pc \in Busy \cup Stopped
    /\ sudo \in BOOLEAN /\ churn \in BOOLEAN
    /\ todo \in SUBSET Subdirs /\ files \in SUBSET Names
    /\ cur \in Libs \cup {None} /\ name \in Names \cup {None}
    /\ pc \in {"file", "rm", "ln"} => cur \in Libs
    /\ pc \in {"rm", "ln"} => name \in Names

\* A run that ends normally, and under which the libraries stood still, leaves
\* every name that some library provides linked to its last provider in glob
\* order and every other name as it was (create-libs.sh:40-73), whatever was in
\* the farm before and however many earlier runs were cut off.
Complete ==
    pc = "done" /\ ~churn =>
        \A n \in Names :
            IF \E l \in Libs : Provides(l, n)
            THEN farm[n] \in Libs /\ IsWinner(farm[n], n)
            ELSE farm[n] = farm0[n]

\* Between rm and ln (create-libs.sh:66-69) a name is missing. However a run
\* is cut off, it costs the farm at most one of the names it had.
AtMostOneLost ==
    \A m, n \in Names :
        /\ farm0[m] # None /\ farm[m] = None
        /\ farm0[n] # None /\ farm[n] = None
        => m = n

\* The probe of line 22 looks at LIBRARY_DIR, not at the farm directory, so a
\* run may find itself without the right to write. Then it changed nothing:
\* set -e stops it at its first rm or ln, and no other error can stop it.
AbortIsHarmless == pc = "aborted" => farm = farm0 /\ ~CanWrite

\* A link this run made (one the run did not find) resolves as long as the
\* libraries stand still, even if the run is cut off: what [ -f ] saw at line 58
\* still holds when ln runs at line 69.
NewLinksResolve ==
    ~churn => \A n \in Names : farm[n] \notin {farm0[n], None} => Resolves(n)

\* What a run costs the farm can be had back: while the libraries stand still, a
\* name that is missing now and was there when the run began is one that some
\* library provides, so that the next complete run (Complete) links it again.
\* [ -f ] at line 58, before the rm of line 66, is what keeps every other link.
LossHeals ==
    ~churn => \A n \in Names :
        farm0[n] # None /\ farm[n] = None => \E l \in Libs : Provides(l, n)

\* Which links the rm of line 66 takes away: one that this run has made itself
\* only where two libraries ship its name, even if libraries are deleted and
\* unpacked again while the loops are on their way.
OnlySharedNamesClash ==
    pc = "rm" /\ farm[name] # farm0[name] =>
        name \in Ships[cur] /\ \E l \in Libs \ {cur} : name \in Ships[l]

\* An upper bound on the operations that a run has left: up to three per file,
\* a file being listed, linked or passed over once per directory.
Left ==
    LET perDir == 3 * Cardinality(Names) + 3
        inLoop == [dir |-> 1, file |-> 2, ln |-> 3, rm |-> 4]
    IN CASE pc = "mkdir" -> perDir * Cardinality(Subdirs) + 3
         [] pc = "glob"  -> perDir * Cardinality(Subdirs) + 2
         [] pc \in DOMAIN inLoop ->
               perDir * Cardinality(todo) + 3 * Cardinality(files) + inLoop[pc]
         [] OTHER -> 0

\* Every operation brings a run nearer to its end (create-libs.sh:40-73), and no
\* change of the libraries under it gives it more to do. This is the half of
\* Terminates that needs no fairness, with a bound.
RunsShorten ==
    [][(pc \in Busy) => Left' < Left \/ (churn' /\ UNCHANGED <<farm, script>>)]_vars

\* Both loops walk over lists fixed when they begin, so the script ends
\* whatever happens to the libraries meanwhile.
Terminates == pc \in Busy ~> pc \in Stopped

\* Seen from outside, the script is a relinking of the farm.
LF == INSTANCE LinkFarm WITH
        phase <- IF pc \in Busy THEN "relinking"
                 ELSE IF pc = "done" THEN "done" ELSE "rest",
        stale <- churn

\* Every step of the script is a step of the relinking or none (refinement): a
\* user never sees two known names missing at once, a link put up where another
\* stands, or a success that left a name behind (create-libs.sh:57-72).
ImplementsLinkFarm == LF!Spec

\* MEMORY.md:19 says that no two libraries have a .pc file of the same name, so
\* that linking meets no conflict: a link found at line 65 was there before
\* the run, never made by it.
NoNameConflict == pc = "rm" => farm[name] = farm0[name]
=============================================================================
