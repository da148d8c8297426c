---------------------------- MODULE BuildScript ----------------------------
(***************************************************************************)
(* One build script of mac_arm64/, run again and again in one working      *)
(* directory: download, unpack, configure, make, install, clean up, all    *)
(* under `set -euo pipefail`.  What the script keeps between runs is the   *)
(* tarball and the source tree in build/, and whatever it installed.       *)
(*                                                                         *)
(* Which of the steps a script has, and how it does them, is its profile   *)
(* (module Scripts).  A version is the value of $..._VERSION, a place is   *)
(* the value of $PREFIX, and an installed file is the set of versions its  *)
(* contents come from.                                                     *)
(***************************************************************************)
EXTENDS Scripts, Naturals, FiniteSets

CONSTANTS
    ScriptSet,  \* the profiles considered
    Versions,   \* values of $..._VERSION
    Pinned,     \* the one a pinned tarball holds
    Places,     \* values of $PREFIX
    Home,       \* the default one, which the php.ini paths are written for
    Files,      \* files an installation may hold
    Kind,       \* Kind[f]: what part of the installation f belongs to
    Ships       \* Ships[v]: the files `make install' of version v installs

\* What the scripts have in common: sudo for the installation means sudo for
\* what is done after it, and none creates $PREFIX ahead of that.
ASSUME ScriptAssumption ==
    \A s \in ScriptSet :
        /\ s \in Profile
        /\ s.sudo => s.sudoStrip /\ ~s.mkprefix
        /\ s.ini => s.sudo
        /\ s.rootTree => s.wipes /\ s.configure # "none"

\* Every version installs something that stays.
ASSUME FileAssumption ==
    /\ Pinned \in Versions /\ Home \in Places
    /\ Kind \in [Files -> Kinds]
    /\ Ships \in [Versions -> SUBSET Files]
    /\ \A v \in Versions : \E f \in Ships[v] : Kind[f] = "lib"

\* No installation is without end.
ASSUME FilesFinite == IsFiniteSet(Files)

VARIABLES
    \* the setting
    script,     \* the script's profile
    canSudo,    \* sudo works for the user who runs it
    rootOwned,  \* places under directories that root made
    \* what is kept in the file system
    cache,      \* cache[v]: the tarball in build/
    tree,       \* tree[v]: the source tree in build/
    prefix,     \* prefix[p][f]: the versions $PREFIX/f was made from
    \* the run
    pc,         \* the next step
    ver, where, \* $..._VERSION and $PREFIX
    todo,       \* files make install has not copied yet
    why,        \* what ended the run
    before      \* history: prefix when the run began

setting == <<script, canSudo, rootOwned>>
run     == <<ver, where, todo, why, before>>
vars    == <<setting, cache, tree, prefix, pc, run>>

Tarball == {"none", "good", "page", "partial"}
Tree    == {"none", "raw",   \* just unpacked
            "touched",       \* a configure began and did not succeed
            "configured", "built",
            "stale",         \* unpacked over the objects of an earlier run
            "mixed"}         \* built with some of them
Outcome == {"none", "network", "rights", "tree", "source", "pipe",
            "compile", "link", "copy", "show",
            "disk",   \* a command broke off before the installation began
            "write"}  \* ... or while it was going on

Early == {"mkprefix", "fetch", "wipe", "unpack"}
Compiling == {"list", "clean", "configure", "make"}
Installing == {"append", "install", "strip", "static", "ini", "show"}
Busy == Early \cup Compiling \cup Installing
Stopped == {"rest", "done", "aborted"}

\* The version that names the tarball and the tree.
Key == IF script.pinned THEN Pinned ELSE ver

Empty == [f \in Files |-> {}]
Absent(p) == prefix[p] = Empty
Of(k) == {f \in Ships[Key] : Kind[f] = k}

\* What make install copies; the rest has a step of its own.
ByMakeInstall ==
    {f \in Ships[Key] : /\ Kind[f] # "ini"
                        /\ Kind[f] = "archive" => script.archive = "installed"}

M_MayInstall == where \notin rootOwned
MayInstall == IF script.sudo THEN canSudo ELSE where \notin rootOwned
MayStrip   == IF script.sudoStrip THEN canSudo ELSE where \notin rootOwned

Init ==
    /\ script \in ScriptSet /\ canSudo \in BOOLEAN
    /\ rootOwned \in SUBSET Places
    /\ cache = [v \in Versions |-> "none"]
    /\ tree = [v \in Versions |-> "none"]
    /\ prefix \in [Places -> {Empty} \cup
                     {[f \in Files |-> IF f \in Ships[v] THEN {v} ELSE {}] :
                        v \in Versions}]
    /\ pc = "rest" /\ why = "none" /\ todo = {}
    /\ ver \in Versions /\ where = Home
    /\ before = prefix

-----------------------------------------------------------------------------
Goto(step) == pc' = step /\ UNCHANGED <<ver, where, why, before>>

\* set -e: the first command that fails ends the script.
Abort(reason) ==
    /\ pc' = "aborted" /\ why' = reason /\ todo' = {}
    /\ UNCHANGED <<ver, where, before>>

Start(v, p) ==
    /\ pc \in Stopped
    /\ pc' = "mkprefix" /\ why' = "none" /\ todo' = {}
    /\ ver' = v /\ where' = p /\ before' = prefix
    /\ UNCHANGED <<setting, cache, tree, prefix>>

\* mkdir -p of a directory that is there succeeds whoever owns it.
MakePrefix ==
    /\ pc = "mkprefix"
    /\ IF script.mkprefix /\ where \in rootOwned /\ Absent(where)
       THEN Abort("rights") ELSE Goto("fetch") /\ UNCHANGED todo
    /\ UNCHANGED <<setting, cache, tree, prefix>>

\* A tarball that is there is used as it is. A transfer that breaks off
\* leaves what had arrived.
M_Fetch ==
    /\ pc = "fetch"
    /\ \/ cache' = [cache EXCEPT ![Key] = "good"] /\ Goto("wipe") /\ UNCHANGED todo
       \/ \E t \in {"none", "partial"} :
             cache' = [cache EXCEPT ![Key] = t] /\ Abort("network")
    /\ UNCHANGED <<setting, tree, prefix>>
M_FetchAgain ==
    /\ pc = "fetch"
    /\ \/ cache' = [cache EXCEPT ![Key] = "good"] /\ Goto("wipe")
       \/ \E t \in {"none", "partial"} :
             cache' = [cache EXCEPT ![Key] = t] /\ Goto("fetch")
    /\ UNCHANGED <<setting, tree, prefix, todo>>
Fetch ==
    /\ pc = "fetch"
    /\ \/ /\ cache[Key] # "none"
          /\ Goto("wipe") /\ UNCHANGED <<cache, todo>>
       \/ /\ cache[Key] = "none"
          /\ \E t \in {"good"} \cup (IF script.fetch = "lax" THEN {"page"} ELSE {}) :
                cache' = [cache EXCEPT ![Key] = t]
          /\ Goto("wipe") /\ UNCHANGED todo
       \/ /\ cache[Key] = "none"
          /\ \E t \in {"none", "partial"} : cache' = [cache EXCEPT ![Key] = t]
          /\ Abort("network")
    /\ UNCHANGED <<setting, tree, prefix>>

\* sudo cmake -B build leaves directories of root's inside the tree.
HoldsRootDirs == script.rootTree /\ tree[Key] \notin {"none", "raw"}

M_Wipe ==
    /\ pc = "wipe"
    /\ prefix' = [prefix EXCEPT ![where] = Empty]
    /\ Goto("unpack") /\ UNCHANGED <<setting, cache, tree, todo>>
Wipe ==
    /\ pc = "wipe"
    /\ IF script.wipes /\ HoldsRootDirs
       THEN Abort("tree") /\ UNCHANGED tree
       ELSE /\ tree' = IF script.wipes THEN [tree EXCEPT ![Key] = "none"] ELSE tree
            /\ Goto("unpack") /\ UNCHANGED todo
    /\ UNCHANGED <<setting, cache, prefix>>

\* tar overwrites the sources and leaves everything else in the tree.
Unpacked == [tree EXCEPT ![Key] = IF @ = "none" THEN "raw" ELSE "stale"]

M_Unpack == /\ pc = "unpack" /\ tree' = Unpacked /\ Goto("list")
            /\ UNCHANGED <<setting, cache, prefix, todo>>
Unpack ==
    /\ pc = "unpack"
    /\ CASE cache[Key] = "good" -> /\ tree' = Unpacked
                                   /\ Goto("list") /\ UNCHANGED todo
         [] cache[Key] = "page" -> UNCHANGED tree /\ Abort("source")
         [] OTHER -> tree' \in {tree, Unpacked} /\ Abort("source")
    /\ UNCHANGED <<setting, cache, prefix>>

\* head leaves after one line; whether tar then dies of SIGPIPE, and pipefail
\* ends the script, depends on who started it.
List ==
    /\ pc = "list"
    /\ \/ Goto("clean") /\ UNCHANGED todo
       \/ script.lists /\ Abort("pipe")
    /\ UNCHANGED <<setting, cache, tree, prefix>>

\* A failure to clean is forgiven.
Clean ==
    /\ pc = "clean"
    /\ \/ UNCHANGED tree
       \/ /\ script.clean /\ tree[Key] = "stale"
          /\ tree' = [tree EXCEPT ![Key] = "raw"]
    /\ Goto("configure") /\ UNCHANGED <<setting, cache, prefix, todo>>

AfterConfigure(state) ==
    tree' = [tree EXCEPT ![Key] = IF @ = "stale" THEN "stale" ELSE state]

MayConfigure == script.rootTree => canSudo

Configure ==
    /\ pc = "configure"
    /\ \/ /\ script.configure = "none"
          /\ Goto("make") /\ UNCHANGED <<tree, todo>>
       \/ /\ script.configure # "none" /\ ~MayConfigure
          /\ Abort("rights") /\ UNCHANGED tree
       \/ /\ script.configure # "none" /\ MayConfigure
          /\ \/ AfterConfigure("configured") /\ Goto("make") /\ UNCHANGED todo
             \/ /\ AfterConfigure("touched")
                /\ IF script.configure = "ignored"
                   THEN Goto("make") /\ UNCHANGED todo ELSE Abort("compile")
    /\ UNCHANGED <<setting, cache, prefix>>

\* Without a Makefile make fails.
HasMakefile == \/ tree[Key] \in {"configured", "stale"}
               \/ tree[Key] = "raw" /\ script.configure = "none"

Make ==
    /\ pc = "make"
    /\ \/ /\ HasMakefile
          /\ tree' = [tree EXCEPT ![Key] = IF @ = "stale" THEN "mixed" ELSE "built"]
          /\ Goto("append") /\ UNCHANGED todo
       \/ Abort("compile") /\ UNCHANGED tree
    /\ UNCHANGED <<setting, cache, prefix>>

Put(p, S) == [prefix EXCEPT ![p] = [f \in Files |-> IF f \in S THEN {Key} ELSE @[f]]]
Join(S) == [prefix EXCEPT ![where] =
               [f \in Files |-> IF f \in S THEN @[f] \cup {Key} ELSE @[f]]]
Drop(S) == [prefix EXCEPT ![where] = [f \in Files |-> IF f \in S THEN {} ELSE @[f]]]

\* ar cq adds members to the archive it finds; the dynamic library and the
\* programs are linked only after it.
M_Append ==
    /\ pc = "append"
    /\ prefix' = IF script.archive = "appended" THEN Put(where, Of("archive")) ELSE prefix
    /\ todo' = Ships[Key] /\ Goto("install")
    /\ UNCHANGED <<setting, cache, tree>>
Append ==
    /\ pc = "append"
    /\ \/ /\ script.archive # "appended"
          /\ todo' = ByMakeInstall /\ Goto("install") /\ UNCHANGED prefix
       \/ /\ script.archive = "appended" /\ ~MayInstall
          /\ Abort("rights") /\ UNCHANGED prefix
       \/ /\ script.archive = "appended" /\ MayInstall
          /\ prefix' = Join(Of("archive"))
          /\ \/ todo' = ByMakeInstall /\ Goto("install")
             \/ Abort("link")
    /\ UNCHANGED <<setting, cache, tree>>

\* File after file, over what an earlier installation left there.
M_Install ==
    /\ pc = "install" /\ todo # {}
    /\ \E f \in todo : /\ todo' = todo \ {f}
                        /\ prefix' = IF MayInstall THEN Put(where, {f}) ELSE prefix
    /\ Goto("install") /\ UNCHANGED <<setting, cache, tree>>
Install ==
    /\ pc = "install" /\ todo # {}
    /\ \/ /\ MayInstall
          /\ \E f \in todo : todo' = todo \ {f} /\ prefix' = Put(where, {f})
          /\ Goto("install")
       \/ ~MayInstall /\ Abort("rights") /\ UNCHANGED prefix
    /\ UNCHANGED <<setting, cache, tree>>

M_EndInstall ==
    /\ pc = "install" /\ todo = {}
    /\ Goto("static")
    /\ UNCHANGED <<setting, cache, tree, prefix, todo>>
EndInstall ==
    /\ pc = "install" /\ todo = {}
    /\ Goto("strip")
    /\ UNCHANGED <<setting, cache, tree, prefix, todo>>

All(k) == {f \in Files : Kind[f] = k}
Present(k) == \E f \in All(k) : prefix[where][f] # {}

\* rm -rf of one directory, if it is there.
M_Strip ==
    /\ pc = "strip"
    /\ IF \E k \in script.strips : Present(k) THEN Goto("strip") ELSE Goto("static")
    /\ UNCHANGED <<setting, cache, tree, prefix, todo>>
Strip ==
    /\ pc = "strip"
    /\ \/ /\ \A k \in script.strips : ~Present(k)
          /\ Goto("static") /\ UNCHANGED <<prefix, todo>>
       \/ \E k \in script.strips :
            /\ Present(k)
            /\ \/ /\ MayStrip
                  /\ prefix' = Drop(All(k))
                  /\ Goto("strip") /\ UNCHANGED todo
               \/ ~MayStrip /\ Abort("rights") /\ UNCHANGED prefix
    /\ UNCHANGED <<setting, cache, tree>>

\* The second, static build of brotli and libwebp.
Static ==
    /\ pc = "static"
    /\ \/ /\ script.archive # "copied"
          /\ Goto("ini") /\ UNCHANGED <<prefix, todo>>
       \/ /\ script.archive = "copied" /\ canSudo
          /\ prefix' = Put(where, Of("archive"))
          /\ Goto("ini") /\ UNCHANGED todo
       \/ /\ script.archive = "copied"
          /\ Abort("link") /\ UNCHANGED prefix
    /\ UNCHANGED <<setting, cache, tree>>

\* The target is written out in the script, whatever $PREFIX says.
M_Ini ==
    /\ pc = "ini"
    /\ prefix' = IF script.ini THEN Put(where, Of("ini")) ELSE prefix
    /\ Goto("show") /\ UNCHANGED <<setting, cache, tree, todo>>
Ini ==
    /\ pc = "ini"
    /\ \/ /\ ~script.ini
          /\ Goto("show") /\ UNCHANGED <<prefix, todo>>
       \/ /\ script.ini /\ canSudo /\ ~Absent(Home)
          /\ prefix' = Put(Home, Of("ini"))
          /\ Goto("show") /\ UNCHANGED todo
       \/ /\ script.ini /\ (~canSudo \/ Absent(Home))
          /\ Abort("copy") /\ UNCHANGED prefix
    /\ UNCHANGED <<setting, cache, tree>>

Show ==
    /\ pc = "show"
    /\ \/ Goto("done") /\ UNCHANGED todo
       \/ script.runs /\ Abort("show")
    /\ UNCHANGED <<setting, cache, tree, prefix>>

Step == \/ MakePrefix \/ Fetch \/ Wipe \/ Unpack \/ List \/ Clean
        \/ Configure \/ Make \/ Append \/ Install \/ EndInstall
        \/ Strip \/ Static \/ Ini \/ Show

-----------------------------------------------------------------------------
\* A command that dies halfway leaves a part of its work: some of the members,
\* files or templates, or some of a directory deleted. (That make install has
\* copied some of its files is a state of its own.)
Halfway ==
    /\ \/ UNCHANGED cache
       \/ pc = "fetch" /\ cache[Key] = "none" /\ cache' = [cache EXCEPT ![Key] = "partial"]
    /\ \/ UNCHANGED tree
       \/ pc = "unpack" /\ cache[Key] # "page" /\ tree' = Unpacked
       \/ /\ pc = "configure" /\ script.configure # "none" /\ MayConfigure
          /\ AfterConfigure("touched")
    /\ \/ UNCHANGED prefix
       \/ /\ pc = "append" /\ script.archive = "appended" /\ MayInstall
          /\ \E S \in SUBSET Of("archive") : prefix' = Join(S)
       \/ /\ pc = "strip" /\ MayStrip
          /\ \E k \in script.strips : \E S \in SUBSET All(k) : prefix' = Drop(S)
       \/ /\ pc = "static" /\ script.archive = "copied" /\ canSudo
          /\ \E S \in SUBSET Of("archive") : prefix' = Put(where, S)
       \/ /\ pc = "ini" /\ script.ini /\ canSudo /\ ~Absent(Home)
          /\ \E S \in SUBSET Of("ini") : prefix' = Put(Home, S)

\* A full disk, a file that cannot be written, or a command of the Makefile's
\* install rule that fails: set -e ends the run where it is.
Break ==
    /\ \/ pc = "mkprefix" /\ script.mkprefix
       \/ pc = "wipe" /\ script.wipes
       \/ pc \in {"unpack", "install"}
       \/ pc = "append" /\ script.archive = "appended"
       \/ pc = "strip" /\ \E k \in script.strips : Present(k)
       \/ pc = "static" /\ script.archive = "copied"
       \/ pc = "ini" /\ script.ini
    /\ Halfway
    /\ Abort(IF pc \in Installing THEN "write" ELSE "disk")
    /\ UNCHANGED setting

\* Ctrl-C or a lost machine, also in the middle of a step.
Interrupt ==
    /\ pc \in Busy /\ Halfway
    /\ pc' = "rest" /\ why' = "none" /\ todo' = {}
    /\ UNCHANGED <<setting, ver, where, before>>

\* Somebody deletes the build directory, or an installation.
DeleteBuild ==
    /\ pc \in Stopped
    /\ pc' = "rest" /\ why' = "none"
    /\ cache' = [v \in Versions |-> "none"] /\ tree' = [v \in Versions |-> "none"]
    /\ UNCHANGED <<setting, prefix, ver, where, todo, before>>

DeletePrefix(p) ==
    /\ pc \in Stopped
    /\ pc' = "rest" /\ why' = "none"
    /\ prefix' = [prefix EXCEPT ![p] = Empty]
    /\ UNCHANGED <<setting, cache, tree, ver, where, todo, before>>

Next == \/ Step \/ Break \/ Interrupt \/ DeleteBuild
        \/ \E v \in Versions, p \in Places : Start(v, p)
        \/ \E p \in Places : DeletePrefix(p)

Spec == Init /\ [][Next]_vars

\* A started script runs on; that a command breaks off is never owed.
FairSpec == Spec /\ WF_vars(Step)

-----------------------------------------------------------------------------
(* Properties.                                                             *)

\* The state of the run, of build/ and of the installations.
TypeOK ==
    /\ script \in ScriptSet /\ canSudo \in BOOLEAN /\ rootOwned \in SUBSET Places
    /\ cache \in [Versions -> Tarball] /\ tree \in [Versions -> Tree]
    /\ prefix \in [Places -> [Files -> SUBSET Versions]]
    /\ before \in [Places -> [Files -> SUBSET Versions]]
    /\ pc \in Busy \cup Stopped /\ why \in Outcome
    /\ ver \in Versions /\ where \in Places
    /\ todo \in SUBSET ByMakeInstall

\* Whatever earlier runs left in build/, what a script installs was compiled in
\* this run from a tarball that arrived whole; only a script that does not
\* remove the old tree (php-8.0.sh:28-33) may take over objects that `make
\* clean || true' failed to remove.
InstallsThisBuild ==
    pc \in Installing =>
        /\ cache[Key] = "good"
        /\ tree[Key] = "built" \/ (tree[Key] = "mixed" /\ ~script.wipes)

\* A file the run has left as it was, or has a part in.
Mark(p, f) ==
    \/ prefix[p][f] = before[p][f]
    \/ /\ p = where /\ prefix[p][f] = {Key}
       /\ f \in ByMakeInstall \/ (f \in Of("archive") /\ script.archive = "copied")
    \/ /\ p = where /\ prefix[p][f] = before[p][f] \cup {Key}
       /\ f \in Of("archive") /\ script.archive = "appended"
    \/ p = where /\ prefix[p][f] = {} /\ Kind[f] \in script.strips
    \/ p = Home /\ prefix[p][f] = {Key} /\ f \in Of("ini") /\ script.ini

\* A failed run damages an installation only by a command of the installation
\* that breaks off (openssl@3.5.sh:53), a link or a second build that comes
\* after the first write (bzip2.sh:50-66, brotli.sh:47-66, libwebp.sh:59-85), a
\* deletion that needs sudo after an installation that did not
\* (openssl@3.5.sh:53-57), templates copied to a path that is not there, or an
\* installed program that does not start. Every other failure leaves all of
\* them as they were, and none reaches beyond the files of the new version, the
\* directories the script deletes and the templates it copies.
DamageIsBounded ==
    pc = "aborted" =>
        /\ prefix # before =>
              \/ why = "write"
              \/ why = "link" /\ script.archive # "installed"
              \/ why = "rights" /\ script.sudoStrip /\ ~script.sudo /\ ~canSudo
              \/ why = "copy" /\ script.ini
              \/ why = "show" /\ script.runs
        /\ \A p \in Places, f \in Files : Mark(p, f)

\* What $PREFIX/f holds after make install ...
Laid(f) ==
    IF f \in ByMakeInstall THEN {Key}
    ELSE IF f \in Of("archive") /\ script.archive = "appended"
         THEN before[where][f] \cup {Key} ELSE before[where][f]

\* ... and when the run has ended well.
Wanted(f) ==
    IF Kind[f] \in script.strips THEN {}
    ELSE IF \/ f \in Of("archive") /\ script.archive = "copied"
            \/ f \in Of("ini") /\ script.ini /\ where = Home
         THEN {Key} ELSE Laid(f)

\* After "installed to $PREFIX" the place holds all of the new build, without
\* the parts the script deletes (for three PHP scripts against MEMORY.md:36, see
\* ProgramsKeepAll), over those files of older builds that the new one does not
\* ship; and the one other thing that changed is Home's php.ini templates.
SuccessIsComplete ==
    pc = "done" =>
        /\ \A f \in Files : prefix[where][f] = Wanted(f)
        /\ \A p \in Places \ {where}, f \in Files :
              prefix[p][f] = IF p = Home /\ script.ini /\ f \in Of("ini")
                             THEN {Key} ELSE before[p][f]

\* A broken tarball is never replaced: no retry heals a download that failed
\* once (the [ ! -f $TARBALL ] of every script), only deleting build/ does.
BadTarballStays ==
    [][\A v \in Versions : cache[v] \in {"page", "partial"} =>
          cache'[v] = cache[v] \/ (pc \in Stopped /\ cache'[v] = "none")]_vars

\* Every failure has its cause: a refused deletion of the tree needs root's
\* directories in it, a refused tarball needs a bad one, and a refused write
\* needs a place of root's or no sudo.
AbortsExplained ==
    pc = "aborted" =>
        /\ why = "tree" => /\ script.rootTree /\ canSudo
                           /\ tree[Key] \in {"touched", "configured", "built"}
        /\ why = "source" => \/ cache[Key] = "partial"
                             \/ cache[Key] = "page" /\ script.fetch = "lax"
        /\ why = "rights" => ~canSudo \/ (~script.sudo /\ where \in rootOwned)
        /\ why = "copy" => where # Home

\* A program keeps all that make install gives it: "the build scripts under
\* mac_arm64/php/ and mac_arm64/server/ delete no files or directories after
\* the build" (MEMORY.md:35-36).
ProgramsKeepAll ==
    pc = "done" /\ script \in Programs =>
        \A f \in ByMakeInstall : prefix[where][f] = {Key}

Ins == INSTANCE Installer WITH
        phase <- IF pc \in Early \cup Compiling THEN "building"
                 ELSE IF pc \in Installing THEN "writing"
                 ELSE IF pc = "done" THEN "done" ELSE "rest",
        key <- Key

\* A run cut off at any point, by a kill or by a command that fails, has left each
\* file of $PREFIX as it was, or of the new version, or deleted (documentation);
\* nothing of it is there before make is through; and the message of success comes
\* after everything (refinement; the set -e of every script, e.g. openssl@3.5.sh:3, :51-57).
ImplementsInstaller == Ins!Spec

\* How many commands a run has left at most: the stages it has not been
\* through, the files it has not copied and the parts it has not deleted.
Stage == [show |-> 1, ini |-> 2, static |-> 3, strip |-> 4, install |-> 5,
          append |-> 6, make |-> 7, configure |-> 8, clean |-> 9, list |-> 10,
          unpack |-> 11, wipe |-> 12, fetch |-> 13, mkprefix |-> 14]
Uncopied == IF pc \in Early \cup Compiling \cup {"append"} THEN Files ELSE todo
Undeleted ==
    {k \in script.strips :
        CASE pc = "strip" -> Present(k)
          [] pc \in {"static", "ini", "show"} -> FALSE
          [] OTHER -> TRUE}
Left == IF pc \in Busy
        THEN Stage[pc] + Cardinality(Uncopied) + Cardinality(Undeleted) ELSE 0

\* Every step brings the end nearer: nothing is retried, and no loop of a
\* script goes over the same file or directory twice (the commands of every
\* script in their order, e.g. libpq.sh:16-82).
RunsShorten == [][(pc \in Busy) => Left' < Left]_vars

\* No step waits for anything, so a run ends, one way or another.
Terminates == pc \in Busy ~> pc \in Stopped
=============================================================================
