# A TLA+ model of EServerBuildConfigure

EServerBuildConfigure builds the libraries, PHP versions and servers of EServer
for macOS on ARM. It is a collection of shell scripts, GitHub workflows and
committed build results, and what can go wrong in it is seldom in one script:
it is in what a script finds from the run before, in two workflow runs for one
release, in a library replaced while something reads it. This directory models
those parts in TLA+, checks the models with TLC, and proves what matters most
for every value of the constants with TLAPS.

Contents

1. [The system](#1-the-system)
2. [Modules](#2-modules)
3. [The link farm](#3-the-link-farm)
4. [The build scripts](#4-the-build-scripts)
5. [The release workflows](#5-the-release-workflows)
6. [The linkage](#6-the-linkage)
7. [Runs](#7-runs)
8. [Proofs](#8-proofs)
9. [Where the code and its documentation disagree](#9-where-the-code-and-its-documentation-disagree)
10. [What is not modelled](#10-what-is-not-modelled)
11. [Plan](#11-plan)
12. [Running the checks](#12-running-the-checks)

## 1. The system

| part | where | state it keeps | operations | hard because |
|---|---|---|---|---|
| build scripts | `mac_arm64/**/*.sh` (47) | tarballs and source trees in `build/`, installations at `$PREFIX` | one run: download, unpack, clean, configure, make, install, delete `share`, second build, `php.ini` templates | every command may fail under `set -e`, also halfway; reruns reuse what earlier runs left; `sudo` for some steps and not for others |
| link farm | `create-libs.sh` | `Library/lib/pkgconfig` | one run over all libraries | kills between `rm` and `ln`; libraries replaced during the loop; two libraries with one `.pc` name; a sudo probe that looks at another directory |
| release workflows | `.github/workflows/build-*.yml` (47) | the releases and their assets, the tags | start by a tag or by hand; Prepare, build, pack, upload | several runs at a time, on commits that are no longer the newest; uploads that delete first; `continue-on-error` |
| promotion | done by hand, `.workbuddy/memory/2026-06-20.md:3-11` | the committed `Library` | delete a directory, unpack a released asset, commit | closes a loop: what is committed is copied to the machine that builds the next release |
| dependency linkage | `*_PREFIX`, `PKG_CONFIG_PATH`, `--with-*` in the scripts with dependencies; the workflows that run them | the paths recorded in each binary; which build of each library is committed and released; the committed link farm | link, release, promote, remove, relink, correct a path | a missing directory is passed over in silence and Homebrew's copy taken instead; what a dependency has linked is passed on (`MEMORY.md:39-42`); runs see the commit they were started on; the farm is committed apart from the libraries |
| diagnostic workflows | `check-sdk-libs.yml`, `check-libresolv.yml`, `macos-cpu-info.yml` | none | print | — |
| data | `Library/`, `patch/`, `php-src-backports/` | committed files | — | — |

How they interact:

    developer --tag, dispatch--> workflow run --runs--> build script
        ^                            |  ^                   |
        |                     upload |  | cp -R Library/*   | installs to $PREFIX
        |                            v  |                   v
        +--<--promotion-- release    committed Library <- create-libs.sh
                             |            ^                 (link farm)
                             +--promotion-+

A build script runs at a developer's desk, again and again in one directory,
and in a workflow, once on a fresh machine. The workflow copies the committed
`Library` to the machine for the libraries that have dependencies. The released
asset is what the developer unpacks into `Library`, and `create-libs.sh` then
gathers the `.pc` files that the PHP and MySQL builds hand to pkg-config.

What makes each part correct:

* a build script installs what it says it installs, whatever earlier runs left;
  a failed run damages an installation in known ways and within bounds only; a
  successful one leaves a complete installation; failures have causes a user can
  remove;
* the link farm offers every name that some library provides, each link
  resolves, and no accident costs more than one name;
* an asset is what its name, its tag and its commit say, a failed build is not
  released, a released asset does not vanish, and a tag's release is that of
  its newest run;
* `Library` does not collect files of old versions;
* what is built properly, from dependencies that were, has nothing of Homebrew's in
  it; libraries rebuilt in the order of their dependencies load the copies they
  were linked against; the committed farm leads where the script would lead it.

`PROJECT.json` lists the places in the code where these could fail and a test
would hardly tell ("hazards"), and the properties that cover them.

## 2. Modules

| module | what it is |
|---|---|
| `LinkFarm` | abstract: what a user of `create-libs.sh` may rely on |
| `LinkFarm_proofs` | what follows from that promise alone |
| `CreateLibs` | `create-libs.sh`, one action per file operation; implements `LinkFarm` |
| `CreateLibs_proofs` | its theorems, the refinement among them |
| `Installer` | abstract: what a user of a build script may rely on |
| `Scripts` | the 47 build scripts as profiles |
| `BuildScript` | the step machine a profile runs through; implements `Installer` |
| `BuildScript_proofs` | its theorems, the refinement among them |
| `Workflows` | the 47 build workflows as profiles |
| `Release` | tags, commits, workflow runs, releases, promotion |
| `Release_proofs` | its theorems |
| `Dependencies` | what each of 44 products links and how its script says where that is |
| `Linkage` | the copies found and recorded, over commits, runs, releases and the farm |
| `Linkage_proofs` | its theorems |
| `MCCreateLibs`, `MCBuildScript`, `MCRelease`, `MCLinkage` | small instances for TLC |

`Linkage` composes what the other modules look at one at a time: several libraries,
their workflow runs (`Release`), their promotion, and the link farm
(`CreateLibs`), each reduced to what the choice of a dependency depends on. Where one
module takes in one step what another takes many for, a property or a theorem says
that the two agree: `RelinkKeepsPromise` (`Linkage` and `LinkFarm`), `BuildsLay`
(`Release` and `BuildScript`).

The scripts and the workflows are 94 files of a few shapes. A shape is a record
in `Scripts` or `Workflows`; a script is a shape with its exceptions, so the
differences between the files can be read off, and a property is checked, and
proved, of all of them at once: the profile is a variable that the initial
state chooses and no step changes.

Constants are declared with their assumptions in the module they parameterise
and get their values in the `MC` module and the `.cfg`. `M_...` operators are
plausible bugs: each replaces the operator it is named after to show that a
property notices the difference. No specification uses them.

## 3. The link farm

`CreateLibs` follows `create-libs.sh` command by command.

| code | model |
|---|---|
| lines 2-26, configuration, sudo probe | `Start`: `sudo` is set if `LIBRARY_DIR` is not writable |
| 28-31, `mkdir -p` | `MakeTarget`, refused if sudo does not work |
| 40, the outer glob | `GlobDirs`: the list is fixed here; `IsNext` is the shell's order |
| 41-53, the guards of the loop | `SkipDir`, `EnterDir`; an unmatched inner glob is the pattern itself (`Star`) |
| 57-62, `[ -f ]` | `SkipFile`, `TakeFile` |
| 64-67, `[ -e ] \|\| [ -L ]`, `rm` | `RemoveOld` |
| 69-72, `ln -s` | `MakeLink` |
| end, `set -e` | `Finish`, `Exit("aborted")` |

`dirs` and `pcs` are the libraries on disk, `farm` is the link directory.
Around the script, `Interrupt` kills it between any two commands, and
`DeleteLib`, `UnpackLib` and `UnpackFile` replace a library as the developer
does. `farm0` and `churn` are history: the farm at the start, and whether a
library has changed since.

`LinkFarm` knows nothing of the script: names are retracted and published one
at a time, at most one known name is missing, and success may only be reported
when every provided name has its last provider. `ImplementsLinkFarm` is the
refinement, with `phase` and `stale` computed from `pc` and `churn`.

What a run cut off between `rm` and `ln` costs is one name (`AtMostOneLost`), and it
is one that a library provides, so the next run brings it back (`LossHeals`,
`Complete`). `OnlySharedNamesClash` says what is left of the claim that linking meets
no conflict: a run takes away a link of its own making only where two libraries
ship the name. It goes by what libraries ship, so it holds while they are replaced
under the loops, too.

Fairness: `WF_vars(Script)`. A shell script that was started is scheduled by
the operating system; nobody is obliged to start it again or to replace a
library. `Terminates` needs nothing else: both loops are over fixed lists. How much is
left of them is counted by `Left`, and `RunsShorten` says that every operation of the
script lowers it and no replaced library raises it; for that, libraries and names are
assumed to be finitely many (`NamesAssumption`).

## 4. The build scripts

`BuildScript` has one action per step.

| code (e.g. `openssl@3.5.sh`, `php-8.0.sh`) | model |
|---|---|
| the configuration block | `Start(v, p)`: a version and a `$PREFIX` from the environment |
| `mkdir -p "$PREFIX"` (`icu.sh:17`) | `MakePrefix` |
| `[ ! -f "$TARBALL" ]`, `curl` | `Fetch`: with `-f` an HTTP error ends the script, without it the error page is the tarball; a broken transfer leaves a part |
| `rm -rf` of the tree | `Wipe`: refused where sudo has made directories in the tree; `php-8.0.sh` names a directory that is not the tarball's |
| `tar` | `Unpack`: over whatever tree there is |
| `tar -t \| head -1` | `List`: with pipefail it may end the script |
| `make clean \|\| true` | `Clean` |
| `./configure`, `cmake` | `Configure`: checked, ignored (`set +e`), or none |
| `make` | `Make` |
| `ar cq` (`bzip2.sh:50`) | `Append`, ahead of the link that may fail |
| `make install` | `Install`, file by file, and `EndInstall` |
| `rm -rf "$PREFIX/share"` | `Strip`, with or without sudo |
| the second build of brotli and libwebp | `Static` |
| `cp php.ini-*` | `Ini`, to the path that is written in the script |
| `php -v`, `echo ... installed to $PREFIX` | `Show` |
| `set -e`, when a command that writes fails midway | `Break`, which leaves what `Halfway` says |

`cache[v]` and `tree[v]` are `build/`, `prefix[p][f]` is the set of versions a
file of an installation was made from (a set, since `ar cq` can mix two). A
profile of `Scripts` says which steps a script has and how it does them. `before`
is history: the installations when the run began. `why` is the reason a run
was ended by `set -e`.

`Interrupt` kills the script in or between steps, and `Break` ends it because a command
broke off: a full disk, one file that cannot be written, a command of the Makefile's install rule
that fails. Both leave part of the command's work (`Halfway`): some of the files copied, some
members added, a directory deleted in part. `DeleteBuild` and
`DeletePrefix` are what a user does to start over. What users have and own
varies: `canSudo`, and `rootOwned`, the places under directories of root's.

`Installer` knows nothing of the steps: no installation changes before the new
version has been built; then files of the chosen place turn to that version in
any order, archives may get members added, documentation and programs may be
deleted, and the run may give up after any of it; success is reported of a complete installation
only. `ImplementsInstaller`
is the refinement, with `phase` computed from `pc`. 
`DamageIsBounded` goes further for runs that `set -e` ended: a damaged installation
has one of five causes, a command of the installation that broke off (`"write"`) or a
later step that fails by itself (a link or second build, a deletion without rights,
the templates, a program that does not start); and, whatever the cause, each file is
as it was or is one that this run copies, appends to or deletes (`Mark`).
`ProgramsKeepAll` is the notes' rule for PHP and servers, which three scripts break
(section 9); `SuccessIsComplete` says what each script does leave, theirs included.

Abstracted: compiler flags, dependency paths (see section 6), the contents of
files beyond the versions they come from, messages. A file is written in one step: one that was cut off
in the middle counts as a file of the new version. `sudo sed -i` of the installed `.pc` file
(`lz4.sh:41-43`, `zstd.sh:67-69`) is part of the installation: it changes no version, and its
failure is a `Break` after the last file. A download, a configure and a compilation
may always fail, and any command that writes may break off, for reasons the model does not give.

Fairness: `WF_vars(Step)`, as above; nothing is owed to `Break` and `Interrupt`. `Left` counts the
steps before the installation
and then the files still to be copied or deleted, of which there are finitely many
(`FilesFinite`); every step, failure and kill lowers it (`RunsShorten`).

## 5. The release workflows

`Release` has one workflow, chosen by `flow`, and everything around it.

| code or practice | model |
|---|---|
| the version in the `.yml`, the default in the script, `Library/<lib>` | the record `master`; a commit is a copy of it |
| `on.push.tags`, the glob | `Triggers`, with `OwnTags` (of the documented form) and `SubTags` (of another workflow, but beginning alike) |
| `git push origin <tag>`, and its deletion for a retag | `PushTag`, `DeleteTag` |
| `workflow_dispatch` | `Dispatch`; the tag is the input, or the branch where there is no input |
| no `concurrency:` | any number of `runs` at a time, each on the commit of its event |
| Prepare EServer Library | `Prepare`: the library's own old directory comes along |
| the build step | `Build`: the version is the environment's, if the script reads that variable |
| `continue-on-error: true` | `TolerateFailure` |
| Set artifact name, Package artifact | `NameOf`, `Package` |
| `softprops/action-gh-release` | `Publish` (delete the asset of that name, create the tag if there is none) and `Upload` |
| any failing step, a lost machine, a cancelled run | `Fail` |
| version bumps and promotion | `BumpWorkflow`, `BumpScript`, `Promote` |

A file on a machine or in `Library` is the version it was built from
(`Content`). `raced` is history: whether another run for the same tag was under
way when a run began.

The two halves of the upload are what that action is known to do with an asset
whose name exists: delete, then send. That a tag created by an upload starts no
workflow is GitHub's rule for the token it uses. What GitHub does to a release
whose tag is deleted (it becomes a draft) is left out: the assets stay.

One workflow at a time is enough for these properties: two workflows share no
asset name, and `Library/<lib>` is written by one of them only. Where they do
meet (a tag that starts both, openssl@1.1 downloaded by the MySQL workflow) see
section 9 and `Linkage`.

`RightGlobsStart` is the part of the documented convention that holds: a workflow
whose glob matches its own tags and nobody else's is started by exactly those.
`RightGlobsRelease` is what that is worth to the releases, over retags, uploads and
commits: a tag stands at a commit that a run for it was started on, or where an upload
has put it, and another workflow's release shows an asset of this one only by hand. TLC
checks it with a tag of each kind.

No fairness is assumed and no liveness stated: GitHub may cancel any run.

## 6. The linkage

`Dependencies` has one record per product: its uses, each with how the script
gives the place, the `.pc` names it offers, and facts of its workflow. `Linkage`
numbers the builds. A commit says which build of each library is in `Library`,
which links the farm has, and which directories scripts name wrongly. A build
records what it has linked, each with its origin: a build of this repository,
Homebrew's copy, or the system's (none, if the use is optional).

| code or practice | model |
|---|---|
| `export OPENSSL_PREFIX=...`, `--with-x=DIR`, `PKG_CONFIG_PATH` of single directories (`curl.sh:12-28`) | use `"given"`: that directory, if it is in the commit and named right; else what is searched by default |
| `-DZLIB_LIBRARY_RELEASE=.../libz.dylib` (`libzip.sh:41-49`) | `"file"`: that file or no build |
| `PKG_CONFIG_PATH=Library/lib/pkgconfig` (`php-8.4.sh`) | `"farm"`: the library that the link of that name leads to, if it is there |
| no path given (zlib in `libwebp.sh`, Kerberos in `curl.sh`) | `"found"`: any copy on the machine |
| the openssl@1.1 asset (`build-mysql-5.7.yml:60`) | `"release"`: what the release holds at that moment |
| `on: push`, checkout, Prepare (`build-curl.yml:3-33`) | `Begin`: the commit is read once, `src` |
| configure and link | `Link`: `Finds` for each use, and some of what those have linked themselves (`Inherited`, `2026-06-20.md:42-44`), each looked up anew |
| upload; a failure, also between its two halves | `Upload`, `Fail` |
| promotion, deletion, `create-libs.sh`, an edit of a script | `Promote`, `Remove`, `Relink`, `EditScript` |

`Relink` is the outcome of a run of `create-libs.sh` that nothing disturbs, as
`Complete` of `CreateLibs` states it: links whose name nobody provides stay.
`RelinkKeepsPromise` ties it to `LinkFarm`, instantiated over the newest commit. That a
farm is a function needs two libraries with one name to have distinct places in the
glob's order (`RankAssumption`); `Coherent` is what is assumed of the
products' dependencies: each names a product of the same net, or a `.pc` name one of
them offers, and what a workflow without Prepare builds uses no path under `Library`.

A build also has `pcs`, the `.pc` files it has installed: any of those the product may have, so
a replacement can bring a name or leave one out, and a link of the farm may lead to a file
that is gone. pkg-config then looks elsewhere.

History: `missed` (of the libraries a build links, those that were replaced since
its run began), `linked` (which library offered which name when `create-libs.sh` was last
run), and `proper`, which holds of a build if the
commit it ran on was in order for each of its uses (`InOrder`: the directory
there and named right, the name's winner in the farm still the one it was, nothing of Homebrew's
where no path is
given) and if what it has linked is proper too.

`ProperIsClean` then says that what is not in `InOrder` (other runs, promotions,
removals and edits in any order, and inheritance along any path) never brings in
Homebrew's copy. `RebuiltChainLoads` is about the repair of
2026-06-20: whatever happened before, a set of libraries that were rebuilt
each after its dependencies load what they were linked against. `FarmStaysRight`
says how long the committed farm may be trusted, name by name: libraries may come, go and
change what they offer, and the link is right as long as the last provider in the glob's
order is the one it was when the script ran (`Upheld`).

Abstracted: versions (a build number stands for one); what Homebrew's copies depend
on; which of several default directories comes first (any copy found there may be
taken); a dependency that a configure script switches off. `curl.sh:21-28` folds its
`PKG_CONFIG_PATH` over lines, so that entries carry newlines; the same directories
are also given by `--with-*`, which is what `"given"` stands for.
Libraries start absent from `Library`, and the committed state is
reached by builds and promotions. No fairness, no liveness: nobody is obliged to
rebuild anything.

## 7. Runs

Runs that pass:

| run | specification | bounds | states | what it shows |
|---|---|---|---|---|
| `create_libs` | `CreateLibs`, fair | 2 libraries that share one `.pc` name, 3 names with `*`, all initial farms and rights | 100 000 | the farm is complete after a quiet run, no accident costs more than a name and the next run links that again, only shared names clash, the script implements `LinkFarm`, every operation shortens a run, and it ends |
| `all_scripts` | `BuildScript` | all 47 scripts, 1 version, 2 places, 4 files | 1 733 000 | only this run's build of a whole tarball is installed; wherever a command breaks off, the damage is bounded; a success is complete, also for the `php.ini` path that ignores `$PREFIX`; failures have their causes; broken tarballs are never healed; the scripts implement `Installer`; every step shortens a run |
| `upgrade` | `BuildScript`, fair | 3 scripts, 2 versions, one with a file the other lacks | 564 000 | a successful run leaves all of the new version, over the files only the old one ships; runs cut off anywhere leave only files of the old or the new one (`Installer`); runs end |
| `workflows` | `Release` | all 47 workflows, 2 versions up to renaming, each with a file of its own, 2 runs, 1 tag of the workflow's own and 1 of another's, 2 commits | 5 890 000 | an asset follows its commit; names tell versions; failed builds stay unpublished; uploads stay; the newest of runs that do not overlap wins; promotions of libraries without Prepare never mix two versions; where the glob is right, tags and releases stay in line |
| `linkage` | `Linkage` | 6 groups of products, 3 runs, 3 commits | 1 105 000 | proper builds are clean, rebuilt chains load what they linked, the committed farm stays right, and a relinking makes it what `LinkFarm` promises |

Why the bounds are enough for the cases to happen:

* two libraries are what it takes to have a conflict, a winner and a loser; the
  files of one come before, after and between the steps of the other;
* a script's state from earlier runs is one tarball and one tree per version,
  so two versions show every way in which one can disturb the other, and no
  number of earlier runs reaches more; nothing bounds the number of runs. The scripts that
  keep most between runs are in `upgrade`; what all 47 do to one version, and to a place
  that is not the one they were written for, is in `all_scripts`;
* for a race between runs, two are needed: one that begins before and ends
  after the other. Two runs and a commit let the tag move in between;
* the mixture of versions in `Library` needs a release and a promotion, with a
  version bump to tell two apart: two commits;
* a chain of dependencies of length three (openssl, ngtcp2, curl) is the
  shortest in which something is inherited, and takes three builds and three
  promotions, all of which TLC reaches; the other groups have one way of finding a
  dependency each: two providers of one name in the farm, a release, a file, no
  path at all, and a path that is misspelt to this day (`php-5.6.sh:68`). Three builds are also
  what it takes to link against a farm whose target was replaced by a build without the
  `.pc` file. The constants of `linkage` and `otool` hold only the names that occur in
  these groups; all 44 products together are checked to be `Coherent`, and the groups
  to be `WellFormed`, which is what the theorems assume of any set of products.

Versions in `workflows` are model values that nothing but their own file tells apart
(`SmallShips`), so permuting them is sound (`VersionSymmetry`); the run checks no liveness.

`MaxRuns` and `MaxEdits` (`Release`), `MaxBuilds` and `MaxEdits` (`Linkage`) are the
only bounds in guards; they stop the models when they are used up, and a
repository nobody touches is at rest anyway, so these runs do not check for
deadlock. A failed run of `Linkage` gives its number back. Every property of a passing run
has a mutant in `PROJECT.json`, a changed operator under which TLC finds the
property violated.

## 8. Proofs

TLAPS proves, for every value of the constants that the modules' assumptions
admit, every invariant that the passing runs check, the action properties
(`BadTarballStays`, `RunsShorten` of both scripts, `RelinkKeepsPromise`), and the
refinements `ImplementsLinkFarm` and `ImplementsInstaller`. Of the passing runs' properties only
`Terminates`, of both scripts, is left to TLC: the prover has neither fairness nor
ENABLED. `RunsShorten` is the half of it that needs neither, a bound on the length of
every run; the other half, that a run that is not over has a step to take, is TLC's.
No module uses recursion.

**`LinkFarm_proofs`.** What a user gets from `LinkFarm`'s promise alone, and so from
every program that keeps it: one name missing at most, and after a success a farm
that is a function of the libraries and what was there before (`SuccessIsExact`).

**`CreateLibs_proofs`.** `Complete` is not inductive: it speaks of the end of a
run only. `IInv` adds what the loops maintain. `LocalsInv` ties the local
variables to `pc`; `DiskInv` says that a deleted library has no files; `FarmInv`
that nothing is written without the right to, and that only the name between
`rm` and `ln` may be missing; `OrderInv`, that what was visited precedes what is
left in the glob's order; `PlaceInv`, that every name handled so far points to a
provider not older than the last one handled, and the others are as they were.
When the list is empty, `PlaceInv` is `Complete`. The refinement maps each
action to one of `LinkFarm` or a stutter, from the same invariant. `LossesHeal` takes
from `OrderInv` that the file whose link is removed is there. `ClashesAreShared` needs
an invariant of its own (`ClashInv`): `PlaceInv` is about quiet libraries only, and
what clashes is decided by what libraries ship, not by what is on disk at the
moment. `RunsGetShorter` keeps the arithmetic apart: `Costs` says once what a step
takes off each product, and the actions only choose among its conjuncts.

**`BuildScript_proofs`.** `IInv` is the conjunction of `TarballInv` (past `tar` the
tarball is whole), `TreeInv` (a tree that was removed holds nothing of an earlier
run), `WriteInv` (nothing is written before `make` is through, or without the
right to), `LayoutInv` (how far the installation has got, file by file) and
`DoneInv`. There is one lemma per action. The assumptions: scripts that install
with sudo also delete with sudo and do not create `$PREFIX` themselves
(`ScriptAssumption`, which TLC evaluates over all 47 profiles), and every
version installs at least one file that is not deleted again (`FileAssumption`).
The refinement maps each action to one of `Installer` or a stutter; `PutIsWrite`
covers the actions that put files up, `JoinIsWrite` and `DropIsWrite` those that append and
delete, in part or whole, and `EndsComplete` gets the completeness at
the message of success from `DoneInv`. From the same invariant: `RerunHeals`, what a
success is worth after any history of kills (two exceptions, the appended archive and
the templates); `BuildsLay`, that on a place without files in the way a whole run is
the one step that `Release` takes for it. `FailuresBounded` rests on `LayoutInv` and on `Mark` being
kept by each
step (`MarksStay`) and by each half of one (`HalfwayMarks`). `OnlyPhp80Mixes`, `OneWriteOneDamage` (twenty
scripts have one of the five ways to damage an installation) and `OnlyThreeStrip` are about the
scripts by name: their profiles are expanded group by group, and the
general theorems do the rest. `RunsGetShorter` (`FilesFinite`) treats a stage of the
script and the files left in it as one sum.

**`Release_proofs`.** `DiskInv` says what is on a run's machine at each step, as a
function of its commit; `BuiltInv`, that past the build step the build has
succeeded or the workflow is one for logs; `OrderInv`, that runs start in the order of
their numbers, and that when a run has not raced, the earlier runs for its tag
have ended. `NewestRunWins` needs `OrderInv`: without it an earlier run could
still upload. `LibraryStaysPure` needs `AssetsFollowCommits`: a promoted asset
of a workflow without Prepare is a pure build of one version.
`RightGlobsReleaseTheirs` adds to `RightGlobsStart` what a run keeps once it has started
(`StartedRunsKeep`). `RightGlobs` and the
theorems after it state under which conditions the notes are right (section 9).

**`Linkage_proofs`.** For any set of products that is `WellFormed`, cyclic or not, and
any numbers of builds and commits. `SettledInv`: commits, releases and load commands
refer only to builds that have succeeded, and those never change again, which
is what makes it possible to speak of the builds below a build. `RunInv`: nothing
is claimed of a run before it has linked. `KeptInv`: only libraries are committed.
`SeenInv`: a run sees the newest copy of everything but what it has missed, and
what it has linked is just that; with it, `RebuiltChainLoads` follows without a
further induction along the chain. `FarmInv`: where a name was offered when
the farm was last made, its one link leads to what won it then (`FarmAsLinked`), on the
newest commit and on every commit a run works on; with `OneWinner`, `FarmRight` follows.
`ProperIsClean` is part of the invariant: a copy that is not
inherited is clean by `InOrder`, an inherited one by the builds below. `RelinkAsPromised`
needs that there is a last provider at all. Among finitely many there is: of the sets
of providers that come after a given one, some are smallest (`LastOne`, by the
well-foundedness of strict inclusion), and by `RankAssumption` there is one only.

## 9. Where the code and its documentation disagree

Each of these is a run in which TLC finds the stated property violated; the
quotations are in `PROJECT.json`.

| run | the claim | the code |
|---|---|---|
| `name_conflict` | no two libraries have a `.pc` of the same name (`MEMORY.md:19`) | openssl@1.1 and openssl@3.5 do; the glob order decides |
| `retag` | delete and push the tag again to release anew (`MEMORY.md:27`) | the old run goes on and may upload last |
| `names` | the version in the asset's name (`build-libnghttp2.yml:60`) | `libnghttp2.sh` and `libnghttp3.sh` read another variable |
| `glob` | `<name>-<version>` is for `build-<name>.yml` (`MEMORY.md:26`) | `libxml2-*` also matches the tags of libxml2-2.11 |
| `replacement` | a library is replaced by deleting its directory first (`2026-06-20.md:11`) | the asset was built over the old directory and brings its files back |
| `programs_keep` | PHP and server scripts delete nothing after `make install` (`MEMORY.md:35-36`); php-5.6, 7.0, 7.1, 7.2, 7.3 and 8.3 still do (`:37`) | `php-5.6.sh:82-85`, `php-7.0.sh` and `php-7.1.sh` delete `share`; the other three no longer do |
| `otool` | a library that depends on a wrongly linked one records the wrong path too (`MEMORY.md:40-41`), so that `otool -L` shows it | the linker records what a build names; `libgd.sh:58-64` names freetype and not freetype's brotli, and the committed `libgd.3.dylib` has no trace of what `libfreetype.6.dylib` loads |

For six of the seven, a theorem says when the claim does hold:

| the claim | holds if | theorem |
|---|---|---|
| `NoNameConflict` | no two libraries ship one name: the note's conclusion follows from its premise, and the premise fails today | `DistinctNamesNeverClash`, `ClashesAreShared` |
| `RetagReleasesAnew` | no run for a tag overlaps another, as with a concurrency group | `RetagAloneReleasesAnew` |
| `NameTellsContents` | the workflow is none of libnghttp2's and libnghttp3's | `OtherNamesTellContents` |
| `TagsStartTheirWorkflow` | the glob matches the workflow's own tags and no others | `RightGlobsStartTheirs`, `RightGlobs`, `RightGlobsReleaseTheirs` |
| `PureLibrary` | the workflow has no Prepare step | `LibraryStaysPure` |
| `ProgramsKeepAll` | the script is none of those of PHP 5.6, 7.0 and 7.1 | `OnlyThreeStrip` |

`DependentsShowIt` has no such condition in the code: whether a load command is passed
on depends on what the dependency's `.pc` file and configure script name.

`MEMORY.md:25` also says that `make install` needs sudo; fourteen scripts install
without it (their profiles have `sudo |-> FALSE`), and what follows from that
is part of `DamageIsBounded` and `AbortsExplained`.

## 10. What is not modelled

* **C code**: the repository has none of its own. The C files are headers of other
  projects, installed under `Library` by the scripts. The repository's own code is
  shell and YAML, and of that every build script, `create-libs.sh` and every build
  workflow is mapped.
* **`nghttp2.sh` and the log variants of PHP 7.3 and 7.4 in `Dependencies`**: the first is never
  used as a dependency (`libnghttp2` is), the others link what their plain
  variants link. They are in `Scripts`, and the log workflows in `Workflows`.
* **What Homebrew's own libraries depend on**, and macOS's: one wrong copy is
  enough for the properties.
* **The three diagnostic workflows**: they print and keep no state.
* **The contents of `Library`, `patch` and `php-src-backports`**: data. As state,
  `Library` is in `CreateLibs` (its `.pc` files) and in `Release` (its versions).
  `libgd.sh` applies a patch to the fresh tree; its failure is one of configure.
* **Tags that start nothing**: `icu-78-*` (`build-icu.yml:11`) does not match
  `icu-78.3`, nor `openssl-3.5-*` `openssl-3.5.7`, nor the globs of PHP 5.6 to 7.2
  any version. `Workflows` has this (`own` is FALSE), and
  `TagsStartTheirWorkflow` fails for them as it does in the run `glob`.
* **What the scripts print**: `php-7.3.sh:129`, for instance, names `PHP_VERSION`
  as installed although its tarball's name ignores it (line 19).
* **File names inside the logs** that the two log workflows release
  (`build-php-7.4-log.yml:49` looks in a directory that does not exist), and the
  steps of workflows that only print. Where such a step can fail, it is `Fail`.
* **Symbolic links that a promotion turns into nothing**: the committed `Library`
  holds the real `.dylib` files only.
* **Two scripts at once in one `build/` directory**: each script uses its own
  tarball and tree names, and nothing in the repository runs one twice at a time.

## 11. Plan

Done, in the order of what matters most:

1. `CreateLibs` with `LinkFarm`, `Scripts` and `BuildScript`, `Workflows` and
   `Release`, with their proofs.
2. `Dependencies` and `Linkage`, with the farm and the releases as far as linking
   depends on them.
3. `Installer`, which `BuildScript` implements for all scripts.
4. What follows from the invariants: bounds on the runs, what a rerun heals, the
   agreement of `Linkage` with `LinkFarm` and of `Release` with `BuildScript`, and the
   conditions under which the disputed notes are right.

Left, should the code grow that way: what GitHub does to the release of a
deleted tag (a draft that the next upload does not find), once a workflow relies
on it; and rerun convergence (a script run again and again, with a network, rights
and a deleted `build/`, ends in an installation) as liveness, which today's scripts
would need a retry for: `BadTarballStays` is proved.

## 12. Running the checks

From this directory:

    tlc -config MCCreateLibs.cfg MCCreateLibs
    tlc -config MCAllScripts.cfg MCBuildScript
    tlc -config MCWorkflows.cfg  MCRelease
    tlc -config MCLinkage.cfg    MCLinkage
    tlapm LinkFarm_proofs.tla
    tlapm CreateLibs_proofs.tla
    tlapm BuildScript_proofs.tla
    tlapm Release_proofs.tla
    tlapm Linkage_proofs.tla

`PROJECT.json` has all runs with their modules and configurations, which lines
of the code each definition models, the hazards, and the theorems.
