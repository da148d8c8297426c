------------------------------ MODULE Linkage ------------------------------
(***************************************************************************)
(* Which copy of its dependencies a library or program is linked against,  *)
(* and what becomes of that when libraries are rebuilt one by one, each by *)
(* a workflow run that works on the commit it was started for, and their   *)
(* releases are committed to Library later, in any order.                  *)
(*                                                                         *)
(* Builds are numbered.  A commit says which build of each library is in   *)
(* Library; a build records which build of each dependency it has linked.  *)
(***************************************************************************)
EXTENDS Naturals, FiniteSets

CONSTANTS
    Nets,       \* sets of products (module Dependencies), uses restricted to each other
    Names,      \* names of products
    Pcs,        \* names of .pc files
    Rank,       \* the order in which create-libs.sh visits the libraries
    Slips,      \* directories a script may name wrongly
    Brewed,     \* what Homebrew has installed on the build machine
    None,       \* no build
    MaxBuilds,  \* bound: builds that are under way or have succeeded
    MaxEdits    \* bound: commits

Hows == {"given", "file", "farm", "found", "release"}
Uses == [of : Names \cup Pcs, how : Hows]
Products == [name : Names, uses : SUBSET Uses, pcs : SUBSET Pcs,
             sees : BOOLEAN, kept : BOOLEAN, runs : BOOLEAN]

\* Every use is of another product of P. One outside the compiler's own search
\* path needs the committed Library on the machine; only programs take one from
\* a release.
Coherent(P) ==
    /\ \A p, q \in P : p.name = q.name => p = q
    /\ \A p \in P : \A u \in p.uses :
          /\ IF u.how = "farm" THEN \E q \in P : u.of \in q.pcs
                               ELSE \E q \in P : u.of = q.name
          /\ u.how \in {"given", "file", "farm"} => p.sees
          /\ u.how = "release" => ~p.kept
WellFormed(P) == P \subseteq Products /\ Coherent(P)

ASSUME LinkageAssumption ==
    /\ \A P \in Nets : WellFormed(P)
    /\ Names \cap Pcs = {} /\ Rank \in [Names -> Nat]
    /\ Slips \subseteq [by : Names, of : Names]
    /\ Brewed \subseteq Names \cup Pcs
    /\ MaxBuilds \in Nat /\ MaxEdits \in Nat /\ None \notin Nat

\* There are finitely many libraries; of two that offer one name, create-libs.sh
\* visits one first.
ASSUME RankAssumption ==
    \A P \in Nets : IsFiniteSet(P) /\ \A p, q \in P :
        p.pcs \cap q.pcs # {} /\ Rank[p.name] = Rank[q.name] => p = q

VARIABLES
    net,     \* the products considered
    master,  \* the newest commit
    asset,   \* asset[n]: the build in product n's release
    builds,  \* builds[i]: the i-th build
    edits    \* number of commits made

vars == <<net, master, asset, builds, edits>>

Ids  == 1..MaxBuilds
Libs == {p.name : p \in net}

Commit == [lib    : [Libs -> Ids \cup {None}], \* Library/<name>
           farm   : SUBSET (Pcs \X Libs),      \* the links in Library/lib/pkgconfig
           linked : SUBSET (Pcs \X Libs), \* history: what they offered when it was made
           wrong  : SUBSET Slips] \* directories the scripts name wrongly

\* A copy of a dependency: a build that was in Library or in a release,
\* Homebrew's, or macOS's (or none).
Copy   == [of : Libs, from : {"library"}, id : Ids] \cup
          [of : Libs \cup Pcs, from : {"brew", "system"}, id : {None}]
Build  == [at     : {"running", "built", "done"},
           of     : Products,
           src    : Commit \cup {None}, \* the commit it runs on, while it links
           links  : SUBSET Copy,
           pcs    : SUBSET Pcs,       \* the .pc files it has installed
           proper : BOOLEAN,      \* history: nothing fell back, here or below
           missed : SUBSET Libs] \* history: which of what it links changed since it began

Free   == [at |-> "free"]

Used == {i \in Ids : builds[i].at # "free"}
Present(c) == {l \in Libs : c.lib[l] # None}

Committed(c, l) == [of |-> l, from |-> "library", id |-> c.lib[l]]
Elsewhere(n, place) == [of |-> n, from |-> place, id |-> None]

\* The files are those of the build that is in Library: another one may bring
\* names, or leave some out.
Provides(c, l, n) == l \in Present(c) /\ n \in builds[c.lib[l]].pcs
Offered(c) == {x \in Pcs \X Libs : Provides(c, x[2], x[1])}

\* The library whose file the farm's link for n should lead to.
Wins(c, l, n) == /\ Provides(c, l, n)
                 /\ \A k \in Libs : Provides(c, k, n) => Rank[k] <= Rank[l]

\* The same for when create-libs.sh was last run.
WonThen(c, l, n) == /\ <<n, l>> \in c.linked
                    /\ \A k \in Libs : <<n, k>> \in c.linked => Rank[k] <= Rank[l]
Upheld(c, n) == \A l \in Libs : Wins(c, l, n) <=> WonThen(c, l, n)

Init ==
    /\ net \in Nets
    /\ \E W \in SUBSET {s \in Slips : \E p, q \in net : p.name = s.by /\ q.name = s.of} :
          master = [lib |-> [l \in Libs |-> None], farm |-> {}, linked |-> {}, wrong |-> W]
    /\ asset = [n \in Libs |-> None]
    /\ builds = [i \in Ids |-> Free]
    /\ edits = 0

-----------------------------------------------------------------------------
(* The developer.                                                          *)

Edit(commit) == edits < MaxEdits /\ edits' = edits + 1 /\ master' = commit

\* Build b may yet link library l, or has linked it.
Concerns(b, l) == b.at = "running" \/ \E r \in b.links : r.of = l

\* Library/l changes: what was begun before has not seen that.
Replace(l, id) ==
    /\ Edit([master EXCEPT !.lib[l] = id])
    /\ builds' = [i \in Ids |-> IF i \in Used /\ Concerns(builds[i], l)
                                THEN [builds[i] EXCEPT !.missed = @ \cup {l}]
                                ELSE builds[i]]
    /\ UNCHANGED <<net, asset>>

Promote(p) == /\ p \in net /\ p.kept
              /\ asset[p.name] \notin {None, master.lib[p.name]}
              /\ Replace(p.name, asset[p.name])

Remove(l) == l \in Present(master) /\ Replace(l, None)

\* create-libs.sh, and a commit of the links; a link whose name no library
\* provides any more is left as it is (LinkFarm!Relinked).
M_Relink ==
    /\ Edit([master EXCEPT
          !.linked = Offered(master),
          !.farm = {x \in Pcs \X Libs :
                      /\ Provides(master, x[2], x[1])
                      /\ \A k \in Libs : Provides(master, k, x[1]) => Rank[x[2]] <= Rank[k]}
                     \cup {x \in @ : \A l \in Libs : ~Provides(master, l, x[1])}])
    /\ UNCHANGED <<net, asset, builds>>
Relink ==
    /\ Edit([master EXCEPT
          !.linked = Offered(master),
          !.farm = {x \in Pcs \X Libs : Wins(master, x[2], x[1])}
                     \cup {x \in @ : \A l \in Libs : ~Provides(master, l, x[1])}])
    /\ UNCHANGED <<net, asset, builds>>

\* A script's path is corrected, or a library gets another directory.
EditScript(s) ==
    /\ \E p, q \in net : p.name = s.by /\ q.name = s.of
    /\ Edit([master EXCEPT !.wrong = IF s \in @ THEN @ \ {s} ELSE @ \cup {s}])
    /\ UNCHANGED <<net, asset, builds>>

-----------------------------------------------------------------------------
(* A workflow run.                                                         *)

M_Begin(p) ==
    /\ p \in net /\ p.runs
    /\ \E i \in Ids \ Used :
          /\ \A j \in Ids : j < i => j \in Used
          /\ builds' = [builds EXCEPT ![i] =
                [at |-> "running", of |-> p,
                 src |-> [master EXCEPT !.lib = [l \in Libs |->
                             IF asset[l] # None THEN asset[l] ELSE @[l]]],
                 links |-> {}, pcs |-> {}, proper |-> FALSE, missed |-> {}]]
    /\ UNCHANGED <<net, master, asset, edits>>
Begin(p) ==
    /\ p \in net /\ p.runs
    /\ \E i \in Ids \ Used :
          /\ \A j \in Ids : j < i => j \in Used
          /\ builds' = [builds EXCEPT ![i] =
                [at |-> "running", of |-> p, src |-> master,
                 links |-> {}, pcs |-> {}, proper |-> FALSE, missed |-> {}]]
    /\ UNCHANGED <<net, master, asset, edits>>

Searched(n) == {Elsewhere(n, "system")} \cup
               (IF n \in Brewed THEN {Elsewhere(n, "brew")} ELSE {})

IsWrong(b, u) == [by |-> b.of.name, of |-> u.of] \in b.src.wrong

\* The copies that build b may come upon for use u. A directory that is not
\* there is passed over in silence (PKG_CONFIG_PATH, -L), and so is a link whose
\* file is gone; a library's own file is not.
M_Finds(b, u) ==
    LET here == IF u.of \in Present(b.src) THEN {Committed(b.src, u.of)} ELSE {}
        linked == {Committed(b.src, l) :
                     l \in {k \in Libs : Provides(b.src, k, u.of) /\ <<u.of, k>> \in b.src.farm}}
    IN CASE u.how = "given" -> Searched(u.of) \cup here
         [] u.how = "file"  -> here
         [] u.how = "farm"  -> IF linked = {} THEN Searched(u.of) ELSE linked
         [] u.how = "found" -> Searched(u.of) \cup (IF b.of.sees THEN here ELSE {})
         [] OTHER -> {[of |-> u.of, from |-> "library", id |-> i] :
                        i \in {asset[u.of]} \ {None}}
Finds(b, u) ==
    LET here == IF u.of \in Present(b.src) THEN {Committed(b.src, u.of)} ELSE {}
        linked == {Committed(b.src, l) :
                     l \in {k \in Libs : Provides(b.src, k, u.of) /\ <<u.of, k>> \in b.src.farm}}
    IN CASE u.how = "given" -> IF here = {} \/ IsWrong(b, u) THEN Searched(u.of) ELSE here
         [] u.how = "file"  -> here
         [] u.how = "farm"  -> IF linked = {} THEN Searched(u.of) ELSE linked
         [] u.how = "found" -> Searched(u.of) \cup (IF b.of.sees THEN here ELSE {})
         [] OTHER -> {[of |-> u.of, from |-> "library", id |-> i] :
                        i \in {asset[u.of]} \ {None}}

\* What linking the copies D may record besides: what they have linked, each
\* looked up anew (2026-06-20.md:42-44).
Inherited(b, D) ==
    LET below == UNION {builds[x.id].links : x \in {y \in D : y.from = "library"}}
    IN {r \in below : r.from # "library"} \cup
       {Committed(b.src, r.of) :
          r \in {q \in below : q.from = "library" /\ q.of \in Present(b.src)}}

\* The developer has done what it takes for use u: script, Library and farm of
\* the commit are in order, and Homebrew has nothing to offer where the script
\* gives no path.
InOrder(b, u) ==
    CASE u.how = "given" -> u.of \in Present(b.src) /\ ~IsWrong(b, u)
      [] u.how = "farm"  -> /\ Upheld(b.src, u.of)
                            /\ \E l \in Libs : Wins(b.src, l, u.of)
      [] u.how = "found" -> u.of \notin Brewed
      [] OTHER -> TRUE

Links(b) ==
    LET options == UNION {Finds(b, u) : u \in b.of.uses}
    IN UNION {{D \cup I : I \in SUBSET Inherited(b, D)} :
                D \in {C \in SUBSET options :
                         \A u \in b.of.uses : C \cap Finds(b, u) # {}}}

Link(i) ==
    /\ i \in Used /\ builds[i].at = "running"
    /\ \E L \in Links(builds[i]), F \in SUBSET builds[i].of.pcs :
          builds' = [builds EXCEPT
              ![i].at = "built", ![i].src = None, ![i].links = L, ![i].pcs = F,
              ![i].missed = {l \in @ : \E r \in L : r.of = l},
              ![i].proper = /\ \A u \in builds[i].of.uses : InOrder(builds[i], u)
                            /\ \A r \in L : r.from = "library" => builds[r.id].proper]
    /\ UNCHANGED <<net, master, asset, edits>>

\* The upload replaces the asset of that name (in two steps, see Release).
Upload(i) ==
    /\ i \in Used /\ builds[i].at = "built"
    /\ asset' = [asset EXCEPT ![builds[i].of.name] = i]
    /\ builds' = [builds EXCEPT ![i].at = "done"]
    /\ UNCHANGED <<net, master, edits>>

\* A run that fails leaves nothing, and takes the old asset along if that
\* happens between the two steps of the upload.
M_Fail(i) ==
    /\ i \in Used /\ builds[i].at # "done"
    /\ builds' = [builds EXCEPT ![i].at = "failed"]
    /\ \/ UNCHANGED asset
       \/ /\ builds[i].at = "built"
          /\ asset' = [asset EXCEPT ![builds[i].of.name] = None]
    /\ UNCHANGED <<net, master, edits>>
Fail(i) ==
    /\ i \in Used /\ builds[i].at # "done"
    /\ builds' = [builds EXCEPT ![i] = Free]
    /\ \/ UNCHANGED asset
       \/ /\ builds[i].at = "built"
          /\ asset' = [asset EXCEPT ![builds[i].of.name] = None]
    /\ UNCHANGED <<net, master, edits>>

Next == \/ Relink
        \/ \E s \in Slips : EditScript(s)
        \/ \E l \in Libs : Remove(l)
        \/ \E p \in net : Promote(p) \/ Begin(p)
        \/ \E i \in Ids : Link(i) \/ Upload(i) \/ Fail(i)

Spec == Init /\ [][Next]_vars

-----------------------------------------------------------------------------
(* Properties.                                                             *)

\* The commits, the releases and the builds.
TypeOK ==
    /\ net \in Nets /\ master \in Commit
    /\ asset \in [Libs -> Ids \cup {None}]
    /\ builds \in [Ids -> Build \cup {Free}]
    /\ edits \in 0..MaxEdits

\* A build has nothing of Homebrew's in its load commands if its dependencies
\* were built properly before it and the commit it ran on was in order, however
\* many runs, promotions and edits of scripts went on meanwhile. This is what
\* the repair of 2026-06-20.md:46-48 relies on.
ProperIsClean ==
    \A i \in Used : builds[i].proper => \A r \in builds[i].links : r.from # "brew"

\* S is a set of committed libraries with all they have linked, and each run
\* began when the committed copies of those were in place already.
Rebuilt(S) ==
    \A l \in S :
        LET b == builds[master.lib[l]] IN
        /\ b.proper
        /\ \A r \in b.links : r.from = "library" => r.of \in S /\ r.of \notin b.missed

\* Libraries that were rebuilt in the order of their dependencies
\* (2026-06-18.md:25-27) load, all the way down, the very copies they were
\* linked against, and nothing of Homebrew's.
RebuiltChainLoads ==
    \A S \in SUBSET Present(master) : Rebuilt(S) =>
        \A l \in S : \A r \in builds[master.lib[l]].links :
            /\ r.from # "brew"
            /\ r.from = "library" => master.lib[r.of] = r.id

\* The links are committed apart from the libraries, and nothing runs
\* create-libs.sh when a library is replaced. Libraries come and go, and their
\* replacements bring .pc files or leave some out: the link of a name still leads
\* where the script would put it as long as the library that the script visits
\* last, of those that provide the name, is the one it was then.
FarmStaysRight ==
    \A n \in Pcs : Upheld(master, n) =>
        \A l \in Libs :
            Wins(master, l, n) <=> <<n, l>> \in master.farm /\ Provides(master, l, n)

\* The committed links, seen as the link farm of create-libs.sh.
LinkTo(n) == IF \E l \in Libs : <<n, l>> \in master.farm
             THEN CHOOSE l \in Libs : <<n, l>> \in master.farm ELSE None
Links0 == [n \in Pcs |-> LinkTo(n)]

LF == INSTANCE LinkFarm WITH
        Libs <- Names, Names <- Pcs, Plain <- "plain",
        pcs <- [l \in Names |-> IF l \in Present(master)
                                 THEN {n \in Pcs : Provides(master, l, n)} ELSE {}],
        farm <- Links0, farm0 <- Links0, phase <- "rest", stale <- FALSE

\* The one step that Relink takes for a whole run of create-libs.sh does to the
\* committed links what the script promises of a successful run (module
\* LinkFarm, which CreateLibs implements), whatever libraries have come, gone
\* and left their links behind before (create-libs.sh:40-73).
RelinkKeepsPromise ==
    [][Relink => \A old \in {Links0} : LF!RelinkedFrom(old)']_vars

\* MEMORY.md:40-41: if A has linked the wrong B, all libraries that depend on A
\* record that B too; so otool -L on a library shows what it loads.
DependentsShowIt ==
    \A l, a \in Present(master) :
        (\E r \in builds[master.lib[l]].links : r.from = "library" /\ r.of = a) =>
            \A b \in builds[master.lib[a]].links :
                b.from = "brew" => b \in builds[master.lib[l]].links
=============================================================================
