----------------------------- MODULE MCRelease -----------------------------
(***************************************************************************)
(* Small instances of Release: each version installs a file of its own,    *)
(* one with the version in its name, beside the one they share.            *)
(***************************************************************************)
EXTENDS Release, TLC

SmallFiles == {"core"} \cup Versions
SmallShips == [v \in Versions |-> {"core", v}]

\* Nothing but its own file tells one version from another.
VersionSymmetry == Permutations(Versions)

OneNghttp == {libnghttp2}
OneXml    == {libxml2}
OneBrotli == {brotli}
OnePhp    == {php_8_1}
=============================================================================
