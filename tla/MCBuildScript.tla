--------------------------- MODULE MCBuildScript ---------------------------
(***************************************************************************)
(* Small instances of BuildScript: one version at two places, and an       *)
(* upgrade between two versions, of which the older ships a file the newer *)
(* does not.                                                               *)
(***************************************************************************)
EXTENDS BuildScript

SmallFiles == {"core", "old", "man", "a", "tpl"}
SmallKind == [core |-> "lib", old |-> "lib", man |-> "share",
              a |-> "archive", tpl |-> "ini"]
TwoShips  == [v \in {"v1", "v2"} |-> IF v = "v1" THEN SmallFiles ELSE SmallFiles \ {"old"}]

FewFiles == SmallFiles \ {"old"}
FewKind  == [f \in FewFiles |-> SmallKind[f]]
OneShips == [v \in {"v2"} |-> FewFiles]

\* The scripts that keep most from one run to the next.
Upgraded == {bzip2, brotli, openssl_3_5}
=============================================================================
