--------------------------- MODULE MCCreateLibs ---------------------------
(* Two libraries with the two kinds of overlap: both ship openssl.pc, and   *)
(* each ships a name of its own.                                            *)
EXTENDS CreateLibs

SmallLibs  == {"openssl@1.1", "openssl@3.5"}
SmallNames == {"openssl.pc", "libssl.pc", "*"}
SmallShips == [l \in SmallLibs |-> IF l = "openssl@1.1" THEN {"openssl.pc"}
                                   ELSE SmallNames \ {"*"}]
\* `lib' sorts before both.
SmallRank  == [d \in SmallLibs \cup {"lib"} |->
                 CASE d = "lib" -> 0 [] d = "openssl@1.1" -> 1 [] OTHER -> 2]
===========================================================================
