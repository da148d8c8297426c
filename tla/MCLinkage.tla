------------------------------ MODULE MCLinkage ------------------------------
(***************************************************************************)
(* Small instances of Linkage: products with two of their dependencies.    *)
(***************************************************************************)
EXTENDS Linkage

D == INSTANCE Dependencies

\* Among all products, every dependency is one of them.
ASSUME Coherent(D!AllProducts)

\* Products that use only one another, with the .pc names that one of them asks for.
Only(P) ==
    LET Asked == {u.of : u \in UNION {q.uses : q \in P}}
    IN {[p EXCEPT !.uses = {u \in @ : \E q \in P : u.of = q.name \/ u.of \in q.pcs},
                  !.pcs = @ \cap Asked] : p \in P}

Chain     == Only({D!Curl, D!Ngtcp2, D!Ssl35})   \* the case of 2026-06-20.md
SmallNets == {Chain,
              Only({D!Php84, D!Ssl11, D!Ssl35}), \* two providers of one .pc name
              Only({D!Mysql57, D!Ssl11}),        \* a library from a release
              Only({D!Zip, D!Zlib, D!Xz}),       \* a library named by its file
              Only({D!Webp, D!Zlib}),            \* one found without a path
              Only({D!Php56, D!Jpeg})}           \* one that its script misnames to this day
Fonts     == {Only({D!Gd, D!Freetype, D!Brotli})} \* a dependency of a dependency

NetNames == {p.name : p \in UNION (SmallNets \cup Fonts)}
NetPcs   == UNION {p.pcs : p \in UNION (SmallNets \cup Fonts)}
NetSlips == {s \in D!Misnamed : s.by \in NetNames /\ s.of \in NetNames}

\* Homebrew's libraries on the build machine; of zlib it keeps no links.
SomeBrewed == {"openssl@3.5", "openssl.pc", "brotli", "libjpeg-turbo"}

\* create-libs.sh visits libxml2 and openssl@1.1 first.
LastOfTwo == [n \in NetNames |-> IF n \in {"libxml2@2.11", "openssl@3.5"} THEN 1 ELSE 0]
=============================================================================
