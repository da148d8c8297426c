------------------------------ MODULE Scripts ------------------------------
(***************************************************************************)
(* The build scripts under mac_arm64/. They all walk through the same      *)
(* steps; a profile says which steps a script has and what it does there.  *)
(* Compiler flags, dependency paths and messages are left out.             *)
(***************************************************************************)
Kinds == {"lib", "bin", "share", "archive", "ini"}

Profile == [
    mkprefix  : BOOLEAN,  \* creates $PREFIX first, as the invoking user
    fetch     : {"lax",   \* curl -L: an error page is saved as the tarball
                 "strict"}, \* curl -fL: an HTTP error ends the script
    pinned    : BOOLEAN,  \* the tarball's name ignores $..._VERSION
    wipes     : BOOLEAN,  \* rm -rf reaches the tree of an earlier run
    lists     : BOOLEAN,  \* SRC_DIR=$(tar -t | head -1 ...) under pipefail
    clean     : BOOLEAN,  \* make clean || true
    configure : {"checked", \* a failure ends the script
                 "ignored", \* set +e, and the status is only logged
                 "none"},   \* the program has no configure step
    rootTree  : BOOLEAN,  \* configures and builds inside the tree with sudo
    sudo      : BOOLEAN,  \* installs with sudo
    archive   : {"installed", \* libX.a comes with make install
                 "appended",  \* ar cq, before anything else is installed
                 "copied"},   \* from a second build, after the clean-up
    strips    : SUBSET {"bin", "share"}, \* what is deleted after the installation
    sudoStrip : BOOLEAN,  \* deletes it with sudo
    ini       : BOOLEAN,  \* copies php.ini-* to a path that ignores $PREFIX
    runs      : BOOLEAN ] \* ends by running what it installed

\* A library with a configure script: the shape most scripts have.
Library == [
    mkprefix |-> FALSE, fetch |-> "lax", pinned |-> FALSE, wipes |-> TRUE,
    lists |-> FALSE, clean |-> TRUE, configure |-> "checked",
    rootTree |-> FALSE, sudo |-> TRUE, archive |-> "installed",
    strips |-> {"share"}, sudoStrip |-> TRUE, ini |-> FALSE, runs |-> FALSE ]

\* The libraries without dependencies, mac_arm64/base/.
argon2        == [Library EXCEPT !.configure = "none", !.strips = {}]
bzip2         == [Library EXCEPT !.configure = "none", !.strips = {},
                                 !.sudo = FALSE, !.archive = "appended"]
gmp           == [Library EXCEPT !.clean = FALSE, !.sudo = FALSE]
libiconv      == [Library EXCEPT !.sudo = FALSE, !.strips = {}]
libjpeg_turbo == [Library EXCEPT !.clean = FALSE, !.sudo = FALSE]
libzip        == [Library EXCEPT !.clean = FALSE]
oniguruma     == [Library EXCEPT !.strips = {}]
openssl_1_1   == [Library EXCEPT !.fetch = "strict", !.sudo = FALSE]
openssl_3_5   == [Library EXCEPT !.sudo = FALSE]
pcre2         == [Library EXCEPT !.sudo = FALSE]
zlib          == [Library EXCEPT !.sudo = FALSE]

\* The libraries with dependencies, mac_arm64/.
Strict       == [Library EXCEPT !.fetch = "strict", !.clean = FALSE]
brotli        == [Strict EXCEPT !.rootTree = TRUE, !.archive = "copied"]
curl          == Strict
freetype      == [Library EXCEPT !.fetch = "strict"]
icu           == [Library EXCEPT !.mkprefix = TRUE, !.fetch = "strict",
                                 !.sudo = FALSE]
krb5          == Strict
libgd         == [Library EXCEPT !.fetch = "strict"]
libnghttp2    == [Strict EXCEPT !.strips = {}]
libnghttp3    == Strict
libngtcp2     == Strict
libpng        == Library
libpq         == [Library EXCEPT !.strips = {"bin", "share"}]
libssh2       == Strict
libwebp       == [Strict EXCEPT !.rootTree = TRUE, !.archive = "copied"]
libxml2       == Library
libxml2_2_11  == Library
\* lz4 and zstd go over the installed .pc with `sudo sed -i' (lz4.sh:41-43,
\* zstd.sh:67-69): the end of the installation, which may fail when every file
\* has been copied (Break in BuildScript).
lz4           == [Strict EXCEPT !.configure = "none"]
nghttp2       == [Library EXCEPT !.sudo = FALSE, !.strips = {}]
xz            == Strict
zstd          == Strict

\* PHP, mac_arm64/php/. The old scripts install without sudo and delete
\* share; the new ones copy the two php.ini templates.
OldPhp        == [Library EXCEPT !.sudo = FALSE, !.sudoStrip = FALSE,
                                 !.runs = TRUE]
php_5_6       == OldPhp
php_7_0       == OldPhp
php_7_1       == OldPhp
php_7_2       == [OldPhp EXCEPT !.strips = {}]
NewPhp        == [Library EXCEPT !.strips = {}, !.ini = TRUE, !.runs = TRUE]
Backport      == [NewPhp EXCEPT !.pinned = TRUE, !.lists = TRUE]
php_7_3       == Backport
php_7_3_log   == [NewPhp EXCEPT !.configure = "ignored"]
php_7_4       == Backport
php_7_4_log   == Backport
php_8_0       == [Backport EXCEPT !.wipes = FALSE]
php_8_1       == NewPhp
php_8_2       == NewPhp
php_8_3       == NewPhp
php_8_4       == NewPhp
php_8_5       == NewPhp

\* The servers, mac_arm64/server/.
mysql_5_7     == [Library EXCEPT !.fetch = "strict", !.clean = FALSE,
                                 !.strips = {}, !.runs = TRUE]
nginx         == [Library EXCEPT !.strips = {}]
redis_7_2     == [Library EXCEPT !.configure = "none", !.strips = {}]

Programs == {
    php_5_6, php_7_0, php_7_1, php_7_2, php_7_3, php_7_3_log, php_7_4,
    php_7_4_log, php_8_0, php_8_1, php_8_2, php_8_3, php_8_4, php_8_5,
    mysql_5_7, nginx, redis_7_2 }

AllScripts == {
    argon2, bzip2, gmp, libiconv, libjpeg_turbo, libzip, oniguruma,
    openssl_1_1, openssl_3_5, pcre2, zlib,
    brotli, curl, freetype, icu, krb5, libgd, libnghttp2, libnghttp3,
    libngtcp2, libpng, libpq, libssh2, libwebp, libxml2, libxml2_2_11, lz4,
    nghttp2, xz, zstd } \cup Programs
=============================================================================
