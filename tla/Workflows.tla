----------------------------- MODULE Workflows -----------------------------
(***************************************************************************)
(* The workflows .github/workflows/build-*.yml.  Each one starts on a tag  *)
(* or by hand, prepares a fresh machine, runs one build script, packs      *)
(* $PREFIX and uploads the result to the release of a tag.  A profile says *)
(* in which ways a workflow differs from the others.                       *)
(***************************************************************************)
Workflow == [
    own      : BOOLEAN,  \* its glob matches <name>-<version>, its own tags
    sub      : BOOLEAN,  \* its glob matches another workflow's tags as well
    input    : BOOLEAN,  \* a start by hand names the tag to release to
    prepares : BOOLEAN,  \* copies the committed Library to the machine
    kept     : BOOLEAN,  \* what it releases is committed to Library
    passes   : BOOLEAN,  \* its version reaches the build script
    script   : BOOLEAN,  \* the script it runs exists
    named    : BOOLEAN,  \* the asset's name contains its version
    logs     : BOOLEAN ] \* releases the logs, also of a failed build

\* A library without dependencies.
Standalone == [
    own |-> TRUE, sub |-> FALSE, input |-> TRUE, prepares |-> FALSE,
    kept |-> TRUE, passes |-> TRUE, script |-> TRUE, named |-> TRUE,
    logs |-> FALSE ]

argon2        == Standalone
bzip2         == Standalone
gmp           == Standalone
libiconv      == Standalone
libjpeg_turbo == Standalone
oniguruma     == Standalone
openssl_1_1   == Standalone
pcre2         == Standalone
zlib          == Standalone
\* The globs icu-78-* and openssl-3.5-* match neither icu-78.3 nor openssl-3.5.7.
icu           == [Standalone EXCEPT !.own = FALSE]
openssl_3_5   == [Standalone EXCEPT !.own = FALSE]
\* There is no mac_arm64/base/nghttp2.sh.
nghttp2       == [Standalone EXCEPT !.script = FALSE]

\* A library that is built against others.
Dependent == [Standalone EXCEPT !.prepares = TRUE]

brotli        == Dependent
curl          == Dependent
freetype      == Dependent
krb5          == Dependent
libgd         == Dependent
\* LIBNGHTTP2_VERSION and LIBNGHTTP3_VERSION are not what the scripts read.
libnghttp2    == [Dependent EXCEPT !.passes = FALSE]
libnghttp3    == [Dependent EXCEPT !.passes = FALSE]
libngtcp2     == Dependent
libpng        == Dependent
libpq         == Dependent
libssh2       == Dependent
libwebp       == Dependent
\* libxml2-* matches the tags of libxml2-2.11 too.
libxml2       == [Dependent EXCEPT !.sub = TRUE]
libxml2_2_11  == Dependent
libzip        == Dependent
lz4           == Dependent
xz            == Dependent
zstd          == Dependent

\* A program, which is not committed.
Program == [Dependent EXCEPT !.kept = FALSE, !.named = FALSE]
\* The glob php-d.d.* matches no version.
OldPhp        == [Program EXCEPT !.own = FALSE, !.named = TRUE]
php_5_6       == OldPhp
php_7_0       == OldPhp
php_7_1       == OldPhp
php_7_2       == OldPhp
\* Started by hand only, from a tarball whose name is written out.
Backport      == [Program EXCEPT !.own = FALSE, !.passes = FALSE]
php_7_3       == Backport
php_7_4       == [Backport EXCEPT !.input = FALSE]
php_8_0       == Backport
php_7_3_log   == [Backport EXCEPT !.passes = TRUE, !.logs = TRUE]
php_7_4_log   == [Backport EXCEPT !.logs = TRUE]
php_8_1       == Program
php_8_2       == Program
php_8_3       == Program
php_8_4       == Program
php_8_5       == Program
mysql_5_7     == Program
nginx         == Program
redis_7_2     == Program

AllWorkflows == {
    argon2, bzip2, gmp, libiconv, libjpeg_turbo, oniguruma, openssl_1_1,
    openssl_3_5, pcre2, zlib, icu, nghttp2,
    brotli, curl, freetype, krb5, libgd, libnghttp2, libnghttp3, libngtcp2,
    libpng, libpq, libssh2, libwebp, libxml2, libxml2_2_11, libzip, lz4, xz,
    zstd,
    php_5_6, php_7_0, php_7_1, php_7_2, php_7_3, php_7_3_log, php_7_4,
    php_7_4_log, php_8_0, php_8_1, php_8_2, php_8_3, php_8_4, php_8_5,
    mysql_5_7, nginx, redis_7_2 }
=============================================================================
