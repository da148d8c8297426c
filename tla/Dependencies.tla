---------------------------- MODULE Dependencies ----------------------------
(***************************************************************************)
(* What the build scripts link, and how each tells its build where a       *)
(* dependency is.  A product is a library or a program with its workflow;  *)
(* a use is one dependency of it.                                          *)
(***************************************************************************)
LOCAL INSTANCE Workflows

How == {"given",   \* by a directory: $X_PREFIX, -L, --with-x=DIR, CMAKE_PREFIX_PATH
        "file",    \* by the path of the library file itself
        "farm",    \* by its .pc name, through Library/lib/pkgconfig
        "found",   \* not at all: whatever the compiler or configure comes across
        "release"} \* unpacked from another workflow's release before the build

Via(how, names) == {[of |-> n, how |-> how] : n \in names}

\* A product: what it uses, the .pc names it adds to the farm (of those that
\* a script asks the farm for), and three facts about its workflow.
Product(name, flow, uses, pcs) ==
    [name |-> name, uses |-> uses, pcs |-> pcs,
     sees    |-> flow.prepares,  \* the committed Library is on its machine
     kept    |-> flow.kept,      \* what it releases is committed to Library
     runs    |-> flow.script]    \* its script exists

\* Libraries without dependencies.
Base(name, flow, pcs) == Product(name, flow, {}, pcs)

Argon2   == Base("argon2", argon2, {})
Bzip2    == Base("bzip2", bzip2, {})
Gmp      == Base("gmp", gmp, {})
Iconv    == Base("libiconv", libiconv, {})
Jpeg     == Base("libjpeg-turbo", libjpeg_turbo, {})
Onig     == Base("oniguruma", oniguruma, {"oniguruma.pc"})
Ssl11    == Base("openssl@1.1", openssl_1_1, {"openssl.pc"})
Ssl35    == Base("openssl@3.5", openssl_3_5, {"openssl.pc"})
Zlib     == Base("zlib", zlib, {"zlib.pc"})
Icu      == Base("icu", icu, {"icu-uc.pc"})
Brotli   == Base("brotli", brotli, {})
Nghttp2  == Base("libnghttp2", libnghttp2, {})
Nghttp3  == Base("libnghttp3", libnghttp3, {})
Lz4      == Base("lz4", lz4, {})
Xz       == Base("xz", xz, {})
Pcre2    == Product("pcre2", pcre2, Via("found", {"zlib", "bzip2"}), {})

\* Libraries that are built against others.
Curl     == Product("curl", curl,
                Via("given", {"openssl@3.5", "brotli", "zstd", "libnghttp2",
                              "libnghttp3", "libngtcp2", "libssh2"})
                  \cup Via("found", {"zlib", "krb5"}),
                {"libcurl.pc"})
Freetype == Product("freetype", freetype,
                Via("given", {"zlib", "bzip2", "libpng", "brotli"}), {})
Krb5     == Product("krb5", krb5, Via("given", {"openssl@3.5"}), {})
Gd       == Product("libgd", libgd,
                Via("given", {"freetype", "libjpeg-turbo", "libpng", "libwebp"})
                  \cup Via("found", {"zlib"}),
                {"gdlib.pc"})
Ngtcp2   == Product("libngtcp2", libngtcp2, Via("given", {"openssl@3.5"}), {})
Png      == Product("libpng", libpng, Via("given", {"zlib"}), {})
Pq       == Product("libpq", libpq,
                Via("given", {"openssl@3.5", "icu", "krb5", "curl"}), {})
Ssh2     == Product("libssh2", libssh2, Via("given", {"openssl@3.5", "zlib"}), {})
Webp     == Product("libwebp", libwebp,
                Via("given", {"libpng", "libjpeg-turbo"}) \cup Via("found", {"zlib"}), {})
Xml      == Product("libxml2", libxml2, Via("given", {"zlib"}), {"libxml-2.0.pc"})
Xml211   == Product("libxml2@2.11", libxml2_2_11, Via("given", {"zlib"}), {"libxml-2.0.pc"})
Zip      == Product("libzip", libzip,
                Via("file", {"zlib", "bzip2"}) \cup Via("given", {"xz", "zstd"}),
                {"libzip.pc"})
Zstd     == Product("zstd", zstd,
                Via("given", {"lz4", "xz"}) \cup Via("found", {"zlib"}), {})

\* PHP up to 7.2 is given every directory.
GivenPhp(name, flow) == Product(name, flow,
    Via("given", {"bzip2", "curl", "freetype", "gmp", "libiconv", "openssl@1.1",
                  "libpq", "libxml2", "libjpeg-turbo", "libpng", "zlib"}), {})
Php56 == GivenPhp("php-5.6", php_5_6)
Php70 == GivenPhp("php-7.0", php_7_0)
Php71 == GivenPhp("php-7.1", php_7_1)
Php72 == LET p == GivenPhp("php-7.2", php_7_2)
         IN [p EXCEPT !.uses = @ \cup Via("given", {"argon2"})]
Php73 == Product("php-7.3", php_7_3,
    Via("given", {"bzip2", "libiconv", "libpq", "libjpeg-turbo", "libpng",
                  "libwebp", "freetype", "libxml2@2.11", "zlib"})
      \cup Via("farm", {"icu-uc.pc"}), {})

\* From 7.4 on configure asks pkg-config for most of them.
FarmPhp(name, flow, given, farm) == Product(name, flow,
    Via("given", {"bzip2", "gmp", "libiconv", "libpq"} \cup given)
      \cup Via("farm", {"libcurl.pc", "openssl.pc", "gdlib.pc", "libxml-2.0.pc",
                        "libzip.pc", "zlib.pc", "oniguruma.pc"} \cup farm), {})
Php74 == FarmPhp("php-7.4", php_7_4, {"argon2"}, {"icu-uc.pc"})
Php80 == FarmPhp("php-8.0", php_8_0, {"argon2"}, {"icu-uc.pc"})
Php81 == FarmPhp("php-8.1", php_8_1, {"argon2"}, {"icu-uc.pc"})
Php82 == FarmPhp("php-8.2", php_8_2, {"argon2"}, {"icu-uc.pc"})
Php83 == FarmPhp("php-8.3", php_8_3, {"argon2"}, {})
Php84 == FarmPhp("php-8.4", php_8_4, {}, {"icu-uc.pc"})
Php85 == FarmPhp("php-8.5", php_8_5, {}, {"icu-uc.pc"})

Mysql57 == Product("mysql-5.7", mysql_5_7, Via("release", {"openssl@1.1"}), {})
Nginx   == Product("nginx", nginx, Via("given", {"pcre2", "openssl@3.5", "zlib"}), {})
Redis72 == Product("redis-7.2", redis_7_2, Via("given", {"openssl@3.5"}), {})

AllProducts == {
    Argon2, Bzip2, Gmp, Iconv, Jpeg, Onig, Ssl11, Ssl35, Zlib, Icu, Brotli,
    Nghttp2, Nghttp3, Lz4, Xz, Pcre2, Curl, Freetype, Krb5, Gd, Ngtcp2, Png,
    Pq, Ssh2, Webp, Xml, Xml211, Zip, Zstd, Php56, Php70, Php71, Php72, Php73,
    Php74, Php80, Php81, Php82, Php83, Php84, Php85, Mysql57, Nginx, Redis72 }

\* The directories that a script has named wrongly: libngtcp2.sh:12 until June
\* 2026 (2026-06-20.md:41), --with-jpeg-dir of the old PHPs to this day.
Misnamed == {[by |-> "libngtcp2", of |-> "openssl@3.5"]} \cup
            {[by |-> b, of |-> "libjpeg-turbo"] :
               b \in {"php-5.6", "php-7.0", "php-7.1", "php-7.2"}}
=============================================================================
