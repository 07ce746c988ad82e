---------------------------- MODULE MCInnerBuild -------------------------------
(***************************************************************************)
(* Instances of InnerBuild for TLC: seven packages, two cargos whose        *)
(* profiles share cosmo-inner, and the link lines of two executables.       *)
(***************************************************************************)
EXTENDS InnerBuild

MCVersion == <<10, 0, 0>>

Path(p) == [ape |-> "unset", clippy |-> FALSE, inner |-> FALSE, paths |-> p]
Building == Path(<<"unset", "artifacts", "unset">>)
Checking == Path(<<"deps", "unset", "unset">>)
Declined == [Checking EXCEPT !.ape = "0"]

MCDirOf == [o \in Outers |-> o]

-------------------------------------------------------------------------------
(* Cargo.toml and Cargo.lock.                                                 *)

Line(form, name, strings, remark, opens, closes) ==
  [form |-> form, name |-> name, strings |-> strings, remark |-> remark,
   opens |-> opens, closes |-> closes]
Header(name) == Line("header", name, <<>>, <<>>, FALSE, TRUE)

NoTable == <<Header("package"), Line("key", "bin", <<"demo">>, <<>>, FALSE, FALSE)>>

\* example = [ "app",      # and "other"
\*    "demo", ]
ArrayTable ==
  <<Header("package.metadata.cosmo"),
    Line("key", "example", <<"app">>, <<"other">>, TRUE, FALSE),
    Line("blank", "", <<>>, <<"demo">>, FALSE, FALSE),
    Line("items", "", <<"demo">>, <<>>, FALSE, TRUE),
    Line("key", "license", <<"demo">>, <<>>, FALSE, FALSE),
    Header("dependencies"),
    Line("key", "example", <<"other">>, <<>>, FALSE, FALSE)>>

\* bin = ["app", "demo"], and an argument of its own.
BinsTable ==
  <<Header("package.metadata.cosmo"),
    Line("key", "args", <<"--no-default-features">>, <<>>, TRUE, TRUE),
    Line("key", "bin", <<"app", "demo">>, <<>>, TRUE, TRUE)>>

NoLock == [lock |-> "none", lines |-> <<>>]
Lock(compat) ==
  LET line(is, name, version) == [is |-> is, name |-> name, version |-> version]
  IN  [lock |-> "text",
       lines |-> <<line("[[package]]", "", <<>>), line("name", "ext", <<>>),
                   line("version", "", <<1, 0>>), line("dependencies", "", <<>>)>>
                 \o IF compat = <<>> THEN <<>>
                    ELSE <<line("[[package]]", "", <<>>), line("name", "cosmo-compat", <<>>),
                           line("version", "", compat)>>]

-------------------------------------------------------------------------------
(* Link lines.                                                                *)

A(kind) == <<kind>>
Main == <<"object", "m">>
Std == <<"rlib", "s">>
Dep == <<"rlib", "d", " ", "r">>
DepCopy == <<"copy", "d", " ", "r">>
Compat == <<"compat", "c">>
Lto == <<"lto", "\\", "m">>
Zlib == <<"archive", "'", "z">>
Inject == <<"inject", "i">>
Flag == <<"flag", "g">>

MCNatives == {Tail(Dep)}

Private == <<A("relro"), Main, A("pie"), A("-o"), <<"a">>, Std, Dep, A("libc"), Flag, Inject,
             A("nostdlib")>>
Brings == <<<<"-o", "a">>, Main, Dep, Compat, A("libc"), Inject, Zlib>>
Merged == <<Inject, A("-o"), <<"a">>, Lto, A("dynamic"), Zlib>>

\* The same, as rustc hands it over when it is long: quoted in one file, escaped in another
\* that the first one names.
MCResponseFiles ==
  LET first == <<"r">>  second == <<"s">>
  IN  first :> <<"\"", "object", "m", "\"", " ", "relro", "\n", "@", "s", "\n">>
      @@ second :> response_file(<<A("-o"), <<"a">>, Dep, Zlib, A("libc"), Inject>>)
InFile == <<A("fuse-ld"), <<"@", "r">>, <<"@", "x">>>>

-------------------------------------------------------------------------------

Pack(bins, examples, x86only, toml, wants, dirs, envs, app, app_links, demo, demo_links) ==
  [bins |-> bins, examples |-> examples, x86only |-> x86only, toml |-> toml, wants |-> wants,
   dirs |-> dirs, entry |-> "apeify", envs |-> envs,
   lines |-> [n \in {"app", "demo"} |-> IF n = "app" THEN app ELSE demo],
   links |-> [n \in {"app", "demo"} |-> IF n = "app" THEN app_links ELSE demo_links]]

OfPrivate == <<Main, Std, DepCopy, Flag>>
OfFile == <<Main, DepCopy, Zlib, <<"@", "x">>>>

\* A program; a library with examples, one for one architecture; a program of two bins
\* with fat LTO; a library that names nothing; one with another major of cosmo-compat; the
\* program with a build.rs that calls build_ape or try_build_ape whatever cargo does.
Plain == Pack({"app"}, {"demo"}, {}, NoTable, {"app"}, <<NoLock, Lock(<<>>)>>,
              {Building, Checking},
                 Private, OfPrivate, Private, OfPrivate)
Library == Pack({}, {"app", "demo"}, {"demo"}, ArrayTable, {"app", "demo"},
                   <<[lock |-> "unreadable", lines |-> <<>>], Lock(<<9, 0, 0>>)>>,
                {Building},
                   InFile, OfFile, Brings, <<Main, DepCopy, Compat, Zlib>>)
Pair2 == Pack({"app", "demo"}, {}, {}, BinsTable, {"app", "demo"},
                 <<Lock(<<10, 2, 0>>)>>, {Building}, Merged, <<Lto, Zlib>>, InFile, OfFile)
Nameless == Pack({}, {"demo"}, {}, NoTable, {}, <<NoLock>>, {Building},
                    Private, OfPrivate, Private, OfPrivate)
Mismatched == [Plain EXCEPT !.dirs = <<NoLock, Lock(<<9, 1, 0>>)>>]

Always == [Plain EXCEPT !.entry = "build_ape", !.envs = {Declined}]
Direct == [Always EXCEPT !.entry = "try_build_ape"]

MCPackages ==
  [plain |-> Plain, library |-> Library, pair |-> Pair2, nameless |-> Nameless,
   mismatched |-> Mismatched, always |-> Always, direct |-> Direct]
OnlyDirect == [direct |-> Direct]

\* What the proofs suppose of packages holds of these.
ASSUME WantsAssumption == ReadsAsWanted
ASSUME LinesAssumption == LinesAsAsked
==============================================================================
