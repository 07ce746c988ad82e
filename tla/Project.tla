------------------------------- MODULE Project --------------------------------
(***************************************************************************)
(* What cosmo-build reads before it builds anything: lib.rs's policy, from  *)
(* the environment; manifest.rs, from Cargo.toml; pairing.rs, from          *)
(* Cargo.lock.  A line of a file is a record of what its scan tells apart.  *)
(***************************************************************************)
EXTENDS Naturals, SequencesExt

CONSTANT Version  \* this crate's version, CARGO_PKG_VERSION, as numbers

ASSUME VersionAssumption == Version \in Seq(Nat) /\ Version # <<>>

-------------------------------------------------------------------------------
(* lib.rs: the environment of a build script.  paths holds what the first     *)
(* entry of each of the three dynamic search paths is, "unset" when there is  *)
(* no such variable.                                                          *)

Environments ==
  [ape : {"unset", "0", "false", "no", "1"}, clippy : BOOLEAN, inner : BOOLEAN,
   paths : [1..3 -> {"unset", "artifacts", "deps"}]]

\* The first search path that is set decides.
is_metadata_only(env) ==
  \/ env.clippy
  \/ \E k \in 1..3 :
       /\ env.paths[k] = "deps"
       /\ \A j \in 1..(k - 1) : env.paths[j] = "unset"

wanted(env) ==
  IF env.ape = "unset" THEN ~is_metadata_only(env) ELSE env.ape \notin {"0", "false", "no"}

\* What a build.rs may call: apeify (or apeify_with), build_ape (or build_ape_with), or
\* try_build_ape, which hands its failure back.
Entries == {"apeify", "build_ape", "try_build_ape"}

\* Mutant: only the policy is asked.
declines_policy(entry, env) == entry = "apeify" /\ ~wanted(env)

\* What they return from without building: try_build_ape asks for nothing.
declines(entry, env) ==
  \/ entry \in {"apeify", "build_ape"} /\ env.inner
  \/ entry = "apeify" /\ ~wanted(env)

\* Mutant: nobody prints the directive.
rerun_if_changed_never(entry) == {}

\* The paths a script asks cargo to watch: apeify's one never exists, the others ask
\* for none.
rerun_if_changed(entry) == IF entry = "apeify" THEN {".cosmo-always-rerun"} ELSE {}

-------------------------------------------------------------------------------
(* manifest.rs.  A line's form is a header of a table, a key with its value,  *)
(* more items of an array, or blank; strings are the quoted ones, remark      *)
(* those in a comment behind them.                                            *)

\* Drop a trailing comment, quotes in it included.
strip_comment(line) == [line EXCEPT !.remark = <<>>]

quoted(line) == line.strings \o line.remark

flag_values(flag, line) ==
  FlattenSeq([i \in DOMAIN quoted(line) |->
                IF flag = "" THEN <<quoted(line)[i]>> ELSE <<flag, quoted(line)[i]>>])

Keys == {"example", "bin", "features", "args"}
FlagOf == [example |-> "--example", bin |-> "--bin", features |-> "--features", args |-> ""]

\* One line of the scan: s.out the arguments so far, s.inside the table is ours,
\* s.pending the flag of an array that is still open.
Scan(s, raw) ==
  LET line == strip_comment(raw)
      Emits(flag) == [s EXCEPT !.out = @ \o flag_values(flag, line)]
  IN  CASE line.form = "blank" -> s
        [] line.form # "blank" /\ s.pending # "none" ->
             [Emits(s.pending) EXCEPT !.pending = IF line.closes THEN "none" ELSE @]
        [] line.form = "header" /\ s.pending = "none" ->
             [s EXCEPT !.inside = (line.name = "package.metadata.cosmo")]
        [] line.form \in {"key", "items"} /\ s.pending = "none" ->
             IF ~s.inside \/ line.form = "items" \/ line.name \notin Keys THEN s
             ELSE [Emits(FlagOf[line.name]) EXCEPT
                     !.pending = IF line.opens /\ ~line.closes THEN FlagOf[line.name] ELSE @]

parse(toml) == FoldLeft(Scan, [out |-> <<>>, inside |-> FALSE, pending |-> "none"], toml).out

-------------------------------------------------------------------------------
(* pairing.rs.  dirs[1] is the package's directory, dirs[2] the one above it, *)
(* each with what Cargo.lock is there.                                        *)

find_lock(dirs) == SelectInSeq(dirs, LAMBDA d : d.lock # "none")

\* The version in the first block that the name claims.
locked_version(lines, want) ==
  FoldLeft(LAMBDA s, line :
             CASE s.found # <<>> -> s
               [] s.found = <<>> /\ line.is = "[[package]]" -> [s EXCEPT !.in_package = FALSE]
               [] s.found = <<>> /\ line.is = "name" -> [s EXCEPT !.in_package = (line.name = want)]
               [] s.found = <<>> /\ line.is = "version" ->
                    IF s.in_package THEN [s EXCEPT !.found = line.version] ELSE s
               [] OTHER -> s,
           [found |-> <<>>, in_package |-> FALSE], lines).found

major(version) == Head(version)

\* TRUE when the graph's cosmo-compat goes with this crate, or cannot be told.
check(dirs) ==
  LET at == find_lock(dirs)
      theirs == IF at = 0 \/ dirs[at].lock = "unreadable" THEN <<>>
                ELSE locked_version(dirs[at].lines, "cosmo-compat")
  IN  theirs = <<>> \/ major(theirs) = major(Version)
==============================================================================
