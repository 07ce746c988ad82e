----------------------------- MODULE LinkDriver --------------------------------
(***************************************************************************)
(* crates/cosmo-build/assets/shim.rs as rustc's linker: what ld makes of    *)
(* rustc's link line, and how a line too long for the host travels in a     *)
(* response file.  An argument is a sequence: its first element says what   *)
(* kind of argument it is, as its first letters or its extension do, and    *)
(* the characters of its name follow.                                       *)
(***************************************************************************)
EXTENDS Naturals, SequencesExt

CONSTANTS
  RESPONSE_FILE_AT,  \* the size from which a line goes through a response file
  ResponseFiles,     \* what the files rustc wrote hold: a function from names to texts
  Natives            \* names of the rlibs that carry native objects

ASSUME ResponseFileAssumption == RESPONSE_FILE_AT \in Nat

-------------------------------------------------------------------------------
(* Response files: characters in, arguments out.                              *)

Escaped == {"\\", "\"", "'", " ", "\n"}

\* The text gcc writes: escaped arguments, a line each.
response_file(line) ==
  FlattenSeq([i \in DOMAIN line |->
                FlattenSeq([j \in DOMAIN line[i] |->
                              IF line[i][j] \in Escaped THEN <<"\\", line[i][j]>>
                              ELSE <<line[i][j]>>]) \o <<"\n">>])

\* One character of libiberty's buildargv: a backslash escapes the next one everywhere,
\* quotes group, whitespace separates.
SplitChar(s, c) ==
  CASE s.escape -> [s EXCEPT !.cur = Append(@, c), !.escape = FALSE]
    [] ~s.escape /\ c = "\\" -> [s EXCEPT !.escape = TRUE, !.started = TRUE]
    [] ~s.escape /\ c # "\\" /\ s.quote # "none" ->
         IF c = s.quote THEN [s EXCEPT !.quote = "none"] ELSE [s EXCEPT !.cur = Append(@, c)]
    [] ~s.escape /\ s.quote = "none" /\ c \in {"'", "\""} ->
         [s EXCEPT !.quote = c, !.started = TRUE]
    [] ~s.escape /\ s.quote = "none" /\ c \in {" ", "\n"} ->
         IF s.started THEN [s EXCEPT !.out = Append(@, s.cur), !.cur = <<>>, !.started = FALSE]
         ELSE s
    [] OTHER -> [s EXCEPT !.cur = Append(@, c), !.started = TRUE]

split_response_file(text) ==
  LET end == FoldLeft(SplitChar,
                      [out |-> <<>>, cur |-> <<>>, started |-> FALSE, quote |-> "none",
                       escape |-> FALSE], text)
  IN  IF end.started THEN Append(end.out, end.cur) ELSE end.out

\* Every @file by the arguments it holds, nested ones too; an @ that names no file stays.
expand_response_files(args) ==
  LET expand[line \in Seq(Seq(STRING))] ==
        FlattenSeq([i \in DOMAIN line |->
          IF line[i] # <<>> /\ line[i][1] = "@" /\ Tail(line[i]) \in DOMAIN ResponseFiles
          THEN expand[split_response_file(ResponseFiles[Tail(line[i])])]
          ELSE <<line[i]>>])
  IN  expand[args]

\* What gcc is started with, and reads, for a line: itself, or a response file of it.
Size(line) == FoldLeft(LAMBDA n, a : n + Len(a) + 1, 0, line)
gcc(line) ==
  IF Size(line) < RESPONSE_FILE_AT THEN line
  ELSE split_response_file(response_file(line))

-------------------------------------------------------------------------------
(* ld: strip what fights cosmo's model, one copy of the shim, the renamed     *)
(* copies of native rlibs, and cosmo's own CRT and libc around the rest.      *)

\* -pie, -z relro and now, -z defs, the C library's parts, -fuse-ld=, dynamic
\* linking, and what -nostdlib implies.
Stripped == {"pie", "relro", "defs", "libc", "fuse-ld", "dynamic", "nostdlib"}

Kind(a) == IF a = <<>> THEN "empty" ELSE a[1]

\* One argument: -o takes the next one, -oNAME has it; the rest is kept unless stripped.
Takes(s, a) ==
  CASE s.needs -> [s EXCEPT !.output = a, !.needs = FALSE]
    [] ~s.needs /\ Kind(a) = "-o" /\ Len(a) = 1 -> [s EXCEPT !.needs = TRUE]
    [] ~s.needs /\ Kind(a) = "-o" /\ Len(a) > 1 -> [s EXCEPT !.output = Tail(a)]
    [] ~s.needs /\ Kind(a) \in Stripped -> s
    [] OTHER -> [s EXCEPT !.rest = Append(@, a)]

\* Mutant: the filter sees the line before the response files are opened.
reconcile_unexpanded(args) ==
  FoldLeft(Takes, [output |-> <<>>, rest |-> <<>>, needs |-> FALSE], args)

reconcile(args) ==
  FoldLeft(Takes, [output |-> <<>>, rest |-> <<>>, needs |-> FALSE], expand_response_files(args))

\* The program brings a cosmo-compat of its own: as an rlib, or, where fat LTO left no
\* rlib, inside an object that defines __wrap_open.
explicit(rest) ==
  \/ \E i \in DOMAIN rest : Kind(rest[i]) = "compat"
  \/ /\ \A i \in DOMAIN rest : Kind(rest[i]) \notin {"rlib", "compat"}
     /\ \E i \in DOMAIN rest : Kind(rest[i]) = "lto"

\* The private shim object goes last, or away.
with_shim(rest) ==
  LET at == SelectInSeq(rest, LAMBDA a : Kind(a) = "inject")
      others == RemoveAt(rest, at)
  IN  IF at = 0 THEN rest
      ELSE IF explicit(others) THEN others ELSE Append(others, rest[at])

\* An rlib with native objects by its renamed copy.
native_rlib(a) ==
  IF Kind(a) = "rlib" /\ Tail(a) \in Natives THEN <<"copy">> \o Tail(a) ELSE a

\* The line for gcc; empty when there is no -o, and ld dies.
ld(args) ==
  LET line == reconcile(args)
      rest == with_shim(line.rest)
  IN  IF line.output = <<>> THEN <<>>
      ELSE <<<<"-o">>, line.output, <<"crt">>, <<"static">>, <<"wraps">>>>
             \o [i \in DOMAIN rest |-> native_rlib(rest[i])] \o <<<<"libcosmo">>>>
==============================================================================
