----------------------------- MODULE InnerBuild --------------------------------
(***************************************************************************)
(* crates/cosmo-build/src/driver.rs and lib.rs: a build script that builds  *)
(* its own package twice over, with a cargo of its own for each             *)
(* architecture, and fuses the pairs into APEs.  The processes are the      *)
(* outer cargo with the build script, the inner cargo, the linkers it runs  *)
(* side by side (assets/shim.rs), and the thread that echoes stderr; two     *)
(* outer cargos of one package run together when their profiles differ.     *)
(* The toolchain and the cache are other modules' (Cosmocc, BuildCache).    *)
(***************************************************************************)
EXTENDS Project, LinkDriver, FiniteSets

CONSTANTS
  Outers,      \* cargos a user starts
  DirOf,       \* DirOf[o]: the target directory, and profile, an outer cargo locks
  Packages,    \* the packages they may be started in: a function from names; entry is what
               \* build.rs calls, envs are the environments it may be run in
  Names,       \* the executables they have
  PipeSize,    \* what a pipe holds
  MaxRuns,     \* bound: how many outer cargos are started
  MaxEvents    \* bound: edits of the sources, deleted APEs and killed builds

ASSUME NamesAssumption ==
  \A p \in DOMAIN Packages :
    Packages[p].bins \union Packages[p].examples \union Packages[p].wants \subseteq Names
ASSUME PipeAssumption == PipeSize \in Nat \ {0}
ASSUME OutersAssumption == "cosmo-inner" \notin {DirOf[o] : o \in Outers}
ASSUME ApartAssumption ==  \* what stands for no name is no name
  /\ "nobody" \notin Outers
  /\ Names \intersect {"null", "out", "none"} = {}
ASSUME ArgumentsAssumption == \A p \in DOMAIN Packages : parse(Packages[p].toml) \in Seq(STRING)
ASSUME BoundsAssumption == MaxRuns \in Nat /\ MaxEvents \in 0..2

ARCHES == <<"x86_64", "aarch64">>
Arches == {"x86_64", "aarch64"}

VARIABLES
  project,    \* the package, which never changes but for its sources: its name, targets, what
              \* its manifest says to build and whether its graph goes with this crate
  seen,       \* seen[n]: what the gcc of an executable's link reads of rustc's line
  rlib,       \* rlib[arch]: a dependency with C in it, as cargo last compiled it; times are
              \* counted in compilations
  native,     \* native[arch]: the .native.a files: in place, or under a linker's own name
  binary,     \* binary[arch][n]: an executable
  com,        \* com[n]: target/cosmo/<profile>/n.com
  holder,     \* who holds the lock of a target directory
  ran,        \* ran[d]: the sources cargo takes the script for fresh of, in a target directory
  pc,         \* where each build script is
  args,       \* what the manifest says to build, as arguments of cargo
  arch,       \* the architecture it is at, an index of ARCHES
  found,      \* found[o][a]: the executables the inner cargo told it of
  halves,     \* what its apelink has read
  child,      \* where its inner cargo is
  stdout, stderr,  \* the pipes between them: executables, and lines of progress
  link,       \* link[n]: where the linker of an executable is
  runs, edits, events,
  disturbed,  \* history: builds that met an edit, a build that did, or another's failure
  promised    \* history: the last build to end was Ok and undisturbed, and nothing
              \* was changed since; or cargo has said Finished of a script that asks
              \* to be run always

package == <<project, seen>>
disk == <<rlib, native, binary, com>>
script == <<pc, args, arch, found, halves>>
inner == <<child, stdout, stderr, link>>
history == <<disturbed, promised, ran>>
bounds == <<runs, edits, events>>
vars == <<script, inner, holder, disk, history, bounds, package>>

-------------------------------------------------------------------------------

Sources == <<"v1", "v2", "v3">>
source == Sources[edits + 1]  \* the version of the sources

Package == Packages[project.name]
Dirs == {DirOf[o] : o \in Outers} \union {"cosmo-inner"}

Absent == [version |-> "none", time |-> 0]
NoBinary == [rust |-> "none", c |-> "none"]
NoCom == [is |-> "none", x86 |-> NoBinary, arm |-> NoBinary, by |-> "none"]

\* "skipped" is an outer cargo whose script returned without building, "kept" one that
\* took its script for fresh and said Finished.
Ended == {"idle", "ok", "err", "skipped", "kept", "dead"}
Running(o) == pc[o] \notin Ended

Goto(o, l) == pc' = [pc EXCEPT ![o] = l]

\* What cargo builds for the manifest's arguments: the targets named, or else every bin;
\* some targets exist for one architecture only.
Selected(of, says) ==
  LET named(flag) == {says[i + 1] : i \in {j \in 1..(Len(says) - 1) : says[j] = flag}}
      asked == (named("--bin") \intersect of.bins) \union (named("--example") \intersect of.examples)
  IN  IF \E i \in DOMAIN says : says[i] \in {"--bin", "--example"} THEN asked ELSE of.bins

Targets(o, a) ==
  Selected(project, args[o]) \ (IF a = "aarch64" THEN project.x86only ELSE {})

\* The directory the inner cargo locks: not the one the outer cargo holds.
inner_target_dir(o) == "cosmo-inner"

\* The environment the inner cargo hands to the build script it runs.
inner_env == [ape |-> "1", clippy |-> FALSE, inner |-> TRUE, paths |-> <<"unset", "unset", "unset">>]

-------------------------------------------------------------------------------
(* The build script.                                                          *)

NoHalves == [of |-> "none", x86 |-> NoBinary, arm |-> NoBinary]

\* A script's memory at its start and when it is gone.
Blank(o) ==
  /\ args' = [args EXCEPT ![o] = <<>>]
  /\ arch' = [arch EXCEPT ![o] = 1]
  /\ found' = [found EXCEPT ![o] = [a \in 1..2 |-> {}]]
  /\ halves' = [halves EXCEPT ![o] = NoHalves]
  /\ child' = [child EXCEPT ![o] = "none"]

\* cargo runs a script again whose package has changed, or that asked for a path which is
\* not there.
PackageFiles == {"Cargo.toml", "build.rs"}
FreshOf == IF rerun_if_changed(Package.entry) \subseteq PackageFiles THEN source ELSE "none"
Reruns(o) == ran[DirOf[o]] # source

\* What cargo keeps of a script that fails: nothing; one that called try_build_ape may
\* carry on with the host's build and be a success.
Remembers(o, how) ==
  IF how = "ok" THEN {ran[DirOf[o]]}
  ELSE {"none"} \union (IF Package.entry = "try_build_ape" THEN {ran[DirOf[o]]} ELSE {})

\* A script ends: its cargo lets go of the target directory.
Ends(o, how) ==
  /\ Goto(o, how)
  /\ Blank(o)
  /\ \E v \in Remembers(o, how) : ran' = [ran EXCEPT ![DirOf[o]] = v]
  /\ holder' = [holder EXCEPT ![DirOf[o]] = "nobody"]
  /\ promised' = (how = "ok" /\ o \notin disturbed)
  /\ disturbed' = (disturbed \ {o}) \union
                    (IF how = "ok" THEN {} ELSE {p \in Outers \ {o} : Running(p)})
  /\ UNCHANGED <<package, disk, stdout, stderr, link, bounds>>

\* The user starts a cargo, and it the script: apeify reads the manifest and declines,
\* or the build begins; or the script is fresh.
Start(o) ==
  /\ ~Running(o)
  /\ runs < MaxRuns
  /\ holder[DirOf[o]] = "nobody"
  /\ runs' = runs + 1
  /\ \/ /\ ~Reruns(o)
        /\ Goto(o, "kept")
        /\ promised' = (promised \/ Package.entry = "apeify")
        /\ UNCHANGED <<holder, args, disturbed, ran>>
     \/ /\ Reruns(o)
        /\ ran' = [ran EXCEPT ![DirOf[o]] = FreshOf]
        /\ \E env \in Package.envs :
             \/ /\ declines(Package.entry, env)
                /\ Goto(o, "skipped")
                /\ UNCHANGED <<holder, args, disturbed, promised>>
             \/ /\ ~declines(Package.entry, env)
                /\ Goto(o, "pair")
                /\ args' = [args EXCEPT ![o] = IF Package.entry = "apeify" THEN project.args
                                               ELSE <<>>]
                /\ holder' = [holder EXCEPT ![DirOf[o]] = o]
                /\ disturbed' = IF \E p \in disturbed : Running(p) THEN disturbed \union {o}
                                ELSE disturbed \ {o}
                /\ UNCHANGED promised
  /\ UNCHANGED <<package, disk, arch, found, halves, inner, edits, events>>

Pair(o) ==
  /\ pc[o] = "pair"
  /\ IF project.paired
     THEN Goto(o, "prepare") /\ UNCHANGED <<holder, history>>
          /\ UNCHANGED <<package, disk, args, arch, found, halves, inner, bounds>>
     ELSE Ends(o, "err")

\* The toolchain, the glue and the shim's object for this architecture, or an Err of theirs.
Refused(o) == pc[o] = "prepare" /\ Ends(o, "err")

\* cargo(): the inner cargo is spawned with two pipes, and a thread for one of them.
Spawn(o) ==
  /\ pc[o] = "prepare"
  /\ Goto(o, "reads")
  /\ child' = [child EXCEPT ![o] = "locks"]
  /\ stdout' = [stdout EXCEPT ![o] = <<>>]
  /\ stderr' = [stderr EXCEPT ![o] = 0]
  /\ UNCHANGED <<package, disk, holder, args, arch, found, halves, link, history, bounds>>

\* Mutant: null is taken for a name.
json_string_field_raw(line) == {line}

\* The executable a line of the JSON stream names, if it names one.
json_string_field(line) == {line} \ {"null"}

ReadStdout(o) ==
  /\ pc[o] = "reads"
  /\ stdout[o] # <<>>
  /\ stdout' = [stdout EXCEPT ![o] = Tail(@)]
  /\ found' = [found EXCEPT ![o][arch[o]] = @ \union json_string_field(Head(stdout[o]))]
  /\ UNCHANGED <<package, disk, holder, pc, args, arch, halves, child, stderr, link,
                 history, bounds>>

\* The thread takes a line whatever the script waits for.
Echo(o) ==
  /\ stderr[o] > 0
  /\ stderr' = [stderr EXCEPT ![o] = @ - 1]
  /\ UNCHANGED <<package, disk, holder, script, child, stdout, link, history, bounds>>

Gone == {"succeeded", "failed"}

\* stdout is at its end, the cargo is waited for and the thread joined.
Collect(o) ==
  /\ pc[o] = "reads"
  /\ child[o] \in Gone
  /\ stdout[o] = <<>> /\ stderr[o] = 0
  /\ IF child[o] = "failed" THEN Ends(o, "err")
     ELSE /\ IF arch[o] = 1
             THEN Goto(o, "prepare") /\ arch' = [arch EXCEPT ![o] = 2]
             ELSE Goto(o, "fuse") /\ UNCHANGED arch
          /\ UNCHANGED <<package, disk, holder, args, found, halves, child, stdout, stderr, link,
                         history, bounds>>

\* build() goes through the executables that both architectures have; found loses each
\* one as it is done.
Pairs(o) == found[o][1] \intersect found[o][2]

NothingBuilt(o) == pc[o] = "fuse" /\ Pairs(o) = {} /\ Ends(o, "err")

\* apelink opens both halves and truncates the .com.
Apelink(o) ==
  /\ pc[o] = "fuse"
  /\ \E n \in Pairs(o) :
       /\ Goto(o, "apelink")
       /\ halves' = [halves EXCEPT ![o] = [of |-> n, x86 |-> binary["x86_64"][n],
                                           arm |-> binary["aarch64"][n]]]
       /\ com' = [com EXCEPT ![n] = [is |-> "part", x86 |-> NoBinary, arm |-> NoBinary,
                                           by |-> o]]
  /\ UNCHANGED <<package, rlib, native, binary, holder, args, arch, found, inner,
                 history, bounds>>

\* It ends: a good APE, or one whose PE half is malformed, or an error.
Fused(o) ==
  /\ pc[o] = "apelink"
  /\ Goto(o, "pecheck")
  /\ \E verdict \in {"good", "bad"} :
       com' = [com EXCEPT ![halves[o].of] = [is |-> verdict, x86 |-> halves[o].x86,
                                             arm |-> halves[o].arm, by |-> o]]
  /\ UNCHANGED <<package, rlib, native, binary, holder, args, arch, found, halves, inner,
                 history, bounds>>

ApelinkFails(o) == pc[o] = "apelink" /\ Ends(o, "err")

\* Mutant: pecheck's exit code is not looked at.
accepts_any(n) == com[n].is # "none"

\* pecheck reads the file that is at the path now.
accepts(n) == com[n].is = "good"

Pecheck(o) ==
  /\ pc[o] = "pecheck"
  /\ LET n == halves[o].of
     IN  IF ~accepts(n) THEN Ends(o, "err")
         ELSE IF Pairs(o) = {n} THEN Ends(o, "ok")
         ELSE /\ Goto(o, "fuse")
              /\ found' = [found EXCEPT ![o][1] = @ \ {n}]
              /\ halves' = [halves EXCEPT ![o] = NoHalves]
              /\ UNCHANGED <<package, disk, holder, args, arch, inner, history, bounds>>

-------------------------------------------------------------------------------
(* The inner cargo, as the code in src/ uses it.                              *)

Child(o, l) == child' = [child EXCEPT ![o] = l]

TakesLock(o) ==
  /\ child[o] = "locks"
  /\ holder[inner_target_dir(o)] = "nobody"
  /\ holder' = [holder EXCEPT ![inner_target_dir(o)] = o]
  /\ Child(o, "script")
  /\ UNCHANGED <<package, disk, script, stdout, stderr, link, history, bounds>>

\* The package's build script, run again if it is not fresh: one that does not decline
\* starts a cargo that waits for the lock of the cargo it runs in, unless what it does
\* before that fails.
RunsAgain ==
  IF declines(Package.entry, inner_env) THEN {"compiles"}
  ELSE {"nested", "fails"} \union (IF Package.entry = "try_build_ape" THEN {"compiles"} ELSE {})

RunsScript(o) ==
  LET d == inner_target_dir(o) IN
  /\ child[o] = "script"
  /\ \/ /\ ran[d] = source
        /\ Child(o, "compiles")
        /\ UNCHANGED ran
     \/ /\ ran[d] # source
        /\ \E l \in RunsAgain :
             /\ Child(o, l)
             /\ ran' = [ran EXCEPT ![d] = IF l = "compiles" THEN FreshOf ELSE "none"]
  /\ UNCHANGED <<package, disk, holder, script, stdout, stderr, link, disturbed, promised, bounds>>

\* The cargo's architecture, and the executables it links.
ArchOf(o) == ARCHES[arch[o]]

Fresh(a, n) == binary[a][n] = [rust |-> source, c |-> source] /\ rlib[a].version = source

\* Everything but the executables, after a line of progress on stderr.
Compile(o) ==
  /\ child[o] = "compiles"
  /\ stderr[o] < PipeSize
  /\ stderr' = [stderr EXCEPT ![o] = @ + 1]
  /\ LET a == ArchOf(o)
     IN  \/ /\ Child(o, "links")
            /\ rlib' = IF rlib[a].version = source THEN rlib
                       ELSE [rlib EXCEPT ![a] = [version |-> source, time |-> @.time + 1]]
            /\ link' = [n \in Names |-> IF n \notin Targets(o, a) THEN "none"
                                        ELSE IF Fresh(a, n) THEN "linked" ELSE "look"]
         \/ /\ Child(o, "fails")
            /\ UNCHANGED <<rlib, link>>
  /\ UNCHANGED <<package, native, binary, com, holder, script, stdout,
                 history, bounds>>

\* An executable is linked, or was fresh: a line of the JSON stream.
Tells(o, n) ==
  /\ child[o] = "links"
  /\ link[n] = "linked"
  /\ Len(stdout[o]) < PipeSize
  /\ stdout' = [stdout EXCEPT ![o] = Append(@, n)]
  /\ link' = [link EXCEPT ![n] = "told"]
  /\ UNCHANGED <<package, disk, holder, script, child, stderr, history, bounds>>

\* A linker failed, and the others have come to an end.
GivesUp(o) ==
  /\ child[o] = "links"
  /\ \E n \in Names : link[n] = "failed"
  /\ \A n \in Names : link[n] \in {"none", "failed", "linked", "told"}
  /\ Child(o, "fails")
  /\ UNCHANGED <<package, disk, holder, script, stdout, stderr, link, history, bounds>>

\* It exits, with a last line on stdout (build-finished) or what went wrong on stderr.
Exits(o) ==
  /\ \/ /\ child[o] = "links"
        /\ \A n \in Names : link[n] \in {"none", "told"}
        /\ Len(stdout[o]) < PipeSize
        /\ stdout' = [stdout EXCEPT ![o] = Append(@, "null")]
        /\ Child(o, "succeeded")
        /\ UNCHANGED stderr
     \/ /\ child[o] = "fails"
        /\ stderr[o] < PipeSize
        /\ stderr' = [stderr EXCEPT ![o] = @ + 1]
        /\ Child(o, "failed")
        /\ UNCHANGED stdout
  /\ holder' = [holder EXCEPT ![inner_target_dir(o)] = "nobody"]
  /\ link' = [n \in Names |-> "none"]
  /\ UNCHANGED <<package, disk, script, history, bounds>>

-------------------------------------------------------------------------------
(* The linkers, one process for each executable: native_rlib, then gcc.       *)

Linking(n) == holder["cosmo-inner"] # "nobody" /\ child[holder["cosmo-inner"]] = "links"
LinkArch == ArchOf(holder["cosmo-inner"])

\* The name a linker makes its copy under.
tmp(n) == n

\* Mutant: a copy that is there will do.
up_to_date_any(a) == native[a]["out"].version # "none"

up_to_date(a) ==
  /\ native[a]["out"].version # "none"
  /\ native[a]["out"].time >= rlib[a].time

LinkGoes(n, l) == link' = [link EXCEPT ![n] = l]

\* The rlib's renamed copy is there and as new as the rlib, or it is made: objcopy has
\* opened its output.
Look(n) ==
  /\ Linking(n) /\ link[n] = "look"
  /\ IF up_to_date(LinkArch) THEN LinkGoes(n, "gcc") /\ UNCHANGED native
     ELSE /\ LinkGoes(n, "objcopy")
          /\ native' = [native EXCEPT ![LinkArch][tmp(n)] = [version |-> "part", time |-> rlib[LinkArch].time]]
  /\ UNCHANGED <<package, rlib, binary, com, holder, script, child, stdout, stderr,
                 history, bounds>>

Objcopy(n) ==
  /\ Linking(n) /\ link[n] = "objcopy"
  /\ \/ /\ LinkGoes(n, "rename")
        /\ native' = [native EXCEPT ![LinkArch][tmp(n)] =
                        rlib[LinkArch]]
     \/ /\ LinkGoes(n, "failed")
        /\ native' = [native EXCEPT ![LinkArch][tmp(n)] = Absent]
  /\ UNCHANGED <<package, rlib, binary, com, holder, script, child, stdout, stderr,
                 history, bounds>>

\* Into place; Windows will not replace a file that another linker has open, and then
\* the copy in place is taken.
Rename(n) ==
  /\ Linking(n) /\ link[n] = "rename"
  /\ LET a == LinkArch
         gone == [native[a] EXCEPT ![tmp(n)] = Absent]
     IN  \/ /\ LinkGoes(n, "gcc")
            /\ native' = [native EXCEPT ![a] = [gone EXCEPT !["out"] = native[a][tmp(n)]]]
         \/ /\ \E m \in Names \ {n} : link[m] = "gcc"
            /\ LinkGoes(n, IF native[a]["out"].version # "none" THEN "gcc" ELSE "failed")
            /\ native' = [native EXCEPT ![a] = gone]
  /\ UNCHANGED <<package, rlib, binary, com, holder, script, child, stdout, stderr,
                 history, bounds>>

\* gcc and fixupobj, on the line ld made of rustc's.
Gcc(n) ==
  /\ Linking(n) /\ link[n] = "gcc"
  /\ LET a == LinkArch
     IN  \/ /\ LinkGoes(n, "linked")
            /\ binary' = [binary EXCEPT ![a][n] =
                            [rust |-> rlib[a].version, c |-> native[a]["out"].version]]
         \/ /\ LinkGoes(n, "failed")
            /\ UNCHANGED binary
  /\ UNCHANGED <<package, rlib, native, com, holder, script, child, stdout, stderr,
                 history, bounds>>

-------------------------------------------------------------------------------
(* The user.                                                                  *)

Edit ==
  /\ events < MaxEvents
  /\ events' = events + 1
  /\ edits' = edits + 1
  /\ disturbed' = {o \in Outers : Running(o)}
  /\ promised' = FALSE
  /\ UNCHANGED <<package, rlib, native, binary, com, holder, ran, script, inner, runs>>

\* A .com is deleted between builds.
Delete(n) ==
  /\ events < MaxEvents
  /\ \A o \in Outers : ~Running(o)
  /\ com[n].is # "none"
  /\ events' = events + 1
  /\ com' = [com EXCEPT ![n] = NoCom]
  /\ promised' = FALSE
  /\ UNCHANGED <<package, rlib, native, binary, holder, ran, script, inner, disturbed,
                 runs, edits>>

\* A build is interrupted, with every process of it.
Kill(o) ==
  /\ events < MaxEvents
  /\ Running(o)
  /\ events' = events + 1
  /\ Goto(o, "dead")
  /\ Blank(o)
  /\ stdout' = [stdout EXCEPT ![o] = <<>>]
  /\ stderr' = [stderr EXCEPT ![o] = 0]
  /\ holder' = [d \in Dirs |-> IF holder[d] = o THEN "nobody" ELSE holder[d]]
  /\ ran' = [ran EXCEPT ![DirOf[o]] = "none"]
  /\ IF holder["cosmo-inner"] = o
     THEN link' = [n \in Names |-> "none"]
     ELSE UNCHANGED link
  /\ disturbed' = (disturbed \ {o}) \union {p \in Outers \ {o} : Running(p)}
  /\ promised' = FALSE
  /\ UNCHANGED <<package, disk, runs, edits>>

-------------------------------------------------------------------------------

Init ==
  /\ \E p \in DOMAIN Packages :
       project = [name |-> p, bins |-> Packages[p].bins, examples |-> Packages[p].examples,
                  x86only |-> Packages[p].x86only, args |-> parse(Packages[p].toml),
                  paired |-> check(Packages[p].dirs)]
  /\ seen = [n \in Names |-> gcc(ld(Package.lines[n]))]
  /\ rlib = [a \in Arches |-> Absent]
  /\ native = [a \in Arches |-> [f \in Names \union {"out"} |-> Absent]]
  /\ binary = [a \in Arches |-> [n \in Names |-> NoBinary]]
  /\ com = [n \in Names |-> NoCom]
  /\ holder = [d \in Dirs |-> "nobody"]
  /\ ran = [d \in Dirs |-> "none"]
  /\ pc = [o \in Outers |-> "idle"]
  /\ args = [o \in Outers |-> <<>>]
  /\ arch = [o \in Outers |-> 1]
  /\ found = [o \in Outers |-> [a \in 1..2 |-> {}]]
  /\ halves = [o \in Outers |-> NoHalves]
  /\ child = [o \in Outers |-> "none"]
  /\ stdout = [o \in Outers |-> <<>>]
  /\ stderr = [o \in Outers |-> 0]
  /\ link = [n \in Names |-> "none"]
  /\ runs = 0 /\ edits = 0 /\ events = 0
  /\ disturbed = {}
  /\ promised = FALSE

Script(o) ==
  \/ Pair(o) \/ Refused(o) \/ Spawn(o) \/ ReadStdout(o) \/ Collect(o)
  \/ NothingBuilt(o) \/ Apelink(o) \/ Fused(o) \/ ApelinkFails(o) \/ Pecheck(o)

Cargo(o) ==
  \/ TakesLock(o) \/ RunsScript(o) \/ Compile(o) \/ GivesUp(o) \/ Exits(o)
  \/ \E n \in Names : Tells(o, n)

Linker(n) == Look(n) \/ Objcopy(n) \/ Rename(n) \/ Gcc(n)

User == Edit \/ (\E o \in Outers : Start(o) \/ Kill(o)) \/ \E n \in Names : Delete(n)

Next ==
  \/ User
  \/ \E o \in Outers : Script(o) \/ Echo(o) \/ Cargo(o)
  \/ \E n \in Names : Linker(n)

Spec == Init /\ [][Next]_vars

\* As long as a process of a build can go on, one of them does: the script, its thread or
\* the cargo it started; and so for the linkers.  Nobody has to start, edit, delete or kill.
FairSpec ==
  /\ Spec
  /\ \A o \in Outers : WF_vars(Script(o) \/ Echo(o) \/ Cargo(o))
  /\ WF_vars(\E n \in Names : Linker(n))

-------------------------------------------------------------------------------

Versions == Range(Sources) \union {"none", "part"}
File == [version : Versions, time : Nat]
Binary == [rust : Versions, c : Versions]

\* Type invariant; a pipe never holds more than it can.
TypeOK ==
  /\ project.name \in DOMAIN Packages /\ project.paired \in BOOLEAN
  /\ rlib \in [Arches -> File]
  /\ native \in [Arches -> [Names \union {"out"} -> File]]
  /\ binary \in [Arches -> [Names -> Binary]]
  /\ com \in [Names -> [is : {"none", "part", "good", "bad"}, x86 : Binary, arm : Binary,
                        by : Outers \union {"none"}]]
  /\ holder \in [Dirs -> Outers \union {"nobody"}] /\ ran \in [Dirs -> Versions]
  /\ pc \in [Outers -> Ended \union {"pair", "prepare", "reads", "fuse", "apelink", "pecheck"}]
  /\ args \in [Outers -> Seq(STRING)]
  /\ arch \in [Outers -> 1..2]
  /\ found \in [Outers -> [1..2 -> SUBSET Names]]
  /\ halves \in [Outers -> [of : Names \union {"none"}, x86 : Binary, arm : Binary]]
  /\ child \in [Outers -> Gone \union {"none", "locks", "script", "compiles", "nested", "links",
                                    "fails"}]
  /\ \A o \in Outers : Len(stdout[o]) <= PipeSize /\ Range(stdout[o]) \subseteq Names \union {"null"}
  /\ stderr \in [Outers -> 0..PipeSize]
  /\ link \in [Names -> {"none", "look", "objcopy", "rename", "gcc", "linked", "failed", "told"}]
  /\ runs \in 0..MaxRuns /\ edits \in 0..MaxEvents /\ events \in 0..MaxEvents
  /\ disturbed \subseteq Outers /\ promised \in BOOLEAN

\* What the manifest's reader and the policy of lib.rs make of a package: the arguments of a
\* script that goes on to build select what the package wants.
ReadsAsWanted ==
  \A p \in DOMAIN Packages : \A env \in Packages[p].envs :
    ~declines(Packages[p].entry, env) =>
      Selected(Packages[p], IF Packages[p].entry = "apeify" THEN parse(Packages[p].toml) ELSE <<>>)
        = Packages[p].wants

\* cargo says Finished and an APE is what the sources say (driver.rs:41-47, lib.rs:191-195,
\* assets/shim.rs:248): once the last build to end ended Ok, having met no edit and no other
\* build's failure, every executable the manifest asks for and both architectures have is a
\* checked .com whose two halves, the C in them included, are of the present sources.  Of
\* apeify that is so whenever cargo says Finished; build_ape and try_build_ape print no
\* directive, and a .com deleted after their Ok build is not missed.
FinishedIsCurrent ==
  (promised /\ \A o \in Outers : ~Running(o)) =>
    \A n \in Package.wants \ project.x86only :
      /\ com[n].is = "good"
      /\ com[n].x86 = [rust |-> source, c |-> source]
      /\ com[n].arm = [rust |-> source, c |-> source]

\* A .com that is cut short or that pecheck would refuse is never what a build that ended
\* Ok left behind (driver.rs:255 leaves such a file in place, and reports it).
RefusedIsReported ==
  \A n \in Names : com[n].is \in {"part", "bad"} => pc[com[n].by] # "ok"

\* The arguments that say what to link and with which options.
InputKinds == {"object", "lto", "rlib", "copy", "compat", "archive", "flag", "@"}
InputsOf(line) ==
  FlattenSeq([i \in DOMAIN line |-> IF Kind(line[i]) \in InputKinds THEN <<line[i]>> ELSE <<>>])

\* What rustc hands over, response files opened: one output, the shim once, and no more than
\* one cosmo-compat besides; one inside an object is there only where no rlib is left.
RustcLine(line) ==
  LET are(kinds) == {i \in DOMAIN line : Kind(line[i]) \in kinds}
  IN  /\ line \in Seq(Seq(STRING) \ {<<>>})
      /\ are({"-o"}) # {}
      /\ \A i \in are({"-o"}) :
           IF Len(line[i]) > 1 THEN Tail(line[i]) = <<"a">>
           ELSE i < Len(line) /\ line[i + 1] = <<"a">>
      /\ \E i \in DOMAIN line : are({"inject"}) = {i}
      /\ \A i, j \in are({"compat", "lto"}) : i = j
      /\ are({"lto"}) # {} => are({"rlib"}) = {}

\* What a package's executables are linked from is what rustc names for them, native rlibs
\* by their copies.
LinesAsAsked ==
  \A p \in DOMAIN Packages, n \in Names :
    LET line == expand_response_files(Packages[p].lines[n])
    IN  /\ RustcLine(line)
        /\ Packages[p].links[n] = InputsOf([i \in DOMAIN line |-> native_rlib(line[i])])

\* What gcc reads of a link (assets/shim.rs:78-220): none of the arguments that fight
\* cosmo's model, however rustc handed them over; everything else rustc named, in its order
\* but for the shim; native rlibs by their copies; and one copy of the translators.
LinkedAsAsked ==
  \A n \in Names : link[n] = "linked" =>
    /\ InputsOf(seen[n]) = Package.links[n]
    /\ seen[n][2] = <<"a">>
    /\ \A i \in DOMAIN seen[n] : Kind(seen[n][i]) \notin Stripped
    /\ Cardinality({i \in DOMAIN seen[n] : Kind(seen[n][i]) \in {"inject", "compat", "lto"}}) = 1

\* A script that called try_build_ape runs again inside the build it started.
Recursing == Package.entry = "try_build_ape" /\ \E o \in Outers : child[o] = "nested"

\* Builds end (driver.rs:124, 147, lib.rs:201, 217): no inner cargo waits for the lock of the
\* cargo around it, or for a pipe that nobody reads, and two outer cargos wait for each other
\* only as long as the first one builds; but for a script that calls try_build_ape, and a
\* cargo that waits behind it.
BuildsEnd == \A o \in Outers : Running(o) ~> ~Running(o) \/ Recursing

\* Every build a user starts ends, whatever the script calls: "that pass must fall straight
\* through or the builds nest forever" (lib.rs:199-200), and try_build_ape is "Worth calling
\* directly from a build.rs" (lib.rs:227-228).
EveryBuildEnds == \A o \in Outers : Running(o) ~> ~Running(o)

==============================================================================
