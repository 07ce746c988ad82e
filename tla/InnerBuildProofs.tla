--------------------------- MODULE InnerBuildProofs ----------------------------
(***************************************************************************)
(* Proofs about InnerBuild, for any number of cargos that share            *)
(* cosmo-inner, packages, executables and pipes.                           *)
(***************************************************************************)
EXTENDS InnerBuild, FoldProofs, FiniteSetTheorems

-------------------------------------------------------------------------------
(* The invariant, in parts.                                                    *)

Cutting == {"apelink", "pecheck"}
Fusing == Cutting \union {"fuse"}
Locked == {"script", "compiles", "nested", "links", "fails"}

\* The package stays what it was.
Fixed ==
  /\ project.name \in DOMAIN Packages
  /\ project.bins = Package.bins /\ project.examples = Package.examples
  /\ project.args = parse(Package.toml)

Disk ==
  /\ rlib \in [Arches -> File]
  /\ native \in [Arches -> [Names \union {"out"} -> File]]
  /\ binary \in [Arches -> [Names -> Binary]]
  /\ com \in [Names -> [is : {"none", "part", "good", "bad"}, x86 : Binary, arm : Binary,
                        by : Outers \union {"none"}]]

Processes ==
  /\ holder \in [Dirs -> Outers \union {"nobody"}]
  /\ pc \in [Outers -> Ended \union {"pair", "prepare", "reads", "fuse", "apelink", "pecheck"}]
  /\ arch \in [Outers -> 1..2]
  /\ found \in [Outers -> [1..2 -> SUBSET Names]]
  /\ halves \in [Outers -> [of : Names \union {"none"}, x86 : Binary, arm : Binary]]
  /\ child \in [Outers -> Gone \union {"none", "locks", "script", "compiles", "nested", "links",
                                    "fails"}]
  /\ stdout \in [Outers -> Seq(Names \union {"null"})]
  /\ \A o \in Outers : Len(stdout[o]) <= PipeSize
  /\ stderr \in [Outers -> 0..PipeSize]
  /\ link \in [Names -> {"none", "look", "objcopy", "rename", "gcc", "linked", "failed", "told"}]
  /\ DOMAIN args = Outers

Counts ==
  /\ runs \in 0..MaxRuns /\ events \in 0..MaxEvents /\ edits \in 0..events
  /\ promised \in BOOLEAN

\* cargo takes no script for fresh that asked for a path which is not there.
Memory ==
  /\ ran \in [Dirs -> Versions]
  /\ Package.entry = "apeify" => \A d \in Dirs : ran[d] = "none"

\* cosmo-inner is its cargo's from when it has waited for it until it exits.
Turns == \A o \in Outers : child[o] \in Locked <=> holder["cosmo-inner"] = o

\* A script and its cargo go together, and what one leaves is cleared for the next.
Phase(o) ==
  /\ ~Running(o) \/ pc[o] = "pair" => child[o] = "none" /\ arch[o] = 1
  /\ pc[o] = "prepare" => child[o] = (IF arch[o] = 1 THEN "none" ELSE "succeeded")
  /\ pc[o] = "reads" => child[o] # "none"
  /\ pc[o] \in Fusing => child[o] = "succeeded" /\ arch[o] = 2
  /\ pc[o] # "reads" => stdout[o] = <<>>
  /\ ~Running(o) => found[o] = [a \in 1..2 |-> {}]
  /\ pc[o] \in Cutting => halves[o].of \in Pairs(o)

\* What a cargo tells of is what it was asked for, all of it when it succeeds.
Telling(o) ==
  /\ Running(o) => Selected(project, args[o]) = Package.wants
  /\ \A a \in 1..2 : found[o][a] \subseteq Targets(o, ARCHES[a])
  /\ Range(stdout[o]) \subseteq Targets(o, ArchOf(o)) \union {"null"}
  /\ child[o] = "links" =>
       \A n \in Names :
         /\ link[n] # "none" <=> n \in Targets(o, ArchOf(o))
         /\ link[n] = "told" => n \in found[o][arch[o]] \union Range(stdout[o])
  /\ pc[o] = "reads" /\ child[o] = "succeeded" =>
       Targets(o, ArchOf(o)) \subseteq found[o][arch[o]] \union Range(stdout[o])
  /\ pc[o] \in {"prepare", "reads"} /\ arch[o] = 2 => Targets(o, "x86_64") \subseteq found[o][1]

\* The copy in place is older than the rlib, or it is the rlib's.
CopyIsOld(a) ==
  native[a]["out"].version # "none" =>
    native[a]["out"].time < rlib[a].time \/ native[a]["out"] = rlib[a]

\* A linker past its copy has one of the rlib, and an executable is of the rlib and its copy.
LinksWith(n, a) ==
  /\ link[n] = "rename" => native[a][n] = rlib[a]
  /\ link[n] = "gcc" => native[a]["out"] = rlib[a]
  /\ link[n] \in {"linked", "told"} => binary[a][n] = [rust |-> rlib[a].version, c |-> rlib[a].version]

Copies ==
  /\ \A a \in Arches : CopyIsOld(a)
  /\ \A o \in Outers : child[o] = "links" => \A n \in Names : LinksWith(n, ArchOf(o))

\* The APEs of the package: what it asks for and both architectures have.
Wanted == Package.wants \ project.x86only

\* A .com that is cut short or refused is one its writer has yet to come to in its next
\* build, if it has not come to it in this.
Refusal(n) ==
  com[n].is \in {"part", "bad"} =>
    LET o == com[n].by IN
    /\ o \in Outers /\ n \in Wanted /\ pc[o] # "ok"
    /\ pc[o] \in Fusing => n \in Pairs(o)

Refusals == \A n \in Names : Refusal(n)

\* Whoever runs beside a disturbed build is disturbed too.
Alike ==
  /\ disturbed \in {{}, {o \in Outers : Running(o)}}
  /\ promised => disturbed = {}

Current(b) == b = [rust |-> source, c |-> source]

\* What undisturbed builds have in hand is of the present sources.
Holds(o) ==
  /\ \A a \in 1..2 : \A n \in found[o][a] : Current(binary[ARCHES[a]][n])
  /\ \A n \in Range(stdout[o]) \ {"null"} : Current(binary[ArchOf(o)][n])
  /\ child[o] = "links" => rlib[ArchOf(o)].version = source
  /\ pc[o] \in Cutting =>
       /\ Current(halves[o].x86) /\ Current(halves[o].arm)
       /\ com[halves[o].of].is = "good" =>
            Current(com[halves[o].of].x86) /\ Current(com[halves[o].of].arm)

InHand == \A o \in Outers : Holds(o)

Settled(n) == com[n].is = "good" /\ Current(com[n].x86) /\ Current(com[n].arm)
Working(n) == \E o \in Outers : pc[o] \in Cutting /\ halves[o].of = n

\* An APE that one of them is done with, or that was promised, is good and current, or in
\* the hands of another that will not be done before it is.
Done(n) ==
  promised \/ (\E o \in Outers : pc[o] \in Fusing /\ n \notin Pairs(o)) => Settled(n) \/ Working(n)

DoneWith == \A n \in Wanted : Done(n)

Types == Fixed /\ Disk /\ Processes /\ Counts /\ Memory

IInv ==
  /\ Types
  /\ Turns
  /\ \A o \in Outers : Phase(o)
  /\ \A o \in Outers : Telling(o)
  /\ Copies
  /\ Refusals
  /\ Alike
  /\ disturbed = {} => InHand /\ DoneWith

-------------------------------------------------------------------------------
(* The steps, sorted by what becomes of the script.                           *)

Elsewhere == UNCHANGED <<package, disk, holder, args, arch, found, halves, inner, history, bounds>>

\* A script that has failed, whatever it was at.
Fails(o) ==
  /\ Running(o) /\ stdout[o] = <<>> /\ child[o] \in {"none"} \union Gone
  /\ Ends(o, "err")

\* pecheck was content with the last pair.
Succeeds(o) ==
  /\ pc[o] = "pecheck" /\ com[halves[o].of].is = "good" /\ Pairs(o) = {halves[o].of}
  /\ Ends(o, "ok")

\* It goes on: to the first cargo, the second, the first pair, the next.
Prepares(o) == pc[o] = "pair" /\ Goto(o, "prepare") /\ Elsewhere

Collected(o) ==
  /\ pc[o] = "reads" /\ child[o] = "succeeded" /\ stdout[o] = <<>>
  /\ UNCHANGED <<package, disk, holder, args, found, halves, inner, history, bounds>>
SecondArch(o) == Collected(o) /\ arch[o] = 1 /\ Goto(o, "prepare") /\ arch' = [arch EXCEPT ![o] = 2]
BothBuilt(o) == Collected(o) /\ arch[o] # 1 /\ Goto(o, "fuse") /\ arch' = arch

NextPair(o) ==
  /\ pc[o] = "pecheck" /\ com[halves[o].of].is = "good" /\ Pairs(o) # {halves[o].of}
  /\ Goto(o, "fuse")
  /\ found' = [found EXCEPT ![o][1] = @ \ {halves[o].of}]
  /\ halves' = [halves EXCEPT ![o] = NoHalves]
  /\ UNCHANGED <<package, disk, holder, args, arch, inner, history, bounds>>

Goes(o) ==
  \/ Prepares(o) \/ Spawn(o) \/ ReadStdout(o) \/ SecondArch(o) \/ BothBuilt(o)
  \/ Apelink(o) \/ Fused(o) \/ NextPair(o)

\* A cargo that a user starts: its script is fresh or declines, or the build begins.
Skips(o) ==
  /\ ~Running(o) /\ (Goto(o, "skipped") \/ Goto(o, "kept")) /\ runs < MaxRuns /\ runs' = runs + 1
  /\ UNCHANGED <<package, disk, holder, args, arch, found, halves, inner, disturbed, promised, edits,
                 events>>

Begins(o) ==
  /\ ~Running(o) /\ Goto(o, "pair") /\ runs < MaxRuns /\ runs' = runs + 1
  /\ holder[DirOf[o]] = "nobody" /\ holder' = [holder EXCEPT ![DirOf[o]] = o]
  /\ \E env \in Package.envs : ~declines(Package.entry, env)
  /\ args' = [args EXCEPT ![o] = IF Package.entry = "apeify" THEN project.args ELSE <<>>]
  /\ disturbed' = IF \E p \in disturbed : Running(p) THEN disturbed \union {o} ELSE disturbed \ {o}
  /\ UNCHANGED <<package, disk, arch, found, halves, inner, promised, edits, events>>

LEMMA ScriptSteps ==
  ASSUME NEW o \in Outers, Phase(o), Script(o)
  PROVE  Fails(o) \/ Succeeds(o) \/ Goes(o)
<1>1. CASE Pair(o)
  BY <1>1 DEF Pair, Phase, Fails, Goes, Prepares, Elsewhere, Running, Ended, Gone, inner, history, bounds
<1>2. CASE Refused(o) \/ NothingBuilt(o) \/ ApelinkFails(o)
  BY <1>2 DEF Refused, NothingBuilt, ApelinkFails, Phase, Fails, Running, Ended, Fusing, Cutting, Gone
<1>3. CASE Collect(o)
  BY <1>3 DEF Collect, Phase, Fails, Goes, Collected, SecondArch, BothBuilt, Running, Ended, Gone, inner
<1>4. CASE Pecheck(o)
  BY <1>4 DEF Pecheck, accepts, Phase, Fails, Succeeds, Goes, NextPair, Running, Ended, Fusing, Cutting, Gone
<1> QED
  BY <1>1, <1>2, <1>3, <1>4 DEF Script, Goes

-------------------------------------------------------------------------------
(* The types.                                                                 *)

USE DEF disk, script, inner, history, bounds, package

\* The package and its links are never touched.
LEMMA PackageStays ==
  ASSUME Next
  PROVE  project' = project /\ Package' = Package
<1>1. ASSUME NEW o \in Outers, Script(o)
      PROVE  project' = project
  BY <1>1 DEF Script, Pair, Refused, Spawn, ReadStdout, Collect, NothingBuilt, Apelink, Fused,
             ApelinkFails, Pecheck, Ends
<1>2. ASSUME NEW o \in Outers, Echo(o) \/ Cargo(o)
      PROVE  project' = project
  BY <1>2 DEF Echo, Cargo, TakesLock, RunsScript, Compile, GivesUp, Exits, Tells
<1>3. ASSUME NEW n \in Names, Linker(n)
      PROVE  project' = project
  BY <1>3 DEF Linker, Look, Objcopy, Rename, Gcc
<1>4. ASSUME User
      PROVE  project' = project
  BY <1>4 DEF User, Edit, Delete, Start, Kill
<1> QED
  BY <1>1, <1>2, <1>3, <1>4 DEF Next, Package

LEMMA SourceIsAVersion ==
  ASSUME Counts
  PROVE  source \in {"v1", "v2", "v3"} /\ source \in Versions
<1>1. edits + 1 \in 1..3
  BY BoundsAssumption DEF Counts
<1>2. Sources[edits + 1] \in {"v1", "v2", "v3"}
  BY <1>1 DEF Sources
<1>3. {"v1", "v2", "v3"} \subseteq Versions
  <2>1. Sources[1] = "v1" /\ Sources[2] = "v2" /\ Sources[3] = "v3" /\ DOMAIN Sources = 1..3
    BY DEF Sources
  <2> QED
    BY <2>1 DEF Versions, Range
<1> QED
  BY <1>2, <1>3 DEF source

\* The directive of apeify names a path that is not there.
LEMMA AlwaysRerun ==
  ASSUME Package.entry = "apeify"
  PROVE  FreshOf = "none"
<1>1. rerun_if_changed("apeify") = {".cosmo-always-rerun"}
  BY DEF rerun_if_changed
<1>2. ".cosmo-always-rerun" \notin PackageFiles
  BY DEF PackageFiles
<1> QED
  BY <1>1, <1>2 DEF FreshOf

LEMMA StartSteps ==
  ASSUME Types, NEW o \in Outers, Start(o)
  PROVE  Skips(o) \/ Begins(o)
<1>1. Reruns(o) \/ Package.entry # "apeify"
  <2>1. source # "none" /\ DirOf[o] \in Dirs
    BY SourceIsAVersion DEF Types, Dirs
  <2> QED
    BY <2>1 DEF Types, Memory, Reruns
<1>2. promised \in BOOLEAN
  BY DEF Types, Counts
<1>3. CASE ~Reruns(o)
  <2>1. promised' = (promised \/ Package.entry = "apeify") /\ Goto(o, "kept")
        /\ UNCHANGED <<holder, args, disturbed, ran>>
    BY <1>3 DEF Start
  <2>2. promised' = promised
    BY <1>1, <1>2, <1>3, <2>1
  <2> QED
    BY <2>1, <2>2 DEF Start, Skips
<1>4. CASE Reruns(o)
  BY <1>4 DEF Start, Skips, Begins
<1> QED
  BY <1>3, <1>4

\* The package's script runs again, to its end or into a cargo that waits.
LEMMA ScriptRunsAgain ==
  ASSUME NEW o \in Outers, RunsScript(o)
  PROVE  \E l \in {"compiles", "nested", "fails"} : Child(o, l)
<1>1. RunsAgain \subseteq {"compiles", "nested", "fails"}
  BY DEF RunsAgain
<1> QED
  BY <1>1 DEF RunsScript

-------------------------------------------------------------------------------

LEMMA ArchTyped ==
  ASSUME Processes, NEW o \in Outers
  PROVE  /\ arch[o] \in 1..2 /\ ArchOf(o) \in Arches
         /\ ArchOf(o) = (IF arch[o] = 1 THEN "x86_64" ELSE "aarch64")
<1>1. arch[o] \in 1..2
  BY DEF Processes
<1>2. ARCHES[1] = "x86_64" /\ ARCHES[2] = "aarch64"
  BY DEF ARCHES
<1> QED
  BY <1>1, <1>2 DEF ArchOf, Arches

LEMMA FoundTyped ==
  ASSUME Processes, NEW o \in Outers, NEW a \in 1..2
  PROVE  found[o] \in [1..2 -> SUBSET Names] /\ found[o][a] \in SUBSET Names
<1>1. found[o] \in [1..2 -> SUBSET Names]
  BY DEF Processes
<1> QED
  BY <1>1

\* The cargo whose linkers run.
LEMMA LinkingCargo ==
  ASSUME Processes, NEW n \in Names, Linker(n)
  PROVE  /\ LinkArch \in Arches
         /\ \E o \in Outers : holder["cosmo-inner"] = o /\ child[o] = "links" /\ LinkArch = ArchOf(o)
<1>1. Linking(n)
  BY DEF Linker, Look, Objcopy, Rename, Gcc
<1>2. holder["cosmo-inner"] \in Outers
  BY <1>1 DEF Linking, Processes, Dirs
<1> QED
  BY <1>1, <1>2, ArchTyped DEF LinkArch, Linking

LEMMA DiskTyped ==
  ASSUME Types, Next
  PROVE  Disk'
<1> USE DEF Types, Disk
<1>1. CASE UNCHANGED disk
  BY <1>1
<1>2. ASSUME NEW o \in Outers, Apelink(o)
      PROVE  Disk'
  <2>1. PICK n \in Pairs(o) :
          com' = [com EXCEPT ![n] = [is |-> "part", x86 |-> NoBinary, arm |-> NoBinary, by |-> o]]
    BY <1>2 DEF Apelink
  <2>2. NoBinary \in Binary
    BY DEF NoBinary, Binary, Versions
  <2> QED
    BY <1>2, <2>1, <2>2 DEF Apelink
<1>3. ASSUME NEW o \in Outers, Fused(o)
      PROVE  Disk'
  <2>1. halves[o] \in [of : Names \union {"none"}, x86 : Binary, arm : Binary]
    BY DEF Processes
  <2>2. PICK verdict \in {"good", "bad"} :
          com' = [com EXCEPT ![halves[o].of] = [is |-> verdict, x86 |-> halves[o].x86,
                                                arm |-> halves[o].arm, by |-> o]]
    BY <1>3 DEF Fused
  <2>3. [is |-> verdict, x86 |-> halves[o].x86, arm |-> halves[o].arm, by |-> o]
          \in [is : {"none", "part", "good", "bad"}, x86 : Binary, arm : Binary,
              by : Outers \union {"none"}]
    BY <2>1
  <2> QED
    BY <1>3, <2>2, <2>3 DEF Fused
<1>4. ASSUME NEW o \in Outers, Compile(o)
      PROVE  Disk'
  <2>1. ArchOf(o) \in Arches
    BY DEF ArchOf, ARCHES, Arches, Processes
  <2>2. rlib'[ArchOf(o)] = rlib[ArchOf(o)] \/ rlib'[ArchOf(o)] = [version |-> source, time |-> rlib[ArchOf(o)].time + 1]
    BY <1>4, <2>1 DEF Compile
  <2>3. [version |-> source, time |-> rlib[ArchOf(o)].time + 1] \in File
    BY <2>1, SourceIsAVersion DEF File
  <2> QED
    BY <1>4, <2>1, <2>2, <2>3 DEF Compile
<1>5. ASSUME NEW n \in Names, Linker(n)
      PROVE  Disk'
  <2>1. LinkArch \in Arches
    BY <1>5, LinkingCargo
  <2>2. Absent \in File /\ [version |-> "part", time |-> rlib[LinkArch].time] \in File
    BY <2>1 DEF Absent, File, Versions
  <2>0. n \in Names \union {"out"} /\ rlib[LinkArch] \in File
    BY <2>1
  <2>3. CASE Look(n)
    <3>1. native' \in [Arches -> [Names \union {"out"} -> File]]
      <4> DEFINE row == [native[LinkArch] EXCEPT ![n] = [version |-> "part", time |-> rlib[LinkArch].time]]
      <4>1. row \in [Names \union {"out"} -> File]
        BY <2>1, <2>2, <2>0
      <4>2. native' = native \/ native' = [native EXCEPT ![LinkArch] = row]
        BY <2>3 DEF Look, tmp
      <4> HIDE DEF row
      <4> QED
        BY <2>1, <4>1, <4>2
    <3> QED
      BY <2>3, <3>1 DEF Look
  <2>4. CASE Objcopy(n)
    <3>1. native' \in [Arches -> [Names \union {"out"} -> File]]
      <4>1. PICK v \in {rlib[LinkArch], Absent} :
              native' = [native EXCEPT ![LinkArch] = [native[LinkArch] EXCEPT ![n] = v]]
        BY <2>4 DEF Objcopy, tmp
      <4> DEFINE row == [native[LinkArch] EXCEPT ![n] = v]
      <4>2. row \in [Names \union {"out"} -> File]
        BY <2>1, <2>2, <2>0
      <4>3. native' = [native EXCEPT ![LinkArch] = row]
        BY <4>1
      <4> HIDE DEF row
      <4> QED
        BY <2>1, <4>2, <4>3
    <3> QED
      BY <2>4, <3>1 DEF Objcopy
  <2>5. CASE Rename(n)
    <3> DEFINE gone == [native[LinkArch] EXCEPT ![n] = Absent]
    <3>1. /\ gone \in [Names \union {"out"} -> File]
          /\ [gone EXCEPT !["out"] = native[LinkArch][n]] \in [Names \union {"out"} -> File]
      BY <2>1, <2>2, <2>0, SMTT(30)
    <3>2. \/ native' = [native EXCEPT ![LinkArch] = [gone EXCEPT !["out"] = native[LinkArch][n]]]
          \/ native' = [native EXCEPT ![LinkArch] = gone]
      BY <2>5 DEF Rename, tmp
    <3>3. UNCHANGED <<rlib, binary, com>>
      BY <2>5 DEF Rename
    <3> HIDE DEF gone
    <3>4. native' \in [Arches -> [Names \union {"out"} -> File]]
      BY <2>1, <3>1, <3>2
    <3> QED
      BY <3>3, <3>4
  <2>6. CASE Gcc(n)
    <3>1. [rust |-> rlib[LinkArch].version, c |-> native[LinkArch]["out"].version] \in Binary
      BY <2>1 DEF File, Binary
    <3>2. binary' \in [Arches -> [Names -> Binary]]
      <4> DEFINE row == [binary[LinkArch] EXCEPT ![n] = [rust |-> rlib[LinkArch].version,
                                                         c |-> native[LinkArch]["out"].version]]
      <4>1. row \in [Names -> Binary]
        BY <2>1, <3>1
      <4>2. binary' = binary \/ binary' = [binary EXCEPT ![LinkArch] = row]
        BY <2>6 DEF Gcc
      <4> HIDE DEF row
      <4> QED
        BY <2>1, <4>1, <4>2
    <3> QED
      BY <2>6, <3>2 DEF Gcc
  <2> QED
    BY <1>5, <2>3, <2>4, <2>5, <2>6 DEF Linker
<1>6. ASSUME NEW n \in Names, Delete(n)
      PROVE  Disk'
  <2>1. NoCom \in [is : {"none", "part", "good", "bad"}, x86 : Binary, arm : Binary,
                   by : Outers \union {"none"}]
    BY DEF NoCom, NoBinary, Binary, Versions
  <2> QED
    BY <1>6, <2>1 DEF Delete
<1>7. ASSUME NEW o \in Outers, Start(o) \/ Kill(o) \/ Echo(o)
      PROVE  UNCHANGED disk
  BY <1>7 DEF Start, Kill, Echo
<1>8. ASSUME NEW o \in Outers, Script(o)
      PROVE  UNCHANGED disk \/ Apelink(o) \/ Fused(o)
  BY <1>8 DEF Script, Pair, Refused, Spawn, ReadStdout, Collect, NothingBuilt, ApelinkFails,
              Pecheck, Ends
<1>9. ASSUME NEW o \in Outers, Cargo(o)
      PROVE  UNCHANGED disk \/ Compile(o)
  BY <1>9 DEF Cargo, TakesLock, RunsScript, GivesUp, Exits, Tells
<1>10. Edit => UNCHANGED disk
  BY DEF Edit
<1> QED
  BY <1>1, <1>2, <1>3, <1>4, <1>5, <1>6, <1>7, <1>8, <1>9, <1>10 DEF Next, User

LEMMA NextSteps ==
  ASSUME Types, Next, \A o \in Outers : Phase(o)
  PROVE  \/ \E o \in Outers : Skips(o) \/ Begins(o) \/ Fails(o) \/ Succeeds(o) \/ Goes(o)
         \/ \E o \in Outers : Echo(o) \/ Cargo(o) \/ Kill(o)
         \/ \E n \in Names : Linker(n) \/ Delete(n)
         \/ Edit
BY StartSteps, ScriptSteps DEF Next, User

LEMMA EndsTyped ==
  ASSUME Types, NEW o \in Outers, NEW how \in Ended, Ends(o, how)
  PROVE  Processes'
<1> USE DEF Types, Processes
<1>1. pc' \in [Outers -> Ended \union {"pair", "prepare", "reads", "fuse", "apelink", "pecheck"}]
  BY DEF Ends, Goto
<1>2. arch' \in [Outers -> 1..2] /\ DOMAIN args' = Outers
  BY DEF Ends, Blank
<1>3. found' \in [Outers -> [1..2 -> SUBSET Names]]
  BY DEF Ends, Blank
<1>4. halves' \in [Outers -> [of : Names \union {"none"}, x86 : Binary, arm : Binary]]
  <2>1. NoHalves \in [of : Names \union {"none"}, x86 : Binary, arm : Binary]
    BY DEF NoHalves, NoBinary, Binary, Versions
  <2> QED
    BY <2>1 DEF Ends, Blank
<1>5. child' \in [Outers -> Gone \union {"none", "locks", "script", "compiles", "nested", "links",
                                         "fails"}]
  BY DEF Ends, Blank
<1>6. holder' \in [Dirs -> Outers \union {"nobody"}]
  BY DEF Ends, Dirs
<1>7. UNCHANGED <<stdout, stderr, link>>
  BY DEF Ends
<1> QED
  BY <1>1, <1>2, <1>3, <1>4, <1>5, <1>6, <1>7

LEMMA GoesTyped ==
  ASSUME Types, NEW o \in Outers, Goes(o)
  PROVE  Processes'
<1> USE DEF Types, Processes, Goto
<1>1. CASE Prepares(o)
  BY <1>1 DEF Prepares, Elsewhere
<1>2. CASE Spawn(o)
  <2>1. child' \in [Outers -> Gone \union {"none", "locks", "script", "compiles", "nested", "links",
                                           "fails"}]
    BY <1>2 DEF Spawn
  <2>2. /\ stdout' \in [Outers -> Seq(Names \union {"null"})]
        /\ \A p \in Outers : Len(stdout'[p]) <= PipeSize
    BY <1>2, PipeAssumption, EmptySeq DEF Spawn
  <2>3. stderr' \in [Outers -> 0..PipeSize]
    BY <1>2, PipeAssumption DEF Spawn
  <2> QED
    BY <1>2, <2>1, <2>2, <2>3 DEF Spawn
<1>3. CASE ReadStdout(o)
  <2>1. stdout[o] \in Seq(Names \union {"null"}) /\ stdout[o] # <<>>
    BY <1>3 DEF ReadStdout
  <2>2. /\ Head(stdout[o]) \in Names \union {"null"}
        /\ Tail(stdout[o]) \in Seq(Names \union {"null"}) /\ Len(Tail(stdout[o])) = Len(stdout[o]) - 1
    BY <2>1, HeadTailProperties
  <2>3. /\ stdout' \in [Outers -> Seq(Names \union {"null"})]
        /\ \A p \in Outers : Len(stdout'[p]) <= PipeSize
    BY <1>3, <2>1, <2>2, PipeAssumption DEF ReadStdout
  <2>4. found' \in [Outers -> [1..2 -> SUBSET Names]]
    <3>a. found[o][arch[o]] \in SUBSET Names
      BY FoundTyped, ArchTyped
    <3>b. json_string_field(Head(stdout[o])) \in SUBSET Names
      BY <2>2 DEF json_string_field
    <3>1. found[o][arch[o]] \union json_string_field(Head(stdout[o])) \in SUBSET Names
      BY <3>a, <3>b
    <3> DEFINE row == [found[o] EXCEPT ![arch[o]] = @ \union json_string_field(Head(stdout[o]))]
    <3>2. row \in [1..2 -> SUBSET Names]
      BY <3>1
    <3>3. found' = [found EXCEPT ![o] = row]
      BY <1>3 DEF ReadStdout
    <3> HIDE DEF row
    <3> QED
      BY <3>2, <3>3
  <2> QED
    BY <1>3, <2>3, <2>4 DEF ReadStdout
<1>4. CASE SecondArch(o)
  <2>1. arch' \in [Outers -> 1..2]
    BY <1>4 DEF SecondArch
  <2> QED
    BY <1>4, <2>1 DEF SecondArch, Collected
<1>8. CASE BothBuilt(o)
  BY <1>8 DEF BothBuilt, Collected
<1>5. CASE Apelink(o)
  <2>1. halves' \in [Outers -> [of : Names \union {"none"}, x86 : Binary, arm : Binary]]
    <3>1. PICK n \in Pairs(o) : halves' = [halves EXCEPT ![o] = [of |-> n, x86 |-> binary["x86_64"][n],
                                                                 arm |-> binary["aarch64"][n]]]
      BY <1>5 DEF Apelink
    <3>2. n \in Names
      BY DEF Pairs
    <3> QED
      BY <3>1, <3>2 DEF Disk, Arches
  <2> QED
    BY <1>5, <2>1 DEF Apelink
<1>6. CASE Fused(o)
  BY <1>6 DEF Fused
<1>7. CASE NextPair(o)
  <2>1. NoHalves \in [of : Names \union {"none"}, x86 : Binary, arm : Binary]
    BY DEF NoHalves, NoBinary, Binary, Versions
  <2>2. halves' \in [Outers -> [of : Names \union {"none"}, x86 : Binary, arm : Binary]]
    BY <1>7, <2>1 DEF NextPair
  <2>3. found' \in [Outers -> [1..2 -> SUBSET Names]]
    <3> DEFINE row == [found[o] EXCEPT ![1] = @ \ {halves[o].of}]
    <3>1. row \in [1..2 -> SUBSET Names]
      OBVIOUS
    <3>2. found' = [found EXCEPT ![o] = row]
      BY <1>7 DEF NextPair
    <3> HIDE DEF row
    <3> QED
      BY <3>1, <3>2
  <2> QED
    BY <1>7, <2>2, <2>3 DEF NextPair
<1> QED
  BY <1>1, <1>2, <1>3, <1>4, <1>5, <1>6, <1>7, <1>8 DEF Goes

\* What cargo appends to a pipe that is not full.
LEMMA Appended ==
  ASSUME Processes, NEW o \in Outers, Len(stdout[o]) < PipeSize, NEW line \in Names \union {"null"},
         stdout' = [stdout EXCEPT ![o] = Append(@, line)]
  PROVE  /\ stdout' \in [Outers -> Seq(Names \union {"null"})]
         /\ \A p \in Outers : Len(stdout'[p]) <= PipeSize
<1>1. stdout[o] \in Seq(Names \union {"null"})
  BY DEF Processes
<1>2. /\ Append(stdout[o], line) \in Seq(Names \union {"null"})
      /\ Len(Append(stdout[o], line)) = Len(stdout[o]) + 1
  BY <1>1, AppendProperties
<1>3. Len(stdout[o]) \in Nat
  BY <1>1, LenProperties
<1> QED
  BY <1>1, <1>2, <1>3, PipeAssumption DEF Processes

LEMMA CargoTyped ==
  ASSUME Types, NEW o \in Outers, Cargo(o) \/ Echo(o)
  PROVE  Processes'
<1> USE DEF Types
<1> DEFINE Places == Gone \union {"none", "locks", "script", "compiles", "nested", "links", "fails"}
<1>1. ASSUME NEW l \in Places, Child(o, l)
      PROVE  child' \in [Outers -> Places]
  BY <1>1 DEF Child, Processes
<1>2. CASE Echo(o)
  <2>1. stderr' \in [Outers -> 0..PipeSize]
    BY <1>2, PipeAssumption DEF Echo, Processes
  <2> QED
    BY <1>2, <2>1 DEF Echo, Processes
<1>3. CASE TakesLock(o)
  <2>1. holder' \in [Dirs -> Outers \union {"nobody"}]
    BY <1>3 DEF TakesLock, Processes
  <2>2. child' \in [Outers -> Places]
    BY <1>1, <1>3 DEF TakesLock
  <2> QED
    BY <1>3, <2>1, <2>2 DEF TakesLock, Processes
<1>4. CASE RunsScript(o)
  <2>1. child' \in [Outers -> Places]
    BY <1>1, <1>4, ScriptRunsAgain
  <2> QED
    BY <1>4, <2>1 DEF RunsScript, Processes
<1>5. CASE Compile(o)
  <2>1. child' \in [Outers -> Places]
    BY <1>1, <1>5 DEF Compile
  <2>2. stderr' \in [Outers -> 0..PipeSize]
    BY <1>5, PipeAssumption DEF Compile, Processes
  <2>3. link' \in [Names -> {"none", "look", "objcopy", "rename", "gcc", "linked", "failed", "told"}]
    <3>1. \/ link' = link
          \/ link' = [n \in Names |-> IF n \notin Targets(o, ArchOf(o)) THEN "none"
                                      ELSE IF Fresh(ArchOf(o), n) THEN "linked" ELSE "look"]
      BY <1>5 DEF Compile
    <3> QED
      BY <3>1 DEF Processes
  <2> QED
    BY <1>5, <2>1, <2>2, <2>3 DEF Compile, Processes
<1>6. CASE GivesUp(o)
  <2>1. child' \in [Outers -> Places]
    BY <1>1, <1>6 DEF GivesUp
  <2> QED
    BY <1>6, <2>1 DEF GivesUp, Processes
<1>7. CASE Exits(o)
  <2>1. child' \in [Outers -> Places]
    BY <1>1, <1>7 DEF Exits, Gone
  <2>2. /\ stdout' \in [Outers -> Seq(Names \union {"null"})]
        /\ \A p \in Outers : Len(stdout'[p]) <= PipeSize
    BY <1>7, Appended DEF Exits, Processes
  <2>3. stderr' \in [Outers -> 0..PipeSize]
    BY <1>7, PipeAssumption DEF Exits, Processes
  <2>4. holder' \in [Dirs -> Outers \union {"nobody"}]
    BY <1>7 DEF Exits, Processes
  <2>5. link' \in [Names -> {"none", "look", "objcopy", "rename", "gcc", "linked", "failed", "told"}]
    BY <1>7 DEF Exits
  <2> QED
    BY <1>7, <2>1, <2>2, <2>3, <2>4, <2>5 DEF Exits, Processes
<1>8. ASSUME NEW n \in Names, Tells(o, n)
      PROVE  Processes'
  <2>1. /\ stdout' \in [Outers -> Seq(Names \union {"null"})]
        /\ \A p \in Outers : Len(stdout'[p]) <= PipeSize
    BY <1>8, Appended DEF Tells
  <2>2. link' \in [Names -> {"none", "look", "objcopy", "rename", "gcc", "linked", "failed", "told"}]
    BY <1>8 DEF Tells, Processes
  <2> QED
    BY <1>8, <2>1, <2>2 DEF Tells, Processes
<1> QED
  BY <1>2, <1>3, <1>4, <1>5, <1>6, <1>7, <1>8 DEF Cargo

LEMMA LinkerTyped ==
  ASSUME Types, NEW n \in Names, Linker(n)
  PROVE  Processes'
<1> USE DEF Types
<1>1. \E l \in {"gcc", "objcopy", "rename", "failed", "linked"} : LinkGoes(n, l)
  BY DEF Linker, Look, Objcopy, Rename, Gcc
<1>2. link' \in [Names -> {"none", "look", "objcopy", "rename", "gcc", "linked", "failed", "told"}]
  BY <1>1 DEF LinkGoes, Processes
<1>3. UNCHANGED <<holder, script, child, stdout, stderr>>
  BY DEF Linker, Look, Objcopy, Rename, Gcc
<1> QED
  BY <1>2, <1>3 DEF Processes

LEMMA UserTyped ==
  ASSUME Types, NEW o \in Outers, Skips(o) \/ Begins(o) \/ Kill(o)
  PROVE  Processes'
<1> USE DEF Types
<1>1. pc' \in [Outers -> Ended \union {"pair", "prepare", "reads", "fuse", "apelink", "pecheck"}]
  BY DEF Skips, Begins, Kill, Goto, Processes, Ended
<1>2. CASE Skips(o)
  BY <1>1, <1>2 DEF Skips, Processes
<1>3. CASE Begins(o)
  <2>1. holder' \in [Dirs -> Outers \union {"nobody"}] /\ DOMAIN args' = Outers
    BY <1>3 DEF Begins, Processes
  <2> QED
    BY <1>1, <1>3, <2>1 DEF Begins, Processes
<1>4. CASE Kill(o)
  <2>1. arch' \in [Outers -> 1..2] /\ DOMAIN args' = Outers
    BY <1>4 DEF Kill, Blank, Processes
  <2>2. found' \in [Outers -> [1..2 -> SUBSET Names]]
    BY <1>4 DEF Kill, Blank, Processes
  <2>3. halves' \in [Outers -> [of : Names \union {"none"}, x86 : Binary, arm : Binary]]
    <3>1. NoHalves \in [of : Names \union {"none"}, x86 : Binary, arm : Binary]
      BY DEF NoHalves, NoBinary, Binary, Versions
    <3> QED
      BY <1>4, <3>1 DEF Kill, Blank, Processes
  <2>4. child' \in [Outers -> Gone \union {"none", "locks", "script", "compiles", "nested", "links",
                                           "fails"}]
    BY <1>4 DEF Kill, Blank, Processes
  <2>5. holder' \in [Dirs -> Outers \union {"nobody"}]
    BY <1>4 DEF Kill, Processes
  <2>6. /\ stdout' \in [Outers -> Seq(Names \union {"null"})]
        /\ \A p \in Outers : Len(stdout'[p]) <= PipeSize
    BY <1>4, PipeAssumption, EmptySeq DEF Kill, Processes
  <2>7. stderr' \in [Outers -> 0..PipeSize]
    BY <1>4, PipeAssumption DEF Kill, Processes
  <2>8. link' \in [Names -> {"none", "look", "objcopy", "rename", "gcc", "linked", "failed", "told"}]
    BY <1>4 DEF Kill, Processes
  <2> QED
    BY <1>1, <2>1, <2>2, <2>3, <2>4, <2>5, <2>6, <2>7, <2>8 DEF Processes
<1> QED
  BY <1>2, <1>3, <1>4

LEMMA CountsTyped ==
  ASSUME Types, Next, \A o \in Outers : Phase(o)
  PROVE  Counts'
<1> USE DEF Types, Counts
<1> USE BoundsAssumption
<1>1. ASSUME NEW o \in Outers, Skips(o) \/ Begins(o)
      PROVE  Counts'
  BY <1>1 DEF Skips, Begins
<1>2. ASSUME NEW o \in Outers, Fails(o) \/ Succeeds(o)
      PROVE  Counts'
  BY <1>2 DEF Fails, Succeeds, Ends
<1>3. ASSUME NEW o \in Outers, Goes(o)
      PROVE  UNCHANGED <<bounds, promised>>
  BY <1>3 DEF Goes, Prepares, Elsewhere, Spawn, ReadStdout, SecondArch, BothBuilt, Collected,
              Apelink, Fused, NextPair
<1>4. ASSUME NEW o \in Outers, Echo(o) \/ Cargo(o)
      PROVE  UNCHANGED <<bounds, promised>>
  BY <1>4 DEF Echo, Cargo, TakesLock, RunsScript, Compile, GivesUp, Exits, Tells
<1>5. ASSUME NEW n \in Names, Linker(n)
      PROVE  UNCHANGED <<bounds, promised>>
  BY <1>5 DEF Linker, Look, Objcopy, Rename, Gcc
<1>9. /\ MaxEvents \in Nat /\ events \in Nat /\ edits \in Nat /\ edits <= events
      /\ events < MaxEvents => events + 1 \in 0..MaxEvents
  OBVIOUS
<1>10. ASSUME events < MaxEvents, events' = events + 1, edits' \in {edits, edits + 1}, runs' = runs,
             promised' = FALSE
      PROVE  Counts'
  <2>1. events' \in 0..MaxEvents
    BY <1>9, <1>10
  <2>2. edits' \in 0..events'
    BY <1>9, <1>10
  <2> QED
    BY <1>10, <2>1, <2>2
<1>6. ASSUME NEW o \in Outers, Kill(o)
      PROVE  Counts'
  BY <1>10, <1>6 DEF Kill
<1>7. ASSUME NEW n \in Names, Delete(n)
      PROVE  Counts'
  BY <1>10, <1>7 DEF Delete
<1>8. CASE Edit
  BY <1>10, <1>8 DEF Edit
<1> QED
  BY <1>1, <1>2, <1>3, <1>4, <1>5, <1>6, <1>7, <1>8, NextSteps

\* The sources a cargo takes its script for fresh of are written by cargos alone.
LEMMA MemoryStep ==
  ASSUME Types, Next
  PROVE  Memory'
<1> DEFINE Known(v) == v \in Versions /\ (Package.entry = "apeify" => v = "none")
<1>1. Package' = Package
  BY PackageStays
<1>2. ASSUME NEW d \in Dirs, NEW v, Known(v), ran' = [ran EXCEPT ![d] = v]
      PROVE  Memory'
  BY <1>1, <1>2 DEF Types, Memory
<1>3. CASE ran' = ran
  BY <1>1, <1>3 DEF Types, Memory
<1>4. Known("none") /\ Known(FreshOf) /\ \A d \in Dirs : Known(ran[d])
  <2>1. "none" \in Versions
    BY DEF Versions
  <2>2. FreshOf \in Versions
    BY <2>1, SourceIsAVersion DEF Types, FreshOf
  <2> QED
    BY <2>1, <2>2, AlwaysRerun DEF Types, Memory
<1>5. \A o \in Outers : DirOf[o] \in Dirs /\ inner_target_dir(o) \in Dirs
  BY DEF Dirs, inner_target_dir
<1>6. ASSUME NEW o \in Outers, NEW how, Ends(o, how)
      PROVE  Memory'
  <2>1. PICK v \in Remembers(o, how) : ran' = [ran EXCEPT ![DirOf[o]] = v]
    BY <1>6 DEF Ends
  <2>2. v \in {"none", ran[DirOf[o]]}
    BY <2>1 DEF Remembers
  <2> QED
    BY <1>2, <1>4, <1>5, <2>1, <2>2
<1>7. ASSUME NEW o \in Outers, Script(o)
      PROVE  Memory'
  <2>1. ran' = ran \/ \E how : Ends(o, how)
    BY <1>7 DEF Script, Pair, Refused, Spawn, ReadStdout, Collect, NothingBuilt, Apelink, Fused,
               ApelinkFails, Pecheck
  <2> QED
    BY <1>3, <1>6, <2>1
<1>8. ASSUME NEW o \in Outers, Echo(o) \/ Cargo(o)
      PROVE  Memory'
  <2>1. CASE RunsScript(o)
    <3>1. \/ ran' = ran
          \/ \E v \in {"none", FreshOf} : ran' = [ran EXCEPT ![inner_target_dir(o)] = v]
      BY <2>1 DEF RunsScript
    <3> QED
      BY <1>2, <1>3, <1>4, <1>5, <3>1
  <2>2. CASE ~RunsScript(o)
    <3>1. ran' = ran
      BY <1>8, <2>2 DEF Echo, Cargo, TakesLock, Compile, GivesUp, Exits, Tells
    <3> QED
      BY <1>3, <3>1
  <2> QED
    BY <2>1, <2>2
<1>9. ASSUME NEW n \in Names, Linker(n)
      PROVE  ran' = ran
  BY <1>9 DEF Linker, Look, Objcopy, Rename, Gcc
<1>10. ASSUME NEW o \in Outers, Start(o) \/ Kill(o)
       PROVE  Memory'
  <2>1. \/ ran' = ran
        \/ \E v \in {"none", FreshOf} : ran' = [ran EXCEPT ![DirOf[o]] = v]
    BY <1>10 DEF Start, Kill
  <2> QED
    BY <1>2, <1>3, <1>4, <1>5, <2>1
<1>11. ASSUME Edit \/ \E n \in Names : Delete(n)
       PROVE  ran' = ran
  BY <1>11 DEF Edit, Delete
<1> QED
  BY <1>3, <1>7, <1>8, <1>9, <1>10, <1>11 DEF Next, User

LEMMA TypesStep ==
  ASSUME Types, Next, \A o \in Outers : Phase(o)
  PROVE  Types'
<1>1. Fixed'
  BY PackageStays DEF Types, Fixed
<1>2. Disk'
  BY DiskTyped
<1>3. Counts' /\ Memory'
  BY CountsTyped, MemoryStep
<1>4. Processes'
  <2>1. ASSUME NEW n \in Names, Delete(n)
        PROVE  Processes'
    BY <2>1 DEF Types, Processes, Delete
  <2>2. CASE Edit
    BY <2>2 DEF Types, Processes, Edit
  <2>3. ASSUME NEW o \in Outers, Fails(o) \/ Succeeds(o)
        PROVE  Processes'
    BY <2>3, EndsTyped DEF Fails, Succeeds, Ended
  <2> QED
    BY <2>1, <2>2, <2>3, GoesTyped, CargoTyped, LinkerTyped, UserTyped, NextSteps
<1> QED
  BY <1>1, <1>2, <1>3, <1>4 DEF Types

-------------------------------------------------------------------------------
(* What a step of one build leaves of the others.                             *)

\* A build's script, cargo and pipes are as they were.
Same(p) ==
  /\ pc'[p] = pc[p] /\ args'[p] = args[p] /\ arch'[p] = arch[p] /\ found'[p] = found[p]
  /\ halves'[p] = halves[p] /\ child'[p] = child[p] /\ stdout'[p] = stdout[p]

StepOf(o) == Skips(o) \/ Begins(o) \/ Fails(o) \/ Succeeds(o) \/ Goes(o) \/ Echo(o) \/ Cargo(o) \/ Kill(o)
StepAside == (\E n \in Names : Linker(n) \/ Delete(n)) \/ Edit

LEMMA OthersStay ==
  ASSUME Types, NEW o \in Outers, StepOf(o), NEW p \in Outers, p # o
  PROVE  Same(p)
<1> USE DEF Same, Types, Processes, Goto
<1>1. CASE Skips(o) \/ Begins(o)
  BY <1>1 DEF Skips, Begins
<1>2. CASE Fails(o) \/ Succeeds(o)
  BY <1>2 DEF Fails, Succeeds, Ends, Blank
<1>3. CASE Prepares(o) \/ Spawn(o) \/ ReadStdout(o)
  BY <1>3 DEF Prepares, Elsewhere, Spawn, ReadStdout
<1>4. CASE SecondArch(o) \/ BothBuilt(o)
  BY <1>4 DEF SecondArch, BothBuilt, Collected
<1>5. CASE Apelink(o) \/ Fused(o) \/ NextPair(o)
  BY <1>5 DEF Apelink, Fused, NextPair
<1>6. CASE Echo(o) \/ Kill(o)
  BY <1>6 DEF Echo, Kill, Blank
<1>7. CASE Cargo(o)
  BY <1>7 DEF Cargo, TakesLock, RunsScript, Compile, GivesUp, Exits, Tells, Child
<1> QED
  BY <1>1, <1>2, <1>3, <1>4, <1>5, <1>6, <1>7 DEF StepOf, Goes

LEMMA AllStay ==
  ASSUME StepAside
  PROVE  UNCHANGED <<script, child, stdout, holder>>
<1>1. ASSUME NEW n \in Names, Linker(n) \/ Delete(n)
      PROVE  UNCHANGED <<script, child, stdout, holder>>
  BY <1>1 DEF Linker, Look, Objcopy, Rename, Gcc, Delete
<1>2. Edit => UNCHANGED <<script, child, stdout, holder>>
  BY DEF Edit
<1> QED
  BY <1>1, <1>2 DEF StepAside

LEMMA StepSorts ==
  ASSUME Types, Next, \A o \in Outers : Phase(o)
  PROVE  (\E o \in Outers : StepOf(o)) \/ StepAside
BY NextSteps DEF StepOf, StepAside

-------------------------------------------------------------------------------
(* The lock of cosmo-inner.                                                   *)

LEMMA InnerIsApart ==
  ASSUME NEW o \in Outers
  PROVE  DirOf[o] # "cosmo-inner" /\ "cosmo-inner" \in Dirs /\ o # "nobody"
BY OutersAssumption, ApartAssumption DEF Dirs

LEMMA TurnsStep ==
  ASSUME Types, Turns, \A p \in Outers : Phase(p), Next
  PROVE  Turns'
<1> USE DEF Types, Processes
<1>1. CASE StepAside
  BY <1>1, AllStay DEF Turns
<1>2. ASSUME NEW o \in Outers, StepOf(o)
      PROVE  Turns'
  <2> DEFINE ours == holder["cosmo-inner"]
  <2>0. \A p \in Outers \ {o} : child'[p] = child[p]
    BY <1>2, OthersStay DEF Same
  <2>1. ASSUME ours' = ours, child'[o] \in Locked <=> child[o] \in Locked
        PROVE  Turns'
    <3> SUFFICES ASSUME NEW p \in Outers PROVE child'[p] \in Locked <=> ours' = p
      BY DEF Turns
    <3> QED
      BY <2>1, <2>0 DEF Turns
  <2>2. CASE Skips(o) \/ Begins(o)
    BY <2>1, <2>2, InnerIsApart DEF Skips, Begins
  <2>3. CASE Fails(o) \/ Succeeds(o)
    <3>1. child[o] \notin Locked
      BY <2>3 DEF Fails, Succeeds, Locked, Gone, Phase, Fusing, Cutting
    <3>2. child'[o] = "none" /\ ours' = ours
      BY <2>3, InnerIsApart DEF Fails, Succeeds, Ends, Blank
    <3> QED
      BY <2>1, <3>1, <3>2 DEF Locked
  <2>4. CASE Goes(o)
    <3>1. CASE Spawn(o)
      <4>1. child[o] \notin Locked
        BY <3>1 DEF Spawn, Locked, Phase
      <4>2. child'[o] = "locks" /\ ours' = ours
        BY <3>1 DEF Spawn
      <4> QED
        BY <2>1, <4>1, <4>2 DEF Locked
    <3>2. CASE ~Spawn(o)
      <4>1. UNCHANGED <<child, holder>>
        BY <2>4, <3>2 DEF Goes, Prepares, Elsewhere, ReadStdout, SecondArch, BothBuilt, Collected,
                          Apelink, Fused, NextPair
      <4> QED
        BY <4>1 DEF Turns
    <3> QED
      BY <3>1, <3>2
  <2>5. CASE Echo(o)
    BY <2>1, <2>5 DEF Echo
  <2>6. CASE Kill(o)
    <3>1. child'[o] = "none" /\ ours' = (IF ours = o THEN "nobody" ELSE ours)
      BY <2>6, InnerIsApart DEF Kill, Blank
    <3> QED
      BY <1>2, <3>1, OthersStay, InnerIsApart DEF Turns, Same, Locked
  <2>7. CASE TakesLock(o)
    <3>1. ours = "nobody" /\ ours' = o /\ child'[o] = "script"
      BY <2>7, InnerIsApart DEF TakesLock, Child, inner_target_dir
    <3> QED
      BY <1>2, <3>1, OthersStay, InnerIsApart DEF Turns, Same, Locked
  <2>8. CASE Exits(o)
    <3>1. child[o] \in Locked /\ ours' = "nobody" /\ child'[o] \in Gone
      BY <2>8, InnerIsApart DEF Exits, Child, inner_target_dir, Locked, Gone
    <3>2. child'[o] \notin Locked
      BY <3>1 DEF Locked, Gone
    <3>3. \A p \in Outers \ {o} : child[p] \notin Locked
      BY <3>1 DEF Turns
    <3> QED
      BY <3>1, <3>2, <3>3, <2>0, InnerIsApart DEF Turns
  <2>9. CASE RunsScript(o) \/ Compile(o) \/ GivesUp(o)
    <3>1. child[o] \in Locked /\ child'[o] \in Locked /\ holder' = holder
      BY <2>9, ScriptRunsAgain DEF RunsScript, Compile, GivesUp, Child, Locked
    <3> QED
      BY <2>1, <3>1
  <2>10. ASSUME NEW n \in Names, Tells(o, n)
         PROVE  Turns'
    BY <2>1, <2>10 DEF Tells
  <2> QED
    BY <1>2, <2>2, <2>3, <2>4, <2>5, <2>6, <2>7, <2>8, <2>9, <2>10 DEF StepOf, Cargo
<1> QED
  BY <1>1, <1>2, StepSorts

-------------------------------------------------------------------------------
(* A script and its cargo.                                                    *)

LEMMA PhaseStays ==
  ASSUME NEW p \in Outers, Phase(p), Same(p)
  PROVE  Phase(p)'
BY DEF Phase, Same, Running, Pairs

LEMMA PhaseGoes ==
  ASSUME Types, NEW o \in Outers, Phase(o), Goes(o)
  PROVE  Phase(o)'
<1> USE DEF Types, Processes, Goto
<1>1. CASE Prepares(o)
  <2>1. pc[o] = "pair" /\ pc'[o] = "prepare" /\ child'[o] = "none" /\ arch'[o] = 1 /\ stdout'[o] = <<>>
    BY <1>1 DEF Prepares, Elsewhere, Phase
  <2> QED
    BY <2>1 DEF Phase, Running, Ended, Fusing, Cutting
<1>2. CASE Spawn(o)
  <2>1. pc'[o] = "reads" /\ child'[o] = "locks"
    BY <1>2 DEF Spawn
  <2> QED
    BY <2>1 DEF Phase, Running, Ended, Fusing, Cutting
<1>3. CASE ReadStdout(o)
  <2>1. pc'[o] = "reads" /\ child'[o] # "none"
    BY <1>3 DEF ReadStdout, Phase
  <2> QED
    BY <2>1 DEF Phase, Running, Ended, Fusing, Cutting
<1>4. CASE SecondArch(o)
  <2>1. pc'[o] = "prepare" /\ arch'[o] = 2 /\ child'[o] = "succeeded" /\ stdout'[o] = <<>>
    BY <1>4 DEF SecondArch, Collected
  <2> QED
    BY <2>1 DEF Phase, Running, Ended, Fusing, Cutting
<1>5. CASE BothBuilt(o)
  <2>1. pc'[o] = "fuse" /\ arch'[o] = 2 /\ child'[o] = "succeeded" /\ stdout'[o] = <<>>
    <3>1. arch[o] = 2
      BY <1>5 DEF BothBuilt
    <3> QED
      BY <1>5, <3>1 DEF BothBuilt, Collected
  <2> QED
    BY <2>1 DEF Phase, Running, Ended, Fusing, Cutting
<1>6. CASE Apelink(o)
  <2>1. pc'[o] = "apelink" /\ arch'[o] = 2 /\ child'[o] = "succeeded" /\ stdout'[o] = <<>>
    BY <1>6 DEF Apelink, Phase, Fusing
  <2>2. halves'[o].of \in Pairs(o) /\ Pairs(o)' = Pairs(o)
    BY <1>6 DEF Apelink, Pairs
  <2> QED
    BY <2>1, <2>2 DEF Phase, Running, Ended, Fusing, Cutting
<1>7. CASE Fused(o)
  <2>1. pc'[o] = "pecheck" /\ arch'[o] = 2 /\ child'[o] = "succeeded" /\ stdout'[o] = <<>>
    BY <1>7 DEF Fused, Phase, Fusing, Cutting
  <2>2. halves'[o].of \in Pairs(o) /\ Pairs(o)' = Pairs(o)
    BY <1>7 DEF Fused, Pairs, Phase, Cutting
  <2> QED
    BY <2>1, <2>2 DEF Phase, Running, Ended, Fusing, Cutting
<1>8. CASE NextPair(o)
  <2>1. pc'[o] = "fuse" /\ arch'[o] = 2 /\ child'[o] = "succeeded" /\ stdout'[o] = <<>>
    BY <1>8 DEF NextPair, Phase, Fusing, Cutting
  <2> QED
    BY <2>1 DEF Phase, Running, Ended, Fusing, Cutting
<1> QED
  BY <1>1, <1>2, <1>3, <1>4, <1>5, <1>6, <1>7, <1>8 DEF Goes

\* What a script leaves when it is gone.
LEMMA PhaseEnds ==
  ASSUME Types, NEW o \in Outers, Phase(o), Fails(o) \/ Succeeds(o) \/ Kill(o)
  PROVE  /\ Phase(o)' /\ ~Running(o)' /\ Running(o)
         /\ args'[o] = <<>> /\ found'[o] = [a \in 1..2 |-> {}] /\ stdout'[o] = <<>> /\ child'[o] = "none"
         /\ pc'[o] = "ok" => Succeeds(o)
<1> USE DEF Types, Processes, Goto
<1>1. pc'[o] \in {"ok", "err", "dead"} /\ (pc'[o] = "ok" => Succeeds(o)) /\ Running(o)
  BY DEF Fails, Succeeds, Kill, Ends, Running, Ended
<1>2. /\ args'[o] = <<>> /\ found'[o] = [a \in 1..2 |-> {}] /\ child'[o] = "none" /\ arch'[o] = 1
  BY DEF Fails, Succeeds, Kill, Ends, Blank
<1>3. stdout'[o] = <<>>
  <2>1. CASE Kill(o)
    BY <2>1 DEF Kill
  <2>2. CASE Fails(o) \/ Succeeds(o)
    BY <2>2 DEF Fails, Succeeds, Ends, Phase
  <2> QED
    BY <2>1, <2>2
<1>4. pc'[o] \notin {"pair", "prepare", "reads", "fuse", "apelink", "pecheck"}
  BY <1>1
<1>5. Phase(o)'
  BY <1>2, <1>3, <1>4 DEF Phase, Fusing, Cutting
<1> QED
  BY <1>1, <1>2, <1>3, <1>5 DEF Running, Ended

LEMMA PhaseStep ==
  ASSUME Types, \A p \in Outers : Phase(p), Next
  PROVE  \A p \in Outers : Phase(p)'
<1> USE DEF Types, Processes, Goto
<1>1. CASE StepAside
  BY <1>1, AllStay DEF Phase, Running, Pairs
<1>2. ASSUME NEW o \in Outers, StepOf(o)
      PROVE  \A p \in Outers : Phase(p)'
  <2>1. \A p \in Outers \ {o} : Phase(p)'
    BY <1>2, OthersStay, PhaseStays
  <2>2. CASE Skips(o) \/ Begins(o)
    <3>1. /\ pc'[o] \in {"skipped", "kept", "pair"} /\ ~Running(o)
          /\ UNCHANGED <<arch, found, halves, child, stdout>>
      BY <2>2 DEF Skips, Begins
    <3>2. child[o] = "none" /\ arch[o] = 1 /\ found[o] = [a \in 1..2 |-> {}] /\ stdout[o] = <<>>
      BY <3>1 DEF Phase, Running, Ended
    <3>3. Phase(o)'
      BY <3>1, <3>2 DEF Phase, Running, Ended, Fusing, Cutting
    <3> QED
      BY <2>1, <3>3
  <2>3. CASE Fails(o) \/ Succeeds(o) \/ Kill(o)
    BY <2>1, <2>3, PhaseEnds
  <2>4. CASE Goes(o)
    BY <2>1, <2>4, PhaseGoes
  <2>5. CASE Echo(o)
    BY <2>5 DEF Echo, Phase, Running, Pairs
  <2>6. CASE Cargo(o)
    <3>1. UNCHANGED script /\ child[o] \notin {"none", "succeeded"} /\ child'[o] # "none"
      BY <2>6, ScriptRunsAgain DEF Cargo, TakesLock, RunsScript, Compile, GivesUp, Exits, Tells, Child
    <3>2. pc[o] = "reads"
      BY <3>1 DEF Phase, Running, Fusing, Cutting
    <3>3. pc'[o] = "reads" /\ child'[o] # "none"
      BY <3>1, <3>2
    <3>4. Phase(o)'
      BY <3>3 DEF Phase, Running, Ended, Fusing, Cutting
    <3> QED
      BY <2>1, <3>4
  <2> QED
    BY <1>2, <2>2, <2>3, <2>4, <2>5, <2>6 DEF StepOf
<1> QED
  BY <1>1, <1>2, StepSorts

-------------------------------------------------------------------------------
(* What a cargo tells of.                                                     *)

LEMMA SelectedOfPackage ==
  ASSUME Fixed, NEW says
  PROVE  Selected(project, says) = Selected(Package, says)
BY DEF Fixed, Selected

\* A cargo that links, or that has more to do, is read by its script, and it holds cosmo-inner.
LEMMA LinkingReads ==
  ASSUME Processes, NEW o \in Outers, Phase(o), child[o] \in Locked \union {"locks", "failed"}
  PROVE  pc[o] = "reads" /\ Running(o)
BY DEF Processes, Phase, Locked, Running, Ended, Fusing, Cutting

LEMMA OneLinks ==
  ASSUME Turns, NEW o \in Outers, NEW p \in Outers, child[o] \in Locked, child[p] \in Locked
  PROVE  o = p
BY DEF Turns

\* Another's step leaves the links of a cargo alone.
LEMMA LinksStay ==
  ASSUME Types, Turns, \A p \in Outers : Phase(p),
         NEW o \in Outers, StepOf(o), NEW p \in Outers, p # o, child[p] = "links"
  PROVE  link' = link /\ rlib' = rlib /\ UNCHANGED <<native, binary>>
<1>1. child[o] \notin Locked /\ holder["cosmo-inner"] # o
  BY OneLinks DEF Turns, Locked
<1>2. CASE Skips(o) \/ Begins(o) \/ Fails(o) \/ Succeeds(o)
  BY <1>2 DEF Skips, Begins, Fails, Succeeds, Ends
<1>3. CASE Goes(o)
  BY <1>3 DEF Goes, Prepares, Elsewhere, Spawn, ReadStdout, SecondArch, BothBuilt, Collected,
              Apelink, Fused, NextPair
<1>4. CASE Kill(o) \/ Echo(o)
  BY <1>1, <1>4 DEF Kill, Echo
<1>5. CASE Cargo(o)
  BY <1>1, <1>5 DEF Cargo, TakesLock, RunsScript, Compile, GivesUp, Exits, Tells, Locked
<1> QED
  BY <1>2, <1>3, <1>4, <1>5 DEF StepOf

LEMMA TellingStays ==
  ASSUME project' = project, Package' = Package,
         NEW p \in Outers, Telling(p), Same(p), child[p] = "links" => link' = link
  PROVE  Telling(p)'
<1>1. \A a : Targets(p, a)' = Targets(p, a)
  BY DEF Targets, Same
<1>2. ArchOf(p)' = ArchOf(p) /\ Running(p)' = Running(p)
  BY DEF ArchOf, Running, Same
<1> QED
  BY <1>1, <1>2 DEF Telling, Same

\* A build that has not begun, or is no more.
LEMMA TellingNothing ==
  ASSUME Types', NEW o \in Outers,
         (Running(o) => Selected(project, args[o]) = Package.wants)',
         pc'[o] \notin {"prepare", "reads"}, found'[o] = [a \in 1..2 |-> {}], stdout'[o] = <<>>,
         child'[o] = "none"
  PROVE  Telling(o)'
<1>1. \A a \in 1..2 : found'[o][a] = {}
  OBVIOUS
<1>2. Range(stdout'[o]) = {}
  BY DEF Range
<1> QED
  BY <1>1, <1>2 DEF Telling

LEMMA RangeOfEmpty == Range(<<>>) = {}
BY DEF Range

LEMMA RangeOfTail ==
  ASSUME NEW S, NEW s \in Seq(S), s # <<>>
  PROVE  Range(s) = {Head(s)} \union Range(Tail(s))
<1>1. /\ DOMAIN s = 1..Len(s) /\ DOMAIN Tail(s) = 1..Len(Tail(s))
      /\ Len(s) \in Nat \ {0} /\ Len(Tail(s)) = Len(s) - 1 /\ Head(s) = s[1]
      /\ \A i \in 1..Len(Tail(s)) : Tail(s)[i] = s[i + 1]
  BY HeadTailProperties, LenProperties, EmptySeq
<1>2. \A i \in 1..Len(s) : s[i] = Head(s) \/ \E j \in 1..Len(Tail(s)) : s[i] = Tail(s)[j]
  <2> SUFFICES ASSUME NEW i \in 1..Len(s), i # 1
               PROVE  \E j \in 1..Len(Tail(s)) : s[i] = Tail(s)[j]
    BY <1>1
  <2>1. i - 1 \in 1..Len(Tail(s)) /\ s[i] = Tail(s)[i - 1]
    BY <1>1
  <2> QED
    BY <2>1
<1>3. \A i \in 1..Len(Tail(s)) : i + 1 \in 1..Len(s)
  BY <1>1
<1>4. Range(s) \subseteq {Head(s)} \union Range(Tail(s))
  <2> SUFFICES ASSUME NEW i \in 1..Len(s), s[i] # Head(s)
               PROVE  s[i] \in Range(Tail(s))
    BY <1>1 DEF Range
  <2>1. PICK j \in 1..Len(Tail(s)) : s[i] = Tail(s)[j]
    BY <1>2
  <2> QED
    BY <1>1, <2>1 DEF Range
<1>5. {Head(s)} \union Range(Tail(s)) \subseteq Range(s)
  BY <1>1, <1>3 DEF Range
<1> QED
  BY <1>4, <1>5

LEMMA RangeOfAppend ==
  ASSUME NEW S, NEW s \in Seq(S), NEW e \in S
  PROVE  Range(Append(s, e)) = Range(s) \union {e}
<1>1. /\ DOMAIN s = 1..Len(s) /\ DOMAIN Append(s, e) = 1..(Len(s) + 1) /\ Len(s) \in Nat
      /\ Append(s, e)[Len(s) + 1] = e
      /\ \A i \in 1..Len(s) : Append(s, e)[i] = s[i]
  BY AppendProperties, LenProperties
<1>2. \A i \in 1..(Len(s) + 1) : i = Len(s) + 1 \/ i \in 1..Len(s)
  BY <1>1
<1>3. (Len(s) + 1) \in 1..(Len(s) + 1) /\ \A i \in 1..Len(s) : i \in 1..(Len(s) + 1)
  BY <1>1
<1> QED
  BY <1>1, <1>2, <1>3 DEF Range

\* The targets of a build depend on its arguments only.
LEMMA TargetsStay ==
  ASSUME project' = project, NEW o \in Outers, args'[o] = args[o]
  PROVE  \A a : Targets(o, a)' = Targets(o, a)
BY DEF Targets

LEMMA TellingGoes ==
  ASSUME Types, Types', Next, NEW o \in Outers, Phase(o), Telling(o), Goes(o)
  PROVE  Telling(o)'
<1> USE DEF Goto
<1>1. project' = project /\ Package' = Package
  BY PackageStays
<1>2. args' = args /\ link' = link
  BY DEF Goes, Prepares, Elsewhere, Spawn, ReadStdout, SecondArch, BothBuilt, Collected, Apelink,
         Fused, NextPair
<1>3. \A a : Targets(o, a)' = Targets(o, a)
  BY <1>1, <1>2, TargetsStay
<1>4. Running(o)
  BY DEF Goes, Prepares, Spawn, ReadStdout, SecondArch, BothBuilt, Collected, Apelink, Fused,
         NextPair, Running, Ended
<1>5. Selected(project, args[o]) = Package.wants /\ (Selected(project, args[o]) = Package.wants)'
  BY <1>1, <1>2, <1>4 DEF Telling
<1>6. DOMAIN pc = Outers /\ DOMAIN arch = Outers /\ DOMAIN stdout = Outers
      /\ DOMAIN found = Outers /\ DOMAIN child = Outers
  BY DEF Types, Processes, Ended
<1>7. CASE Prepares(o) \/ Apelink(o) \/ Fused(o)
  <2>1. UNCHANGED <<arch, found, child, stdout>>
    BY <1>7 DEF Prepares, Elsewhere, Apelink, Fused
  <2>2. pc'[o] # "reads" /\ (pc'[o] = "prepare" => arch'[o] = 1)
    BY <1>6, <1>7 DEF Prepares, Elsewhere, Apelink, Fused, Phase
  <2> QED
    BY <1>2, <1>3, <1>5, <2>1, <2>2 DEF Telling, ArchOf
<1>8. CASE Spawn(o)
  <2>1. UNCHANGED <<arch, found>> /\ child'[o] = "locks" /\ stdout'[o] = <<>> /\ pc[o] = "prepare"
    BY <1>6, <1>8 DEF Spawn
  <2> QED
    BY <1>3, <1>5, <2>1, RangeOfEmpty DEF Telling
<1>9. CASE ReadStdout(o)
  <2> DEFINE line == Head(stdout[o])
             a == arch[o]
  <2>1. /\ UNCHANGED <<arch, child>> /\ pc[o] = "reads" /\ pc'[o] = "reads" /\ stdout[o] # <<>>
        /\ stdout'[o] = Tail(stdout[o])
    BY <1>6, <1>9 DEF ReadStdout
  <2>2. stdout[o] \in Seq(Names \union {"null"})
    BY DEF Types, Processes
  <2>3. Range(stdout[o]) = {line} \union Range(stdout'[o])
    BY <2>1, <2>2, RangeOfTail
  <2>4. a \in 1..2 /\ found[o] \in [1..2 -> SUBSET Names]
    BY ArchTyped, FoundTyped DEF Types
  <2>5. /\ found'[o][a] = found[o][a] \union ({line} \ {"null"})
        /\ \A b \in 1..2 : b # a => found'[o][b] = found[o][b]
    BY <1>6, <1>9, <2>4 DEF ReadStdout, json_string_field
  <2>6. "null" \notin Names
    BY ApartAssumption
  <2>7. line \in Targets(o, ArchOf(o)) \union {"null"} /\ ArchOf(o)' = ArchOf(o) /\ ArchOf(o) = ARCHES[a]
    BY <2>1, <2>3 DEF Telling, ArchOf
  <2> HIDE DEF line
  <2>8. \A b \in 1..2 : found'[o][b] \subseteq Targets(o, ARCHES[b])
    <3>1. found'[o][a] \subseteq Targets(o, ARCHES[a])
      BY <2>4, <2>5, <2>7 DEF Telling
    <3> QED
      BY <2>5, <3>1 DEF Telling
  <2>9. Range(stdout'[o]) \subseteq Targets(o, ArchOf(o)) \union {"null"}
    BY <2>3 DEF Telling
  <2>10. \A n \in Names : n \in found[o][a] \union Range(stdout[o])
                            => n \in found'[o][a] \union Range(stdout'[o])
    BY <2>3, <2>5, <2>6
  <2>11. child[o] = "links" =>
           \A n \in Names : /\ link[n] # "none" <=> n \in Targets(o, ArchOf(o))
                            /\ link[n] = "told" => n \in found'[o][a] \union Range(stdout'[o])
    BY <2>10 DEF Telling
  <2>12. child[o] = "succeeded" => \A n \in Targets(o, ArchOf(o)) : n \in Names =>
                                      n \in found'[o][a] \union Range(stdout'[o])
    BY <2>1, <2>10 DEF Telling
  <2>13. Targets(o, ArchOf(o)) \subseteq Names
    BY NamesAssumption DEF Targets, Selected, Types, Fixed, Package
  <2>14. a = 2 => Targets(o, "x86_64") \subseteq found'[o][1]
    BY <2>1, <2>5 DEF Telling
  <2> QED
    BY <1>2, <1>3, <1>5, <2>1, <2>7, <2>8, <2>9, <2>11, <2>12, <2>13, <2>14 DEF Telling
<1>10. CASE SecondArch(o)
  <2>1. /\ found' = found /\ stdout'[o] = <<>> /\ stdout[o] = <<>> /\ pc'[o] = "prepare" /\ arch'[o] = 2 /\ arch[o] = 1
        /\ child'[o] = "succeeded" /\ child[o] = "succeeded" /\ pc[o] = "reads"
    BY <1>6, <1>10 DEF SecondArch, Collected
  <2>2. Targets(o, "x86_64") \subseteq found[o][1]
    BY <2>1, RangeOfEmpty DEF Telling, ArchOf, ARCHES
  <2> QED
    BY <1>3, <1>5, <2>1, <2>2, RangeOfEmpty DEF Telling
<1>11. CASE BothBuilt(o) \/ NextPair(o)
  <2>1. /\ arch' = arch /\ stdout'[o] = <<>> /\ pc'[o] = "fuse" /\ child'[o] = "succeeded"
    BY <1>6, <1>11 DEF BothBuilt, Collected, NextPair, Phase, Fusing, Cutting
  <2>2. \A a \in 1..2 : found'[o][a] \subseteq found[o][a]
    <3>1. CASE BothBuilt(o)
      BY <3>1 DEF BothBuilt, Collected
    <3>2. CASE NextPair(o)
      BY <1>6, <3>2, FoundTyped DEF NextPair, Types
    <3> QED
      BY <1>11, <3>1, <3>2
  <2> QED
    BY <1>3, <1>5, <2>1, <2>2, RangeOfEmpty DEF Telling
<1> QED
  BY <1>7, <1>8, <1>9, <1>10, <1>11 DEF Goes

LEMMA TellingCargo ==
  ASSUME Types, Types', Next, NEW o \in Outers, Phase(o), Telling(o), Cargo(o)
  PROVE  Telling(o)'
<1> USE DEF Child
<1>1. project' = project /\ Package' = Package
  BY PackageStays
<1>2. UNCHANGED script
  BY DEF Cargo, TakesLock, RunsScript, Compile, GivesUp, Exits, Tells
<1>3. /\ \A a : Targets(o, a)' = Targets(o, a)
      /\ ArchOf(o)' = ArchOf(o) /\ Running(o)' = Running(o)
  BY <1>1, <1>2, TargetsStay DEF ArchOf, Running
<1>4. DOMAIN stdout = Outers /\ DOMAIN child = Outers /\ DOMAIN link = Names
      /\ stdout[o] \in Seq(Names \union {"null"})
  BY DEF Types, Processes
<1>5. CASE stdout' = stdout /\ child'[o] \in {"script", "compiles", "nested", "fails", "failed"}
  BY <1>1, <1>2, <1>3, <1>5 DEF Telling
<1>6. CASE TakesLock(o) \/ RunsScript(o) \/ GivesUp(o)
  BY <1>4, <1>5, <1>6, ScriptRunsAgain DEF TakesLock, RunsScript, GivesUp
<1>7. CASE Compile(o)
  <2>1. CASE child'[o] = "links"
    <3>1. /\ stdout' = stdout
          /\ link' = [n \in Names |-> IF n \notin Targets(o, ArchOf(o)) THEN "none"
                                      ELSE IF Fresh(ArchOf(o), n) THEN "linked" ELSE "look"]
      BY <1>4, <1>7, <2>1 DEF Compile
    <3>2. \A n \in Names : /\ link'[n] # "none" <=> n \in Targets(o, ArchOf(o))
                           /\ link'[n] # "told"
      BY <3>1
    <3> QED
      BY <1>1, <1>2, <1>3, <2>1, <3>1, <3>2 DEF Telling
  <2>2. CASE child'[o] # "links"
    BY <1>4, <1>5, <1>7, <2>2 DEF Compile
  <2> QED
    BY <2>1, <2>2
<1>8. ASSUME NEW n \in Names, Tells(o, n)
      PROVE  Telling(o)'
  <2>1. /\ child[o] = "links" /\ child' = child /\ stdout'[o] = Append(stdout[o], n) /\ link[n] = "linked"
        /\ link' = [link EXCEPT ![n] = "told"]
    BY <1>4, <1>8 DEF Tells
  <2>2. Range(stdout'[o]) = Range(stdout[o]) \union {n}
    BY <1>4, <2>1, RangeOfAppend
  <2>3. n \in Targets(o, ArchOf(o))
    BY <2>1 DEF Telling
  <2>4. \A m \in Names : /\ link'[m] # "none" <=> m \in Targets(o, ArchOf(o))
                         /\ link'[m] = "told" => m \in found[o][arch[o]] \union Range(stdout'[o])
    BY <1>4, <2>1, <2>2, <2>3 DEF Telling
  <2> QED
    BY <1>1, <1>2, <1>3, <2>1, <2>2, <2>3, <2>4 DEF Telling
<1>9. CASE Exits(o)
  <2>1. CASE child'[o] = "failed"
    BY <1>4, <1>5, <1>9, <2>1 DEF Exits
  <2>2. CASE child'[o] # "failed"
    <3>1. /\ child[o] = "links" /\ child'[o] = "succeeded" /\ stdout'[o] = Append(stdout[o], "null")
          /\ \A n \in Names : link[n] \in {"none", "told"}
      BY <1>4, <1>9, <2>2 DEF Exits
    <3>2. Range(stdout'[o]) = Range(stdout[o]) \union {"null"}
      BY <1>4, <3>1, RangeOfAppend
    <3>3. Targets(o, ArchOf(o)) \subseteq Names
      BY NamesAssumption DEF Targets, Selected, Types, Fixed, Package
    <3>4. Targets(o, ArchOf(o)) \subseteq found[o][arch[o]] \union Range(stdout[o])
      BY <3>1, <3>3 DEF Telling
    <3> QED
      BY <1>1, <1>2, <1>3, <3>1, <3>2, <3>4 DEF Telling
  <2> QED
    BY <2>1, <2>2
<1> QED
  BY <1>6, <1>7, <1>8, <1>9 DEF Cargo

LEMMA TellingStep ==
  ASSUME ReadsAsWanted, Types, Types', Turns, \A p \in Outers : Phase(p), \A p \in Outers : Telling(p), Next
  PROVE  \A p \in Outers : Telling(p)'
<1>1. project' = project /\ Package' = Package
  BY PackageStays
<1>2. CASE StepAside
  <2>1. UNCHANGED <<script, child, stdout>> /\ \A p \in Outers : Same(p)
    BY <1>2, AllStay DEF Same
  <2>2. CASE link' = link
    BY <1>1, <2>1, <2>2, TellingStays
  <2>3. ASSUME NEW n \in Names, Linker(n)
        PROVE  \A p \in Outers : Telling(p)'
    <3>1. /\ \A m \in Names : m # n => link'[m] = link[m]
          /\ link[n] \notin {"none", "told"} /\ link'[n] \notin {"none", "told"}
      BY <2>3 DEF Types, Processes, Linker, Look, Objcopy, Rename, Gcc, LinkGoes
    <3>2. SUFFICES ASSUME NEW p \in Outers PROVE Telling(p)'
      OBVIOUS
    <3>3. /\ \A a : Targets(p, a)' = Targets(p, a)
          /\ ArchOf(p)' = ArchOf(p) /\ Running(p)' = Running(p)
      BY <1>1, <2>1, TargetsStay DEF ArchOf, Running
    <3>4. child[p] = "links" =>
            \A m \in Names :
              /\ link'[m] # "none" <=> m \in Targets(p, ArchOf(p))
              /\ link'[m] = "told" => m \in found[p][arch[p]] \union Range(stdout[p])
      BY <3>1 DEF Telling
    <3> QED
      BY <1>1, <2>1, <3>3, <3>4 DEF Telling
  <2>4. link' = link \/ \E n \in Names : Linker(n)
    BY <1>2 DEF StepAside, Delete, Edit
  <2> QED
    BY <2>2, <2>3, <2>4
<1>3. ASSUME NEW o \in Outers, StepOf(o)
      PROVE  \A p \in Outers : Telling(p)'
  <2>1. \A p \in Outers \ {o} : Telling(p)'
    BY <1>1, <1>3, OthersStay, LinksStay, TellingStays
  <2>2. CASE Skips(o) \/ Begins(o)
    <3>1. /\ pc'[o] \in {"skipped", "kept", "pair"} /\ ~Running(o)
          /\ UNCHANGED <<arch, found, halves, child, stdout>>
          /\ pc'[o] = "pair" => Begins(o)
      BY <2>2 DEF Skips, Begins, Goto, Types, Processes
    <3>2. child[o] = "none" /\ arch[o] = 1 /\ found[o] = [a \in 1..2 |-> {}] /\ stdout[o] = <<>>
      BY <3>1 DEF Phase, Running, Ended
    <3>3. ASSUME pc'[o] = "pair"
          PROVE  (Selected(project, args[o]) = Package.wants)'
      <4>1. /\ \E env \in Package.envs : ~declines(Package.entry, env)
            /\ args' = [args EXCEPT ![o] = IF Package.entry = "apeify" THEN project.args ELSE <<>>]
        BY <3>1, <3>3 DEF Begins
      <4>2. args'[o] = IF Package.entry = "apeify" THEN parse(Package.toml) ELSE <<>>
        BY <4>1 DEF Types, Processes, Fixed
      <4>3. project.name \in DOMAIN Packages
        BY DEF Types, Fixed
      <4>4. Selected(Package, args'[o]) = Package.wants
        BY <4>1, <4>2, <4>3 DEF ReadsAsWanted, Package
      <4>5. Selected(project, args'[o]) = Selected(Package, args'[o])
        BY SelectedOfPackage DEF Types
      <4> QED
        BY <1>1, <4>4, <4>5
    <3>4. Running(o)' => pc'[o] = "pair"
      BY <3>1 DEF Running, Ended
    <3>5. Telling(o)'
      BY <3>1, <3>2, <3>3, <3>4, TellingNothing
    <3> QED
      BY <2>1, <3>5
  <2>3. CASE Fails(o) \/ Succeeds(o) \/ Kill(o)
    <3>1. Telling(o)'
      BY <2>3, PhaseEnds, TellingNothing DEF Running, Ended
    <3> QED
      BY <2>1, <3>1
  <2>4. CASE Goes(o)
    BY <2>1, <2>4, TellingGoes
  <2>5. CASE Echo(o)
    BY <1>1, <2>5, TellingStays DEF Echo, Same
  <2>6. CASE Cargo(o)
    BY <2>1, <2>6, TellingCargo
  <2> QED
    BY <1>3, <2>2, <2>3, <2>4, <2>5, <2>6 DEF StepOf
<1> QED
  BY <1>2, <1>3, StepSorts

-------------------------------------------------------------------------------
(* The native copies and what is linked with them.                            *)

LEMMA NativeTyped ==
  ASSUME Types, NEW a \in Arches
  PROVE  /\ rlib[a] \in File /\ rlib[a].time \in Nat
         /\ native[a] \in [Names \union {"out"} -> File]
         /\ native[a]["out"] \in File /\ native[a]["out"].time \in Nat
         /\ binary[a] \in [Names -> Binary]
         /\ DOMAIN native = Arches /\ DOMAIN binary = Arches /\ DOMAIN rlib = Arches /\ DOMAIN link = Names
<1>1. rlib[a] \in File /\ native[a] \in [Names \union {"out"} -> File] /\ binary[a] \in [Names -> Binary]
  BY DEF Types, Disk
<1>2. native[a]["out"] \in File
  BY <1>1
<1> QED
  BY <1>1, <1>2 DEF File, Types, Disk, Processes

\* A linker's step changes its own copy and executable, or puts the copy of the rlib in place.
LEMMA LinkerStep ==
  ASSUME Types, NEW n \in Names, Linker(n), NEW a \in Arches, a = LinkArch, CopyIsOld(a),
         \A m \in Names : LinksWith(m, a)
  PROVE  /\ \A b \in Arches \ {a} : native'[b] = native[b] /\ binary'[b] = binary[b]
         /\ rlib' = rlib
         /\ native'[a]["out"] = native[a]["out"] \/ native'[a]["out"] = rlib[a]
         /\ \A m \in Names : m # n =>
              native'[a][m] = native[a][m] /\ binary'[a][m] = binary[a][m] /\ link'[m] = link[m]
         /\ LinksWith(n, a)'
         /\ link'[n] # "linked" => binary' = binary
<1>1. "out" # n
  BY ApartAssumption
<1>2. CASE Look(n)
  <2>1. binary' = binary /\ rlib' = rlib
    BY <1>2 DEF Look
  <2>2. CASE up_to_date(a)
    <3>1. native[a]["out"] = rlib[a]
      BY <2>2, NativeTyped DEF up_to_date, CopyIsOld
    <3>2. link' = [link EXCEPT ![n] = "gcc"] /\ native' = native
      BY <1>2, <2>2 DEF Look, LinkGoes
    <3> QED
      BY <2>1, <3>1, <3>2, NativeTyped DEF LinksWith
  <2>3. CASE ~up_to_date(a)
    <3>1. /\ link' = [link EXCEPT ![n] = "objcopy"]
          /\ native' = [native EXCEPT ![a] = [native[a] EXCEPT ![n] = [version |-> "part", time |-> rlib[a].time]]]
      BY <1>2, <2>3 DEF Look, LinkGoes, tmp
    <3> DEFINE row == [native[a] EXCEPT ![n] = [version |-> "part", time |-> rlib[a].time]]
    <3>2. row["out"] = native[a]["out"] /\ \A m \in Names : m # n => row[m] = native[a][m]
      BY <1>1, NativeTyped
    <3> HIDE DEF row
    <3>3. native' = [native EXCEPT ![a] = row]
      BY <3>1 DEF row
    <3> QED
      BY <2>1, <3>1, <3>2, <3>3, NativeTyped DEF LinksWith
  <2> QED
    BY <2>2, <2>3
<1>3. CASE Objcopy(n)
  <2>1. binary' = binary /\ rlib' = rlib
    BY <1>3 DEF Objcopy
  <2>2. PICK v \in {rlib[a], Absent}, l \in {"rename", "failed"} :
          /\ link' = [link EXCEPT ![n] = l]
          /\ native' = [native EXCEPT ![a] = [native[a] EXCEPT ![n] = v]]
          /\ l = "rename" => v = rlib[a]
    BY <1>3 DEF Objcopy, LinkGoes, tmp
  <2> DEFINE row == [native[a] EXCEPT ![n] = v]
  <2>3. row[n] = v /\ row["out"] = native[a]["out"] /\ \A m \in Names : m # n => row[m] = native[a][m]
    BY <1>1, NativeTyped
  <2> HIDE DEF row
  <2>4. native' = [native EXCEPT ![a] = row]
    BY <2>2 DEF row
  <2> QED
    BY <2>1, <2>2, <2>3, <2>4, NativeTyped DEF LinksWith
<1>4. CASE Rename(n)
  <2>1. binary' = binary /\ rlib' = rlib /\ link[n] = "rename" /\ native[a][n] = rlib[a]
    BY <1>4 DEF Rename, LinksWith
  <2> DEFINE gone == [native[a] EXCEPT ![n] = Absent]
             done == [gone EXCEPT !["out"] = native[a][n]]
  <2>2. /\ gone["out"] = native[a]["out"] /\ \A m \in Names : m # n => gone[m] = native[a][m]
        /\ done["out"] = rlib[a] /\ \A m \in Names : m # n => done[m] = native[a][m]
    BY <1>1, <2>1, NativeTyped, ApartAssumption
  <2>3. \/ link' = [link EXCEPT ![n] = "gcc"] /\ native' = [native EXCEPT ![a] = done]
        \/ /\ \E m \in Names \ {n} : link[m] = "gcc"
           /\ \E l \in {"gcc", "failed"} : link' = [link EXCEPT ![n] = l]
           /\ native' = [native EXCEPT ![a] = gone]
    BY <1>4 DEF Rename, LinkGoes, tmp
  <2> HIDE DEF gone, done
  <2>4. (\E m \in Names \ {n} : link[m] = "gcc") => native[a]["out"] = rlib[a]
    BY DEF LinksWith
  <2> QED
    BY <2>1, <2>2, <2>3, <2>4, NativeTyped DEF LinksWith
<1>5. CASE Gcc(n)
  <2>1. native' = native /\ rlib' = rlib /\ link[n] = "gcc" /\ native[a]["out"] = rlib[a]
    BY <1>5 DEF Gcc, LinksWith
  <2>2. CASE link' = [link EXCEPT ![n] = "failed"] /\ binary' = binary
    BY <2>1, <2>2, NativeTyped DEF LinksWith
  <2>3. CASE /\ link' = [link EXCEPT ![n] = "linked"]
             /\ binary' = [binary EXCEPT ![a] = [binary[a] EXCEPT ![n] =
                             [rust |-> rlib[a].version, c |-> native[a]["out"].version]]]
    <3> DEFINE row == [binary[a] EXCEPT ![n] = [rust |-> rlib[a].version, c |-> rlib[a].version]]
    <3>1. /\ row[n] = [rust |-> rlib[a].version, c |-> rlib[a].version]
          /\ \A m \in Names : m # n => row[m] = binary[a][m]
      BY NativeTyped
    <3>2. binary' = [binary EXCEPT ![a] = row]
      BY <2>1, <2>3
    <3> HIDE DEF row
    <3> QED
      BY <2>1, <2>3, <3>1, <3>2, NativeTyped DEF LinksWith
  <2> QED
    BY <1>5, <2>2, <2>3 DEF Gcc, LinkGoes
<1> QED
  BY <1>2, <1>3, <1>4, <1>5 DEF Linker

LEMMA CopiesStep ==
  ASSUME Types, Turns, \A p \in Outers : Phase(p), Copies, Next
  PROVE  Copies'
<1> USE DEF Copies
<1>1. ASSUME UNCHANGED <<rlib, native, binary, arch>>,
             \A p \in Outers : child'[p] = "links" => child[p] = "links" /\ link' = link
      PROVE  Copies'
  BY <1>1 DEF CopyIsOld, LinksWith, ArchOf
<1>2. CASE StepAside
  <2>1. UNCHANGED <<script, child, holder>>
    BY <1>2, AllStay
  <2>2. CASE UNCHANGED <<rlib, native, binary, link>>
    BY <1>1, <2>1, <2>2
  <2>3. ASSUME NEW n \in Names, Linker(n)
        PROVE  Copies'
    <3>1. PICK o \in Outers : holder["cosmo-inner"] = o /\ child[o] = "links" /\ LinkArch = ArchOf(o)
      BY <2>3, LinkingCargo DEF Types
    <3>2. PICK a \in Arches : a = ArchOf(o) /\ a = LinkArch
      BY <3>1, ArchTyped DEF Types
    <3>3. CopyIsOld(a) /\ \A m \in Names : LinksWith(m, a)
      BY <3>1, <3>2
    <3>4. /\ \A b \in Arches \ {a} : native'[b] = native[b] /\ binary'[b] = binary[b]
          /\ rlib' = rlib
          /\ native'[a]["out"] = native[a]["out"] \/ native'[a]["out"] = rlib[a]
          /\ \A m \in Names : m # n =>
               native'[a][m] = native[a][m] /\ binary'[a][m] = binary[a][m] /\ link'[m] = link[m]
          /\ LinksWith(n, a)'
      BY <2>3, <3>1, <3>2, <3>3, LinkerStep
    <3>5. \A b \in Arches : CopyIsOld(b)'
      BY <3>2, <3>4 DEF CopyIsOld
    <3>6. \A m \in Names : LinksWith(m, a)'
      <4> SUFFICES ASSUME NEW m \in Names, m # n PROVE LinksWith(m, a)'
        BY <3>4
      <4>1. link'[m] = link[m] /\ native'[a][m] = native[a][m] /\ binary'[a][m] = binary[a][m] /\ rlib' = rlib
        BY <3>4
      <4> QED
        BY <3>3, <3>4, <4>1 DEF LinksWith
    <3>7. \A p \in Outers : child'[p] = "links" => p = o
      BY <2>1, <3>1, OneLinks DEF Locked
    <3>8. ArchOf(o)' = a
      BY <2>1, <3>2 DEF ArchOf
    <3> QED
      BY <3>5, <3>6, <3>7, <3>8
  <2>4. UNCHANGED <<rlib, native, binary, link>> \/ \E n \in Names : Linker(n)
    BY <1>2 DEF StepAside, Delete, Edit
  <2> QED
    BY <2>2, <2>3, <2>4
<1>3. ASSUME NEW o \in Outers, StepOf(o)
      PROVE  Copies'
  <2>1. \A p \in Outers \ {o} : child'[p] = child[p] /\ arch'[p] = arch[p]
    BY <1>3, OthersStay DEF Same
  <2>2. \A p \in Outers \ {o} : child[p] = "links" => UNCHANGED <<rlib, native, binary, link>>
    BY <1>3, LinksStay
  <2>3. ASSUME UNCHANGED <<rlib, native, binary>>, child'[o] # "links"
        PROVE  Copies'
    BY <2>1, <2>2, <2>3 DEF CopyIsOld, LinksWith, ArchOf
  <2>4. CASE ~Cargo(o)
    <3>1. UNCHANGED <<rlib, native, binary>>
      BY <1>3, <2>4 DEF StepOf, Skips, Begins, Fails, Succeeds, Ends, Goes, Prepares, Elsewhere, Spawn,
        ReadStdout, SecondArch, BothBuilt, Collected, Apelink, Fused, NextPair, Echo, Kill
    <3>2. child'[o] = "links" => child' = child /\ arch' = arch /\ link' = link
      <4>1. CASE Skips(o) \/ Begins(o) \/ Echo(o)
        BY <4>1 DEF Skips, Begins, Echo
      <4>2. CASE Fails(o) \/ Succeeds(o) \/ Kill(o)
        BY <4>2, PhaseEnds
      <4>3. CASE Spawn(o)
        BY <4>3 DEF Spawn, Types, Processes
      <4>4. CASE SecondArch(o)
        BY <4>4 DEF SecondArch, Collected
      <4>5. CASE Goes(o) /\ ~Spawn(o) /\ ~SecondArch(o)
        BY <4>5 DEF Goes, Prepares, Elsewhere, ReadStdout, BothBuilt, Collected, Apelink, Fused, NextPair
      <4> QED
        BY <1>3, <2>4, <4>1, <4>2, <4>3, <4>4, <4>5 DEF StepOf
    <3> QED
      BY <1>1, <2>3, <3>1, <3>2
  <2>5. CASE TakesLock(o) \/ RunsScript(o) \/ GivesUp(o) \/ Exits(o)
    BY <2>3, <2>5, ScriptRunsAgain DEF TakesLock, RunsScript, GivesUp, Exits, Child, Types, Processes, Gone
  <2>6. CASE Compile(o)
    <3>1. PICK a \in Arches : a = ArchOf(o) /\ ArchOf(o)' = a
      BY <2>6, ArchTyped DEF Types, Compile, ArchOf
    <3>2. child[o] = "compiles" /\ native' = native /\ binary' = binary
      BY <2>6 DEF Compile
    <3>3. CASE child'[o] = "links"
      <4>1. /\ rlib' = IF rlib[a].version = source THEN rlib
                       ELSE [rlib EXCEPT ![a] = [version |-> source, time |-> rlib[a].time + 1]]
            /\ link' = [n \in Names |-> IF n \notin Targets(o, a) THEN "none"
                                        ELSE IF Fresh(a, n) THEN "linked" ELSE "look"]
        BY <2>6, <3>1, <3>3 DEF Compile, Child, Types, Processes
      <4>2. \A b \in Arches : CopyIsOld(b)'
        <5> SUFFICES ASSUME NEW b \in Arches PROVE CopyIsOld(b)'
          OBVIOUS
        <5>1. CopyIsOld(b) /\ rlib[b].time \in Nat /\ native[b]["out"].time \in Nat
          BY NativeTyped
        <5>2. rlib'[b] = rlib[b] \/ rlib'[b].time = rlib[b].time + 1
          BY <4>1, NativeTyped
        <5> QED
          BY <3>2, <5>1, <5>2 DEF CopyIsOld
      <4>3. \A n \in Names : LinksWith(n, a)'
        <5> SUFFICES ASSUME NEW n \in Names PROVE LinksWith(n, a)'
          OBVIOUS
        <5>1. link'[n] \in {"none", "look", "linked"}
          BY <4>1
        <5>2. link'[n] = "linked" => binary[a][n] = [rust |-> source, c |-> source] /\ rlib[a].version = source
          BY <4>1 DEF Fresh
        <5>3. rlib[a].version = source => rlib' = rlib
          BY <4>1
        <5> QED
          BY <3>2, <5>1, <5>2, <5>3 DEF LinksWith
      <4>4. \A p \in Outers : child'[p] = "links" => p = o
        BY <2>1, <3>2, OneLinks DEF Locked
      <4> QED
        BY <3>1, <4>2, <4>3, <4>4
    <3>4. CASE child'[o] # "links"
      <4>1. rlib' = rlib
        BY <2>6, <3>4 DEF Compile, Child, Types, Processes
      <4> QED
        BY <2>3, <3>2, <3>4, <4>1
    <3> QED
      BY <3>3, <3>4
  <2>7. ASSUME NEW n \in Names, Tells(o, n)
        PROVE  Copies'
    <3>1. /\ UNCHANGED <<rlib, native, binary, child, arch>> /\ link' = [link EXCEPT ![n] = "told"]
          /\ link[n] = "linked" /\ child[o] = "links"
      BY <2>7 DEF Tells
    <3>2. ASSUME NEW m \in Names, NEW b \in Arches, LinksWith(m, b)
          PROVE  LinksWith(m, b)'
      BY <3>1, <3>2 DEF LinksWith, Types, Processes
    <3>3. \A p \in Outers : ArchOf(p)' = ArchOf(p) /\ ArchOf(p) \in Arches
      BY <3>1, ArchTyped DEF Types, ArchOf
    <3>4. \A b \in Arches : CopyIsOld(b)'
      BY <3>1 DEF CopyIsOld
    <3> QED
      BY <3>1, <3>2, <3>3, <3>4
  <2> QED
    BY <2>4, <2>5, <2>6, <2>7 DEF Cargo
<1> QED
  BY <1>2, <1>3, StepSorts

-------------------------------------------------------------------------------
(* The APEs that are cut short or refused.                                    *)

\* Once both cargos have told all, the pairs are what the package wants.
LEMMA AllPairsFound ==
  ASSUME Types, NEW o \in Outers, Phase(o), Telling(o), BothBuilt(o)
  PROVE  Pairs(o)' = Wanted
<1>1. /\ pc[o] = "reads" /\ child[o] = "succeeded" /\ stdout[o] = <<>> /\ arch[o] = 2 /\ found' = found
  BY ArchTyped DEF BothBuilt, Collected, Types
<1>2. Running(o) /\ ARCHES[1] = "x86_64" /\ ARCHES[2] = "aarch64"
  BY <1>1 DEF Running, Ended, ARCHES
<1>3. /\ Targets(o, "x86_64") = Package.wants
      /\ Targets(o, "aarch64") = Wanted
  BY <1>2 DEF Telling, Targets, Wanted
<1>4. found[o][1] \subseteq Targets(o, "x86_64") /\ found[o][2] \subseteq Targets(o, "aarch64")
  BY <1>2 DEF Telling
<1>5. Targets(o, "x86_64") \subseteq found[o][1]
  BY <1>1 DEF Telling
<1>6. Targets(o, "aarch64") \subseteq found[o][2]
  <2>1. ArchOf(o) = "aarch64"
    BY <1>1, <1>2 DEF ArchOf
  <2>2. Targets(o, ArchOf(o)) \subseteq found[o][2] \union Range(<<>>)
    BY <1>1 DEF Telling
  <2> QED
    BY <2>1, <2>2, RangeOfEmpty
<1>7. found[o][1] = Package.wants /\ found[o][2] = Wanted
  BY <1>3, <1>4, <1>5, <1>6
<1>8. Pairs(o)' = found[o][1] \intersect found[o][2]
  BY <1>1 DEF Pairs
<1> QED
  BY <1>7, <1>8 DEF Wanted

\* What a build has found on both sides the package wants.
LEMMA PairsAreWanted ==
  ASSUME Types, NEW o \in Outers, Telling(o), Running(o)
  PROVE  Pairs(o) \subseteq Wanted /\ Pairs(o) \subseteq Names
<1>1. Selected(project, args[o]) = Package.wants /\ ARCHES[2] = "aarch64"
  BY DEF Telling, ARCHES
<1>2. found[o][2] \subseteq Targets(o, "aarch64") /\ found[o][2] \subseteq Names
  BY <1>1, FoundTyped DEF Telling, Types
<1> QED
  BY <1>1, <1>2 DEF Pairs, Targets, Wanted

LEMMA ComTyped ==
  ASSUME Types, NEW n \in Names
  PROVE  /\ com[n] \in [is : {"none", "part", "good", "bad"}, x86 : Binary, arm : Binary,
                        by : Outers \union {"none"}]
         /\ DOMAIN com = Names /\ com[n].by \in Outers \union {"none"}
<1>1. com[n] \in [is : {"none", "part", "good", "bad"}, x86 : Binary, arm : Binary,
                  by : Outers \union {"none"}]
  BY DEF Types, Disk
<1> QED
  BY <1>1 DEF Types, Disk

LEMMA RefusalsStep ==
  ASSUME Types, \A p \in Outers : Phase(p), \A p \in Outers : Telling(p), Refusals, Next
  PROVE  Refusals'
<1> USE DEF Goto
<1>1. Wanted' = Wanted
  BY PackageStays DEF Wanted
<1>2. \A n \in Names : Refusal(n)
  BY DEF Refusals, Refusal
<1>3. SUFFICES ASSUME NEW n \in Names PROVE Refusal(n)'
  BY DEF Refusals, Refusal
<1>4. CASE StepAside
  <2>1. UNCHANGED script
    BY <1>4, AllStay
  <2>2. \A p \in Outers : Pairs(p)' = Pairs(p)
    BY <2>1 DEF Pairs
  <2>3. com'[n] = com[n] \/ com'[n] = NoCom
    BY <1>4, ComTyped DEF StepAside, Linker, Look, Objcopy, Rename, Gcc, Delete, Edit
  <2>4. CASE com'[n] = com[n]
    BY <1>1, <1>2, <2>1, <2>2, <2>4 DEF Refusal
  <2>5. CASE com'[n] = NoCom
    BY <2>5 DEF Refusal, NoCom
  <2> QED
    BY <2>3, <2>4, <2>5
<1>5. ASSUME NEW o \in Outers, StepOf(o)
      PROVE  Refusal(n)'
  <2>1. \A p \in Outers \ {o} : pc'[p] = pc[p] /\ Pairs(p)' = Pairs(p)
    BY <1>5, OthersStay DEF Same, Pairs
  <2>2. ASSUME com' = com, pc'[o] # "ok", pc'[o] \in Fusing => com[n].by # o \/ n \in Pairs(o)'
                                                               \/ com[n].is \notin {"part", "bad"}
        PROVE  Refusal(n)'
    BY <1>1, <1>2, <2>1, <2>2 DEF Refusal
  <2>3. CASE Skips(o) \/ Begins(o)
    <3>1. pc'[o] \in {"skipped", "kept", "pair"} /\ com' = com
      BY <2>3 DEF Skips, Begins, Types, Processes
    <3> QED
      BY <2>2, <3>1 DEF Fusing, Cutting
  <2>4. CASE Fails(o) \/ Kill(o)
    <3>1. pc'[o] \in {"err", "dead"} /\ com' = com
      BY <2>4 DEF Fails, Ends, Kill, Types, Processes
    <3> QED
      BY <2>2, <3>1 DEF Fusing, Cutting
  <2>5. CASE Succeeds(o)
    <3>1. /\ com' = com /\ Pairs(o) = {halves[o].of} /\ com[halves[o].of].is = "good"
          /\ pc[o] = "pecheck" /\ pc'[o] = "ok"
      BY <2>5 DEF Succeeds, Ends, Types, Processes
    <3>2. com[n].is \in {"part", "bad"} => com[n].by # o
      BY <1>2, <3>1 DEF Refusal, Fusing, Cutting
    <3> QED
      BY <1>1, <1>2, <2>1, <3>1, <3>2 DEF Refusal
  <2>6. CASE Prepares(o) \/ Spawn(o) \/ ReadStdout(o) \/ SecondArch(o)
    <3>1. pc'[o] \in {"prepare", "reads"} /\ com' = com
      BY <2>6 DEF Prepares, Elsewhere, Spawn, ReadStdout, SecondArch, Collected, Types, Processes
    <3> QED
      BY <2>2, <3>1 DEF Fusing, Cutting
  <2>7. CASE BothBuilt(o)
    <3>1. pc'[o] = "fuse" /\ com' = com /\ Pairs(o)' = Wanted
      BY <2>7, AllPairsFound DEF BothBuilt, Collected, Types, Processes
    <3>2. com[n].is \in {"part", "bad"} => n \in Wanted
      BY <1>2 DEF Refusal
    <3> QED
      BY <2>2, <3>1, <3>2
  <2>8. CASE Apelink(o)
    <3>1. PICK m \in Pairs(o) :
            com' = [com EXCEPT ![m] = [is |-> "part", x86 |-> NoBinary, arm |-> NoBinary, by |-> o]]
      BY <2>8 DEF Apelink
    <3>2. pc[o] = "fuse" /\ pc'[o] = "apelink" /\ Pairs(o)' = Pairs(o)
      BY <2>8 DEF Apelink, Types, Processes, Pairs
    <3>3. Pairs(o) \subseteq Wanted
      BY <3>2, PairsAreWanted DEF Running, Ended
    <3>4. CASE n = m
      <4>1. com'[n].is = "part" /\ com'[n].by = o
        BY <3>1, <3>4, ComTyped
      <4> QED
        BY <1>1, <3>2, <3>3, <3>4, <4>1 DEF Refusal
    <3>5. CASE n # m
      <4>1. com'[n] = com[n]
        BY <3>1, <3>5, ComTyped
      <4> QED
        BY <1>1, <1>2, <2>1, <3>2, <4>1 DEF Refusal, Fusing, Cutting
    <3> QED
      BY <3>4, <3>5
  <2>9. CASE Fused(o)
    <3>1. pc[o] = "apelink" /\ pc'[o] = "pecheck" /\ Pairs(o)' = Pairs(o)
      BY <2>9 DEF Fused, Types, Processes, Pairs
    <3>2. halves[o].of \in Pairs(o) /\ Pairs(o) \subseteq Wanted
      BY <3>1, PairsAreWanted DEF Phase, Cutting, Running, Ended
    <3>3. PICK verdict \in {"good", "bad"} :
            com' = [com EXCEPT ![halves[o].of] = [is |-> verdict, x86 |-> halves[o].x86,
                                                  arm |-> halves[o].arm, by |-> o]]
      BY <2>9 DEF Fused
    <3>4. CASE n = halves[o].of
      <4>1. com'[n].by = o
        BY <3>3, <3>4, ComTyped
      <4> QED
        BY <1>1, <3>1, <3>2, <3>4, <4>1 DEF Refusal
    <3>5. CASE n # halves[o].of
      <4>1. com'[n] = com[n]
        BY <3>3, <3>5, ComTyped
      <4> QED
        BY <1>1, <1>2, <2>1, <3>1, <4>1 DEF Refusal, Fusing, Cutting
    <3> QED
      BY <3>4, <3>5
  <2>10. CASE NextPair(o)
    <3>1. /\ pc[o] = "pecheck" /\ pc'[o] = "fuse" /\ com' = com
          /\ com[halves[o].of].is = "good"
      BY <2>10 DEF NextPair, Types, Processes
    <3>2. Pairs(o)' = Pairs(o) \ {halves[o].of}
      BY <2>10, FoundTyped DEF NextPair, Types, Processes, Pairs
    <3>3. com[n].is \in {"part", "bad"} /\ com[n].by = o => n \in Pairs(o)
      BY <1>2, <3>1 DEF Refusal, Fusing, Cutting
    <3> QED
      BY <2>2, <3>1, <3>2, <3>3
  <2>11. CASE Echo(o) \/ Cargo(o)
    <3>1. com' = com /\ UNCHANGED script
      BY <2>11 DEF Echo, Cargo, TakesLock, RunsScript, Compile, GivesUp, Exits, Tells
    <3> QED
      BY <1>1, <1>2, <3>1 DEF Refusal, Pairs
  <2> QED
    BY <1>5, <2>3, <2>4, <2>5, <2>6, <2>7, <2>8, <2>9, <2>10, <2>11 DEF StepOf, Goes
<1> QED
  BY <1>4, <1>5, StepSorts

-------------------------------------------------------------------------------
(* Builds that met a disturbance.                                             *)

Runners == {o \in Outers : Running(o)}

LEMMA RunnersNext ==
  ASSUME Types, \A p \in Outers : Phase(p), Next
  PROVE  /\ StepAside => Runners' = Runners
         /\ \A o \in Outers :
              /\ Skips(o) \/ Goes(o) \/ Echo(o) \/ Cargo(o) => Runners' = Runners
              /\ Begins(o) => Runners' = Runners \union {o} /\ o \notin Runners
              /\ Fails(o) \/ Succeeds(o) \/ Kill(o) => Runners' = Runners \ {o} /\ o \in Runners
<1>1. ASSUME StepAside
      PROVE  Runners' = Runners
  BY <1>1, AllStay DEF Runners, Running
<1>2. ASSUME NEW o \in Outers, StepOf(o)
      PROVE  \A p \in Outers \ {o} : Running(p)' = Running(p)
  BY <1>2, OthersStay DEF Same, Running
<1>3. ASSUME NEW o \in Outers, Skips(o) \/ Goes(o) \/ Echo(o) \/ Cargo(o)
      PROVE  Runners' = Runners
  <2>1. Running(o)' = Running(o)
    <3>1. CASE Skips(o)
      BY <3>1 DEF Skips, Running, Ended, Goto, Types, Processes
    <3>2. CASE Goes(o)
      <4>1. /\ pc[o] \in {"pair", "prepare", "reads", "fuse", "apelink", "pecheck"}
            /\ pc'[o] \in {"prepare", "reads", "fuse", "apelink", "pecheck"}
        BY <3>2 DEF Goes, Prepares, Elsewhere, Spawn, ReadStdout, SecondArch, BothBuilt, Collected,
                    Apelink, Fused, NextPair, Goto, Types, Processes
      <4> QED
        BY <4>1 DEF Running, Ended
    <3>3. CASE Echo(o) \/ Cargo(o)
      BY <3>3 DEF Echo, Cargo, TakesLock, RunsScript, Compile, GivesUp, Exits, Tells, Running
    <3> QED
      BY <1>3, <3>1, <3>2, <3>3
  <2>2. \A p \in Outers : Running(p)' = Running(p)
    BY <1>2, <1>3, <2>1 DEF StepOf
  <2> QED
    BY <2>2 DEF Runners
<1>4. ASSUME NEW o \in Outers, Begins(o)
      PROVE  Runners' = Runners \union {o} /\ o \notin Runners
  <2>1. ~Running(o) /\ Running(o)'
    BY <1>4 DEF Begins, Running, Ended, Goto, Types, Processes
  <2> QED
    BY <1>2, <1>4, <2>1 DEF StepOf, Runners
<1>5. ASSUME NEW o \in Outers, Fails(o) \/ Succeeds(o) \/ Kill(o)
      PROVE  Runners' = Runners \ {o} /\ o \in Runners
  <2>1. Running(o) /\ ~Running(o)'
    BY <1>5, PhaseEnds
  <2> QED
    BY <1>2, <1>5, <2>1 DEF StepOf, Runners
<1> QED
  BY <1>1, <1>3, <1>4, <1>5

LEMMA AlikeStep ==
  ASSUME Types, \A p \in Outers : Phase(p), Alike, Next
  PROVE  Alike'
<1>1. Alike <=> (disturbed = {} \/ disturbed = Runners) /\ (promised => disturbed = {})
  BY DEF Alike, Runners
<1>2. Alike' <=> (disturbed' = {} \/ disturbed' = Runners') /\ (promised' => disturbed' = {})
  BY DEF Alike, Runners
<1>3. CASE UNCHANGED <<disturbed, promised>> /\ Runners' = Runners
  BY <1>1, <1>2, <1>3
<1>4. CASE StepAside
  <2>1. Runners' = Runners
    BY <1>4, RunnersNext
  <2>2. CASE Edit
    BY <1>2, <2>1, <2>2 DEF Edit, Runners
  <2>3. CASE \E n \in Names : Linker(n) \/ Delete(n)
    <3>1. disturbed' = disturbed /\ (promised' = promised \/ promised' = FALSE)
      BY <2>3 DEF Linker, Look, Objcopy, Rename, Gcc, Delete
    <3> QED
      BY <1>1, <1>2, <2>1, <3>1
  <2> QED
    BY <1>4, <2>2, <2>3 DEF StepAside
<1>5. ASSUME NEW o \in Outers, Skips(o) \/ Goes(o) \/ Echo(o) \/ Cargo(o)
      PROVE  Alike'
  <2>1. UNCHANGED <<disturbed, promised>>
    <3>1. CASE Goes(o)
      BY <3>1 DEF Goes, Prepares, Elsewhere, Spawn, ReadStdout, SecondArch, BothBuilt, Collected,
                  Apelink, Fused, NextPair
    <3>2. CASE Skips(o) \/ Echo(o) \/ Cargo(o)
      BY <3>2 DEF Skips, Echo, Cargo, TakesLock, RunsScript, Compile, GivesUp, Exits, Tells
    <3> QED
      BY <1>5, <3>1, <3>2
  <2> QED
    BY <1>3, <1>5, <2>1, RunnersNext
<1>6. ASSUME NEW o \in Outers, Begins(o)
      PROVE  Alike'
  <2>1. Runners' = Runners \union {o} /\ o \notin Runners
    BY <1>6, RunnersNext
  <2>2. /\ promised' = promised
        /\ (\E p \in disturbed : Running(p)) => disturbed' = disturbed \union {o}
        /\ ~(\E p \in disturbed : Running(p)) => disturbed' = disturbed \ {o}
    BY <1>6 DEF Begins
  <2>3. \A p \in Runners : Running(p)
    BY DEF Runners
  <2> QED
    BY <1>1, <1>2, <2>1, <2>2, <2>3
<1>7. ASSUME NEW o \in Outers, Fails(o) \/ Kill(o)
      PROVE  Alike'
  <2>1. Runners' = Runners \ {o} /\ o \in Runners
    BY <1>7, RunnersNext
  <2>2. disturbed' = (disturbed \ {o}) \union {p \in Outers \ {o} : Running(p)} /\ promised' = FALSE
    BY <1>7 DEF Fails, Kill, Ends
  <2>3. {p \in Outers \ {o} : Running(p)} = Runners \ {o}
    BY DEF Runners
  <2> QED
    BY <1>1, <1>2, <2>1, <2>2, <2>3
<1>8. ASSUME NEW o \in Outers, Succeeds(o)
      PROVE  Alike'
  <2>1. Runners' = Runners \ {o} /\ o \in Runners
    BY <1>8, RunnersNext
  <2>2. disturbed' = disturbed \ {o} /\ promised' = (o \notin disturbed)
    BY <1>8 DEF Succeeds, Ends
  <2>3. promised' => disturbed = {}
    BY <1>1, <2>1, <2>2
  <2> QED
    BY <1>1, <1>2, <2>1, <2>2, <2>3
<1> QED
  BY <1>4, <1>5, <1>6, <1>7, <1>8, StepSorts DEF StepOf

-------------------------------------------------------------------------------
(* What is of the present sources.                                            *)

\* With nobody at more than its start, and nothing promised, there is nothing to say.
LEMMA Quiet ==
  ASSUME \A p \in Outers : Phase(p)', \A p \in Outers : ~Running(p)' \/ (pc[p] = "pair" /\ found[p] = [a \in 1..2 |-> {}])',
         promised' = FALSE
  PROVE  InHand' /\ DoneWith'
<1>1. ASSUME NEW p \in Outers
      PROVE  /\ pc'[p] \notin Fusing /\ pc'[p] \notin Cutting /\ child'[p] = "none"
             /\ found'[p] = [a \in 1..2 |-> {}] /\ stdout'[p] = <<>>
  <2>1. ~Running(p)' \/ pc'[p] = "pair"
    OBVIOUS
  <2>2. pc'[p] \notin {"reads", "fuse", "apelink", "pecheck"}
    BY <2>1 DEF Running, Ended
  <2> QED
    BY <2>1, <2>2 DEF Phase, Fusing, Cutting
<1>2. ASSUME NEW p \in Outers
      PROVE  Holds(p)'
  <2>1. \A a \in 1..2 : found'[p][a] = {}
    BY <1>1
  <2> QED
    BY <1>1, <2>1, RangeOfEmpty DEF Holds
<1> QED
  BY <1>1, <1>2 DEF InHand, DoneWith, Done

\* What a step does to all that is current.
Keeps ==
  /\ source' = source
  /\ \A a \in Arches : \A n \in Names : Current(binary[a][n]) => Current(binary[a][n])'
  /\ \A a \in Arches : rlib[a].version = source => rlib'[a].version = source

\* Without an edit the sources are the same, and what is current stays so: an executable is
\* linked again for a cargo that has compiled the present ones.
LEMMA CurrentStays ==
  ASSUME Types, \A p \in Outers : Phase(p), Copies, InHand, Next, edits' = edits
  PROVE  Keeps
<1>1. source' = source
  BY DEF source
<1>2. \A a \in Arches : rlib[a].version = source => rlib'[a].version = source
  <2>1. rlib' = rlib \/ \E o \in Outers : Compile(o)
    <3>1. ASSUME NEW o \in Outers, StepOf(o)
          PROVE  rlib' = rlib \/ Compile(o)
      BY <3>1 DEF StepOf, Skips, Begins, Fails, Succeeds, Ends, Goes, Prepares, Elsewhere, Spawn,
        ReadStdout, SecondArch, BothBuilt, Collected, Apelink, Fused, NextPair, Echo, Kill,
        Cargo, TakesLock, RunsScript, GivesUp, Exits, Tells
    <3>2. StepAside => rlib' = rlib
      BY DEF StepAside, Linker, Look, Objcopy, Rename, Gcc, Delete, Edit
    <3> QED
      BY <3>1, <3>2, StepSorts
  <2>2. ASSUME NEW o \in Outers, Compile(o), NEW a \in Arches, rlib[a].version = source
        PROVE  rlib'[a].version = source
    <3>1. ArchOf(o) \in Arches
      BY ArchTyped DEF Types
    <3>2. \/ rlib' = rlib
          \/ rlib' = [rlib EXCEPT ![ArchOf(o)] = [version |-> source, time |-> rlib[ArchOf(o)].time + 1]]
      BY <2>2 DEF Compile
    <3> QED
      BY <2>2, <3>1, <3>2, NativeTyped
  <2> QED
    BY <2>1, <2>2
<1>3. \A a \in Arches : \A n \in Names : Current(binary[a][n]) => Current(binary[a][n])'
  <2>1. binary' = binary \/ \E n \in Names : Gcc(n)
    <3>1. ASSUME NEW o \in Outers, StepOf(o)
          PROVE  binary' = binary
      BY <3>1 DEF StepOf, Skips, Begins, Fails, Succeeds, Ends, Goes, Prepares, Elsewhere, Spawn,
        ReadStdout, SecondArch, BothBuilt, Collected, Apelink, Fused, NextPair, Echo, Kill,
        Cargo, TakesLock, RunsScript, Compile, GivesUp, Exits, Tells
    <3>2. StepAside => binary' = binary \/ \E n \in Names : Gcc(n)
      BY DEF StepAside, Linker, Look, Objcopy, Rename, Delete, Edit
    <3> QED
      BY <3>1, <3>2, StepSorts
  <2>2. CASE binary' = binary
    BY <1>1, <2>2 DEF Current
  <2>3. ASSUME NEW n \in Names, Gcc(n), NEW b \in Arches, NEW m \in Names, Current(binary[b][m])
        PROVE  Current(binary[b][m])'
    <3>1. Linker(n)
      BY <2>3 DEF Linker
    <3>2. PICK o \in Outers : holder["cosmo-inner"] = o /\ child[o] = "links" /\ LinkArch = ArchOf(o)
      BY <3>1, LinkingCargo DEF Types
    <3>3. PICK a \in Arches : a = LinkArch /\ a = ArchOf(o)
      BY <3>2, ArchTyped DEF Types
    <3>4. CopyIsOld(a) /\ (\A x \in Names : LinksWith(x, a)) /\ rlib[a].version = source
      BY <3>2, <3>3 DEF Copies, InHand, Holds
    <3>5. /\ \A c \in Arches \ {a} : binary'[c] = binary[c]
          /\ \A x \in Names : x # n => binary'[a][x] = binary[a][x]
          /\ LinksWith(n, a)'
          /\ rlib' = rlib
          /\ link'[n] # "linked" => binary' = binary
      BY <3>1, <3>3, <3>4, LinkerStep
    <3>6. CASE b = a /\ m = n /\ link'[n] = "linked"
      <4>1. binary'[a][n] = [rust |-> source, c |-> source]
        BY <3>4, <3>5, <3>6 DEF LinksWith
      <4> QED
        BY <1>1, <3>6, <4>1 DEF Current
    <3>7. CASE ~(b = a /\ m = n /\ link'[n] = "linked")
      <4>1. binary'[b][m] = binary[b][m]
        BY <3>5, <3>7
      <4> QED
        BY <1>1, <2>3, <4>1 DEF Current
    <3> QED
      BY <3>6, <3>7
  <2> QED
    BY <2>1, <2>2, <2>3
<1> QED
  BY <1>1, <1>2, <1>3 DEF Keeps

\* An APE is left alone, or cut short, or of the present sources.
ComStays(n) ==
  \/ com'[n] = com[n]
  \/ com'[n].is # "good"
  \/ (Current(com[n].x86) /\ Current(com[n].arm))'

\* A build takes nothing more in hand.
NoMore(p) ==
  /\ \A a \in 1..2 : found'[p][a] \subseteq found[p][a]
  /\ stdout'[p] = <<>> \/ (stdout'[p] = stdout[p] /\ arch'[p] = arch[p])
  /\ child'[p] = "links" => child[p] = "links" /\ arch'[p] = arch[p]
  /\ pc'[p] \in Cutting => pc[p] \in Cutting /\ halves'[p] = halves[p]

LEMMA HoldsStays ==
  ASSUME Types, Types', Keeps, NEW p \in Outers, NoMore(p), Phase(p), Holds(p),
         pc[p] \in Cutting => ComStays(halves[p].of)
  PROVE  Holds(p)'
<1>1. /\ ARCHES[1] \in Arches /\ ARCHES[2] \in Arches /\ ArchOf(p) \in Arches
      /\ arch'[p] = arch[p] => ArchOf(p)' = ArchOf(p)
  BY ArchTyped DEF ARCHES, Arches, Types, ArchOf
<1>2. \A a \in 1..2 : \A n \in found'[p][a] : Current(binary[ARCHES[a]][n])'
  <2> SUFFICES ASSUME NEW a \in 1..2, NEW n \in found[p][a]
               PROVE  Current(binary[ARCHES[a]][n])'
    BY DEF NoMore
  <2>1. n \in Names /\ ARCHES[a] \in Arches
    BY <1>1, FoundTyped DEF Types
  <2>2. Current(binary[ARCHES[a]][n])
    BY DEF Holds
  <2> QED
    BY <2>1, <2>2 DEF Keeps
<1>3. \A n \in Range(stdout'[p]) \ {"null"} : Current(binary[ArchOf(p)][n])'
  <2>1. CASE stdout'[p] = <<>>
    BY <2>1, RangeOfEmpty
  <2>2. CASE stdout'[p] = stdout[p] /\ arch'[p] = arch[p]
    <3>1. Range(stdout[p]) \subseteq Names \union {"null"}
      BY DEF Types, Processes, Range
    <3> QED
      BY <1>1, <2>2, <3>1 DEF Holds, Keeps
  <2> QED
    BY <2>1, <2>2 DEF NoMore
<1>4. (child[p] = "links" => rlib[ArchOf(p)].version = source)'
  BY <1>1 DEF NoMore, Holds, Keeps
<1>5. (pc[p] \in Cutting =>
         /\ Current(halves[p].x86) /\ Current(halves[p].arm)
         /\ com[halves[p].of].is = "good" =>
              Current(com[halves[p].of].x86) /\ Current(com[halves[p].of].arm))'
  BY DEF NoMore, Holds, Current, Keeps, ComStays
<1> QED
  BY <1>2, <1>3, <1>4, <1>5 DEF Holds

LEMMA StaysIsNoMore ==
  ASSUME NEW p \in Outers, Same(p)
  PROVE  NoMore(p)
BY DEF Same, NoMore

\* The steps that go on with what is in hand.
Onward(o) == Skips(o) \/ Begins(o) \/ Succeeds(o) \/ Goes(o) \/ Echo(o) \/ Cargo(o)

LEMMA ComKept ==
  ASSUME Types, \A p \in Outers : Phase(p), InHand, source' = source,
         (\E o \in Outers : Onward(o)) \/ (\E n \in Names : Linker(n)), NEW n \in Names
  PROVE  ComStays(n)
<1>1. ASSUME NEW o \in Outers, Onward(o)
      PROVE  com' = com \/ Apelink(o) \/ Fused(o)
  BY <1>1 DEF Onward, Skips, Begins, Succeeds, Ends, Goes, Prepares, Elsewhere, Spawn,
        ReadStdout, SecondArch, BothBuilt, Collected, NextPair, Echo,
        Cargo, TakesLock, RunsScript, Compile, GivesUp, Exits, Tells
<1>2. (\E m \in Names : Linker(m)) => com' = com
  BY DEF Linker, Look, Objcopy, Rename, Gcc
<1>3. ASSUME NEW o \in Outers, Apelink(o)
      PROVE  ComStays(n)
  <2>1. PICK m \in Pairs(o) :
          com' = [com EXCEPT ![m] = [is |-> "part", x86 |-> NoBinary, arm |-> NoBinary, by |-> o]]
    BY <1>3 DEF Apelink
  <2> QED
    BY <2>1, ComTyped DEF ComStays
<1>4. ASSUME NEW o \in Outers, Fused(o)
      PROVE  ComStays(n)
  <2>1. PICK verdict \in {"good", "bad"} :
          com' = [com EXCEPT ![halves[o].of] = [is |-> verdict, x86 |-> halves[o].x86,
                                                arm |-> halves[o].arm, by |-> o]]
    BY <1>4 DEF Fused
  <2>2. Current(halves[o].x86) /\ Current(halves[o].arm)
    BY <1>4 DEF Fused, InHand, Holds, Cutting
  <2>3. n = halves[o].of => com'[n].x86 = halves[o].x86 /\ com'[n].arm = halves[o].arm
    BY <2>1, ComTyped
  <2>4. n # halves[o].of => com'[n] = com[n]
    BY <2>1, ComTyped
  <2> QED
    BY <2>2, <2>3, <2>4 DEF ComStays, Current
<1> QED
  BY <1>1, <1>2, <1>3, <1>4 DEF ComStays

LEMMA PartsTyped ==
  ASSUME Types, NEW o \in Outers
  PROVE  /\ DOMAIN pc = Outers /\ DOMAIN arch = Outers /\ DOMAIN stdout = Outers
         /\ DOMAIN found = Outers /\ DOMAIN child = Outers /\ DOMAIN halves = Outers
         /\ stdout[o] \in Seq(Names \union {"null"}) /\ Range(stdout[o]) \subseteq Names \union {"null"}
BY DEF Types, Processes, Range

\* What a build takes in hand is current: an executable that was linked, or was fresh.
LEMMA HoldsGoes ==
  ASSUME Types, Types', Keeps, NEW o \in Outers, Phase(o), Telling(o), Goes(o), Holds(o),
         pc[o] \in Cutting => ComStays(halves[o].of)
  PROVE  Holds(o)'
<1> USE PartsTyped DEF Goto
<1>1. CASE Prepares(o) \/ Spawn(o) \/ SecondArch(o) \/ BothBuilt(o)
  <2>1. /\ pc'[o] \notin Cutting /\ found' = found
        /\ child'[o] # "links"
        /\ stdout'[o] = <<>>
    BY <1>1 DEF Prepares, Elsewhere, Spawn, SecondArch, BothBuilt, Collected, Cutting, Phase
  <2>2. NoMore(o)
    BY <2>1 DEF NoMore
  <2> QED
    BY <2>2, HoldsStays
<1>2. CASE NextPair(o)
  <2>1. pc'[o] = "fuse" /\ UNCHANGED <<arch, stdout, child>>
    BY <1>2 DEF NextPair
  <2>2. \A a \in 1..2 : found'[o][a] \subseteq found[o][a]
    BY <1>2, FoundTyped DEF NextPair, Types
  <2>3. NoMore(o)
    BY <2>1, <2>2 DEF NoMore, Cutting
  <2> QED
    BY <2>3, HoldsStays
<1>3. CASE Fused(o)
  <2>1. UNCHANGED <<arch, stdout, child, found, halves>> /\ pc[o] \in Cutting
    BY <1>3 DEF Fused, Cutting
  <2>2. NoMore(o)
    BY <2>1 DEF NoMore
  <2> QED
    BY <2>1, <2>2, HoldsStays
<1>4. CASE ReadStdout(o)
  <2> DEFINE line == Head(stdout[o])
  <2>1. /\ UNCHANGED <<arch, child, binary, rlib>> /\ pc'[o] = "reads" /\ stdout[o] # <<>>
        /\ stdout'[o] = Tail(stdout[o])
    BY <1>4 DEF ReadStdout
  <2>2. Range(stdout[o]) = {line} \union Range(stdout'[o])
    BY <2>1, RangeOfTail
  <2> HIDE DEF line
  <2>3. ArchOf(o) \in Arches /\ ArchOf(o)' = ArchOf(o) /\ ArchOf(o) = ARCHES[arch[o]] /\ arch[o] \in 1..2
    BY <2>1, ArchTyped DEF ArchOf, Types
  <2>4. /\ found'[o][arch[o]] = found[o][arch[o]] \union ({line} \ {"null"})
        /\ \A b \in 1..2 : b # arch[o] => found'[o][b] = found[o][b]
    BY <1>4, <2>3, FoundTyped DEF ReadStdout, json_string_field, line, Types
  <2>5. \A n \in Range(stdout[o]) \ {"null"} : Current(binary[ArchOf(o)][n])'
    BY <2>3 DEF Holds, Keeps
  <2>6. \A a \in 1..2 : \A n \in found'[o][a] : Current(binary[ARCHES[a]][n])'
    <3> SUFFICES ASSUME NEW a \in 1..2, NEW n \in found'[o][a]
                 PROVE  Current(binary[ARCHES[a]][n])'
      OBVIOUS
    <3>1. CASE n \in found[o][a]
      <4>1. n \in Names /\ ARCHES[a] \in Arches
        BY <3>1, FoundTyped DEF Types, ARCHES, Arches
      <4> QED
        BY <3>1, <4>1 DEF Holds, Keeps
    <3>2. CASE n \notin found[o][a]
      <4>1. a = arch[o] /\ n = line /\ n # "null"
        BY <2>4, <3>2
      <4> QED
        BY <2>2, <2>3, <2>5, <4>1
    <3> QED
      BY <3>1, <3>2
  <2>7. (child[o] = "links" => rlib[ArchOf(o)].version = source)'
    BY <2>1, <2>3 DEF Holds, Keeps
  <2> QED
    BY <2>1, <2>2, <2>3, <2>5, <2>6, <2>7 DEF Holds, Cutting
<1>5. CASE Apelink(o)
  <2>1. PICK n \in Pairs(o) :
          /\ halves' = [halves EXCEPT ![o] = [of |-> n, x86 |-> binary["x86_64"][n],
                                              arm |-> binary["aarch64"][n]]]
          /\ com' = [com EXCEPT ![n] = [is |-> "part", x86 |-> NoBinary, arm |-> NoBinary, by |-> o]]
    BY <1>5 DEF Apelink
  <2>2. UNCHANGED <<arch, found, stdout, child, rlib, binary>> /\ pc[o] = "fuse"
    BY <1>5 DEF Apelink
  <2>3. n \in found[o][1] /\ n \in found[o][2] /\ n \in Names
    BY FoundTyped DEF Pairs, Types
  <2>4. Current(binary["x86_64"][n])' /\ Current(binary["aarch64"][n])'
    BY <2>3 DEF Holds, Keeps, ARCHES, Arches
  <2>5. /\ halves'[o].of = n /\ halves'[o].x86 = binary'["x86_64"][n] /\ halves'[o].arm = binary'["aarch64"][n]
        /\ com'[n].is = "part"
    BY <2>1, <2>2, <2>3, ComTyped
  <2>6. child[o] = "succeeded" /\ stdout[o] = <<>>
    BY <2>2 DEF Phase, Fusing
  <2>7. \A a \in 1..2 : \A m \in found[o][a] : Current(binary[ARCHES[a]][m])'
    <3> SUFFICES ASSUME NEW a \in 1..2, NEW m \in found[o][a] PROVE Current(binary[ARCHES[a]][m])'
      OBVIOUS
    <3>1. m \in Names /\ ARCHES[a] \in Arches
      BY FoundTyped DEF Types, ARCHES, Arches
    <3> QED
      BY <3>1 DEF Holds, Keeps
  <2>8. Current(halves[o].x86)' /\ Current(halves[o].arm)'
    BY <2>4, <2>5 DEF Current
  <2> QED
    BY <2>2, <2>5, <2>6, <2>7, <2>8, RangeOfEmpty DEF Holds
<1> QED
  BY <1>1, <1>2, <1>3, <1>4, <1>5 DEF Goes

LEMMA HoldsCargo ==
  ASSUME Types, Types', Copies, Keeps, NEW o \in Outers, Phase(o), Cargo(o), Holds(o)
  PROVE  Holds(o)'
<1> USE PartsTyped DEF Child
<1>1. UNCHANGED script /\ com' = com /\ pc[o] = "reads" /\ ArchOf(o)' = ArchOf(o) /\ ArchOf(o) \in Arches
  <2>1. UNCHANGED script /\ com' = com /\ child[o] \in Locked \union {"locks", "failed"}
    BY DEF Cargo, TakesLock, RunsScript, Compile, GivesUp, Exits, Tells, Locked
  <2> QED
    BY <2>1, LinkingReads, ArchTyped DEF ArchOf, Types
<1>2. ASSUME stdout'[o] = stdout[o], child'[o] = "links" => child[o] = "links"
      PROVE  Holds(o)'
  <2>1. NoMore(o)
    BY <1>1, <1>2 DEF NoMore, Cutting
  <2> QED
    BY <1>1, <2>1, HoldsStays DEF Cutting
<1>3. \A a \in 1..2 : \A m \in found'[o][a] : Current(binary[ARCHES[a]][m])'
  <2> SUFFICES ASSUME NEW a \in 1..2, NEW m \in found[o][a] PROVE Current(binary[ARCHES[a]][m])'
    BY <1>1
  <2>1. m \in Names /\ ARCHES[a] \in Arches
    BY FoundTyped DEF Types, ARCHES, Arches
  <2> QED
    BY <2>1 DEF Holds, Keeps
<1>4. \A n \in Range(stdout[o]) \ {"null"} : Current(binary[ArchOf(o)][n])'
  BY <1>1 DEF Holds, Keeps
<1>5. CASE TakesLock(o) \/ RunsScript(o) \/ GivesUp(o)
  BY <1>2, <1>5, ScriptRunsAgain DEF TakesLock, RunsScript, GivesUp
<1>6. CASE Compile(o)
  <2>1. CASE child'[o] # "links"
    BY <1>2, <1>6, <2>1 DEF Compile
  <2>2. CASE child'[o] = "links"
    <3>1. /\ stdout' = stdout
          /\ rlib' = IF rlib[ArchOf(o)].version = source THEN rlib
                     ELSE [rlib EXCEPT ![ArchOf(o)] = [version |-> source, time |-> rlib[ArchOf(o)].time + 1]]
      BY <1>6, <2>2 DEF Compile
    <3>2. rlib'[ArchOf(o)].version = source
      BY <1>1, <3>1, NativeTyped
    <3> QED
      BY <1>1, <1>3, <1>4, <3>1, <3>2 DEF Holds, Keeps, Cutting
  <2> QED
    BY <2>1, <2>2
<1>7. ASSUME NEW n \in Names, Tells(o, n)
      PROVE  Holds(o)'
  <2>1. /\ child[o] = "links" /\ link[n] = "linked" /\ binary' = binary /\ rlib' = rlib
        /\ stdout'[o] = Append(stdout[o], n)
    BY <1>7 DEF Tells
  <2>2. Range(stdout'[o]) = Range(stdout[o]) \union {n}
    BY <2>1, RangeOfAppend
  <2>3. rlib[ArchOf(o)].version = source
    BY <2>1 DEF Holds
  <2>4. Current(binary[ArchOf(o)][n])
    BY <2>1, <2>3 DEF Copies, LinksWith, Current
  <2>5. Current(binary[ArchOf(o)][n])'
    BY <1>1, <2>4 DEF Keeps
  <2> QED
    BY <1>1, <1>3, <1>4, <2>1, <2>2, <2>3, <2>5 DEF Holds, Keeps, Cutting
<1>8. CASE Exits(o)
  <2>1. child'[o] # "links"
    BY <1>8 DEF Exits
  <2>2. stdout'[o] = stdout[o] \/ stdout'[o] = Append(stdout[o], "null")
    BY <1>8 DEF Exits
  <2>3. CASE stdout'[o] = Append(stdout[o], "null")
    <3>1. Range(stdout'[o]) = Range(stdout[o]) \union {"null"}
      BY <2>3, RangeOfAppend
    <3> QED
      BY <1>1, <1>3, <1>4, <2>1, <3>1 DEF Holds, Cutting
  <2> QED
    BY <1>2, <2>1, <2>2, <2>3
<1> QED
  BY <1>5, <1>6, <1>7, <1>8 DEF Cargo

LEMMA InHandStep ==
  ASSUME Types, Types', Turns, \A p \in Outers : Phase(p), \A p \in Outers : Telling(p), Copies, InHand, Next,
         (\E o \in Outers : Onward(o)) \/ (\E n \in Names : Linker(n))
  PROVE  InHand'
<1>1. edits' = edits
  <2>1. ASSUME NEW o \in Outers, Onward(o)
        PROVE  edits' = edits
    BY <2>1 DEF Onward, Skips, Begins, Succeeds, Ends, Goes, Prepares, Elsewhere, Spawn,
        ReadStdout, SecondArch, BothBuilt, Collected, Apelink, Fused, NextPair, Echo,
        Cargo, TakesLock, RunsScript, Compile, GivesUp, Exits, Tells
  <2>2. (\E n \in Names : Linker(n)) => edits' = edits
    BY DEF Linker, Look, Objcopy, Rename, Gcc
  <2> QED
    BY <2>1, <2>2
<1>2. Keeps
  BY <1>1, CurrentStays
<1>3. \A n \in Names : ComStays(n)
  BY <1>2, ComKept DEF Keeps
<1>4. ASSUME NEW p \in Outers, pc[p] \in Cutting
      PROVE  ComStays(halves[p].of)
  <2>1. Running(p)
    BY <1>4 DEF Cutting, Running, Ended
  <2>2. halves[p].of \in Names
    BY <1>4, <2>1, PairsAreWanted DEF Phase
  <2> QED
    BY <1>3, <2>2
<1>5. ASSUME NEW p \in Outers, NoMore(p)
      PROVE  Holds(p)'
  BY <1>2, <1>4, <1>5, HoldsStays DEF InHand
<1>6. ASSUME NEW n \in Names, Linker(n)
      PROVE  InHand'
  <2>1. \A p \in Outers : NoMore(p)
    BY <1>6, AllStay DEF StepAside, NoMore
  <2> QED
    BY <1>5, <2>1 DEF InHand
<1>7. ASSUME NEW o \in Outers, Onward(o)
      PROVE  InHand'
  <2>1. \A p \in Outers \ {o} : Holds(p)'
    BY <1>5, <1>7, OthersStay, StaysIsNoMore DEF Onward, StepOf
  <2>2. CASE Skips(o) \/ Begins(o)
    <3>1. pc'[o] \notin Cutting /\ UNCHANGED <<arch, found, stdout, child>>
      BY <2>2, PartsTyped DEF Skips, Begins, Goto, Cutting
    <3> QED
      BY <1>5, <2>1, <3>1 DEF NoMore, InHand
  <2>3. CASE Succeeds(o)
    <3>1. /\ pc'[o] \notin Cutting /\ found'[o] = [a \in 1..2 |-> {}] /\ stdout'[o] = <<>> /\ child'[o] = "none"
      BY <2>3, PhaseEnds DEF Running, Ended, Cutting
    <3>2. \A a \in 1..2 : found'[o][a] = {}
      BY <3>1
    <3> QED
      BY <1>5, <2>1, <3>1, <3>2 DEF NoMore, InHand
  <2>4. CASE Goes(o)
    BY <1>2, <1>4, <2>1, <2>4, HoldsGoes DEF InHand
  <2>5. CASE Echo(o)
    BY <1>5, <2>1, <2>5 DEF Echo, NoMore, InHand
  <2>6. CASE Cargo(o)
    BY <1>2, <2>1, <2>6, HoldsCargo DEF InHand
  <2> QED
    BY <1>7, <2>2, <2>3, <2>4, <2>5, <2>6 DEF Onward
<1> QED
  BY <1>6, <1>7

\* An APE that is done with stays so while its file, and whoever works on it, do.
LEMMA DoneStays ==
  ASSUME NEW n, Done(n), com'[n] = com[n], source' = source, promised' = promised,
         \A p \in Outers : pc'[p] \in Fusing /\ n \notin Pairs(p)' => pc[p] \in Fusing /\ n \notin Pairs(p),
         \A p \in Outers : pc[p] \in Cutting /\ halves[p].of = n =>
                             pc'[p] \in Cutting /\ halves'[p].of = n
  PROVE  Done(n)'
<1>1. Settled(n) => Settled(n)'
  BY DEF Settled, Current
<1>2. Working(n) => Working(n)'
  BY DEF Working
<1> QED
  BY <1>1, <1>2 DEF Done

LEMMA DoneWithStep ==
  ASSUME Types, \A p \in Outers : Phase(p), \A p \in Outers : Telling(p), InHand, DoneWith, disturbed = {},
         Next, (\E o \in Outers : Onward(o)) \/ (\E n \in Names : Linker(n))
  PROVE  DoneWith'
<1> USE PartsTyped DEF Goto
<1>1. Wanted' = Wanted
  BY PackageStays DEF Wanted
<1>2. SUFFICES ASSUME NEW n \in Wanted PROVE Done(n)'
  BY <1>1 DEF DoneWith
<1>3. Done(n)
  BY DEF DoneWith
<1>6. n \in Names
  BY NamesAssumption DEF Types, Fixed, Package, Wanted
<1>4. CASE \E m \in Names : Linker(m)
  <2>1. UNCHANGED script
    BY <1>4, AllStay DEF StepAside
  <2>2. com' = com /\ promised' = promised /\ edits' = edits
    BY <1>4 DEF Linker, Look, Objcopy, Rename, Gcc
  <2> QED
    BY <1>3, <2>1, <2>2, DoneStays DEF Pairs, source
<1>5. ASSUME NEW o \in Outers, Onward(o)
      PROVE  Done(n)'
  <2>1. /\ \A p \in Outers \ {o} : pc'[p] = pc[p] /\ halves'[p] = halves[p] /\ Pairs(p)' = Pairs(p)
    BY <1>5, OthersStay DEF Onward, StepOf, Same, Pairs
  <2>2. source' = source
    BY <1>5 DEF Onward, Skips, Begins, Succeeds, Ends, Goes, Prepares, Elsewhere, Spawn,
        ReadStdout, SecondArch, BothBuilt, Collected, Apelink, Fused, NextPair, Echo,
        Cargo, TakesLock, RunsScript, Compile, GivesUp, Exits, Tells, source
  <2>3. CASE Skips(o) \/ Begins(o)
    <3>1. /\ pc'[o] \notin Fusing /\ pc[o] \notin Cutting /\ com' = com /\ promised' = promised
      BY <2>3 DEF Skips, Begins, Running, Ended, Fusing, Cutting
    <3> QED
      BY <1>3, <2>1, <2>2, <3>1, DoneStays
  <2>4. CASE Prepares(o) \/ Spawn(o) \/ ReadStdout(o) \/ SecondArch(o)
    <3>1. /\ pc'[o] \notin Fusing /\ pc[o] \notin Cutting /\ com' = com /\ promised' = promised
      BY <2>4 DEF Prepares, Elsewhere, Spawn, ReadStdout, SecondArch, Collected, Fusing, Cutting
    <3> QED
      BY <1>3, <2>1, <2>2, <3>1, DoneStays
  <2>5. CASE BothBuilt(o)
    <3>1. /\ Pairs(o)' = Wanted /\ pc[o] \notin Cutting /\ com' = com /\ promised' = promised
      BY <2>5, AllPairsFound DEF BothBuilt, Collected, Cutting
    <3> QED
      BY <1>3, <2>1, <2>2, <3>1, DoneStays
  <2>6. CASE Echo(o) \/ Cargo(o)
    <3>1. UNCHANGED script /\ com' = com /\ promised' = promised
      BY <2>6 DEF Echo, Cargo, TakesLock, RunsScript, Compile, GivesUp, Exits, Tells
    <3> QED
      BY <1>3, <2>2, <3>1, DoneStays DEF Pairs
  <2>7. CASE Apelink(o)
    <3>1. PICK m \in Pairs(o) :
            /\ halves' = [halves EXCEPT ![o] = [of |-> m, x86 |-> binary["x86_64"][m],
                                                arm |-> binary["aarch64"][m]]]
            /\ com' = [com EXCEPT ![m] = [is |-> "part", x86 |-> NoBinary, arm |-> NoBinary, by |-> o]]
      BY <2>7 DEF Apelink
    <3>2. pc[o] = "fuse" /\ pc'[o] = "apelink" /\ Pairs(o)' = Pairs(o) /\ promised' = promised
      BY <2>7 DEF Apelink, Pairs
    <3>3. CASE n = m
      <4>1. halves'[o].of = n
        BY <3>1, <3>3
      <4> QED
        BY <3>2, <4>1 DEF Done, Working, Cutting
    <3>4. CASE n # m
      <4>1. com'[n] = com[n]
        BY <1>6, <3>1, <3>4, ComTyped
      <4> QED
        BY <1>3, <2>1, <2>2, <3>2, <4>1, DoneStays DEF Fusing, Cutting
    <3> QED
      BY <3>3, <3>4
  <2>8. CASE Fused(o)
    <3>1. PICK verdict \in {"good", "bad"} :
            com' = [com EXCEPT ![halves[o].of] = [is |-> verdict, x86 |-> halves[o].x86,
                                                  arm |-> halves[o].arm, by |-> o]]
      BY <2>8 DEF Fused
    <3>2. /\ pc[o] = "apelink" /\ pc'[o] = "pecheck" /\ Pairs(o)' = Pairs(o) /\ promised' = promised
          /\ halves' = halves
      BY <2>8 DEF Fused, Pairs
    <3>3. CASE n = halves[o].of
      BY <3>2, <3>3 DEF Done, Working, Cutting
    <3>4. CASE n # halves[o].of
      <4>1. com'[n] = com[n]
        BY <1>6, <3>1, <3>4, ComTyped
      <4> QED
        BY <1>3, <2>1, <2>2, <3>2, <4>1, DoneStays DEF Fusing, Cutting
    <3> QED
      BY <3>3, <3>4
  <2>9. CASE Succeeds(o) \/ NextPair(o)
    <3> DEFINE m == halves[o].of
    <3>1. /\ pc[o] = "pecheck" /\ com[m].is = "good" /\ com' = com /\ pc'[o] \in {"ok", "fuse"}
          /\ Succeeds(o) => Pairs(o) = {m}
      BY <2>9 DEF Succeeds, Ends, NextPair
    <3>2. Settled(m)
      BY <3>1 DEF Settled, InHand, Holds, Cutting
    <3>3. CASE n = m
      BY <2>2, <3>1, <3>2, <3>3 DEF Done, Settled, Current
    <3>4. CASE n # m
      <4>1. Settled(n) => Settled(n)'
        BY <2>2, <3>1 DEF Settled, Current
      <4>2. Working(n) => Working(n)'
        BY <2>1, <3>4 DEF Working
      <4>3. CASE Succeeds(o)
        <5>1. Settled(n) \/ Working(n)
          BY <1>3, <3>1, <3>4, <4>3 DEF Done, Fusing, Cutting
        <5> QED
          BY <4>1, <4>2, <5>1 DEF Done
      <4>4. CASE NextPair(o)
        <5>1. Pairs(o)' = Pairs(o) \ {m} /\ promised' = promised
          BY <4>4, FoundTyped DEF NextPair, Types, Pairs
        <5>2. \A p \in Outers : pc'[p] \in Fusing /\ n \notin Pairs(p)' => pc[p] \in Fusing /\ n \notin Pairs(p)
          BY <2>1, <3>1, <3>4, <5>1 DEF Fusing, Cutting
        <5> QED
          BY <1>3, <4>1, <4>2, <5>1, <5>2 DEF Done
      <4> QED
        BY <2>9, <4>3, <4>4
    <3> QED
      BY <3>3, <3>4
  <2> QED
    BY <1>5, <2>3, <2>4, <2>5, <2>6, <2>7, <2>8, <2>9 DEF Onward, Goes
<1> QED
  BY <1>4, <1>5

\* The steps after which there is nothing to say if they leave no build disturbed.
LEMMA CurrencyStep ==
  ASSUME Types, Types', Turns, \A p \in Outers : Phase(p), \A p \in Outers : Phase(p)',
         \A p \in Outers : Telling(p), Copies, Alike, Alike', disturbed = {} => InHand /\ DoneWith,
         Next, disturbed' = {}
  PROVE  InHand' /\ DoneWith'
<1>1. CASE disturbed = {} /\ ((\E o \in Outers : Onward(o)) \/ (\E n \in Names : Linker(n)))
  BY <1>1, InHandStep, DoneWithStep
<1>2. ASSUME Runners' = {}, promised' = FALSE
      PROVE  InHand' /\ DoneWith'
  BY <1>2, Quiet DEF Runners
<1>3. CASE StepAside
  <2>1. CASE \E n \in Names : Linker(n)
    <3>1. disturbed' = disturbed
      BY <2>1 DEF Linker, Look, Objcopy, Rename, Gcc
    <3> QED
      BY <1>1, <2>1, <3>1
  <2>2. CASE Edit
    <3>1. disturbed' = Runners /\ promised' = FALSE
      BY <2>2 DEF Edit, Runners
    <3> QED
      BY <1>2, <1>3, <3>1, RunnersNext
  <2>3. ASSUME NEW n \in Names, Delete(n)
        PROVE  InHand' /\ DoneWith'
    <3>1. Runners = {} /\ promised' = FALSE
      BY <2>3 DEF Delete, Runners
    <3> QED
      BY <1>2, <1>3, <3>1, RunnersNext
  <2> QED
    BY <1>3, <2>1, <2>2, <2>3 DEF StepAside
<1>4. ASSUME NEW o \in Outers, Fails(o) \/ Kill(o)
      PROVE  InHand' /\ DoneWith'
  <2>1. disturbed' = (disturbed \ {o}) \union (Runners \ {o}) /\ promised' = FALSE
    BY <1>4 DEF Fails, Kill, Ends, Runners
  <2>2. Runners' = Runners \ {o}
    BY <1>4, RunnersNext
  <2> QED
    BY <1>2, <2>1, <2>2
<1>5. ASSUME NEW o \in Outers, Onward(o)
      PROVE  InHand' /\ DoneWith'
  <2>1. CASE disturbed = {}
    BY <1>1, <1>5, <2>1
  <2>2. CASE disturbed # {}
    <3>1. disturbed = Runners /\ ~promised
      BY <2>2 DEF Alike, Runners
    <3>2. CASE Begins(o)
      <4>1. (\E p \in disturbed : Running(p)) => disturbed' = disturbed \union {o}
        BY <3>2 DEF Begins
      <4> QED
        BY <2>2, <3>1, <4>1 DEF Runners
    <3>3. CASE Succeeds(o)
      <4>1. disturbed' = disturbed \ {o} /\ promised' = (o \notin disturbed)
        BY <3>3 DEF Succeeds, Ends
      <4>2. Runners' = Runners \ {o} /\ o \in Runners
        BY <3>3, RunnersNext
      <4> QED
        BY <1>2, <3>1, <4>1, <4>2
    <3>4. CASE Skips(o) \/ Goes(o) \/ Echo(o) \/ Cargo(o)
      <4>1. disturbed' = disturbed
        BY <3>4 DEF Skips, Goes, Prepares, Elsewhere, Spawn, ReadStdout, SecondArch, BothBuilt,
            Collected, Apelink, Fused, NextPair, Echo, Cargo, TakesLock, RunsScript, Compile,
            GivesUp, Exits, Tells
      <4> QED
        BY <2>2, <4>1
    <3> QED
      BY <1>5, <3>2, <3>3, <3>4 DEF Onward
  <2> QED
    BY <2>1, <2>2
<1> QED
  BY <1>3, <1>4, <1>5, StepSorts DEF StepOf, Onward

-------------------------------------------------------------------------------
(* The invariant.                                                             *)

LEMMA InitInv == Init => IInv
<1> SUFFICES ASSUME Init PROVE IInv
  OBVIOUS
<1> USE DEF Init
<1>1. Types
  <2>1. Fixed
    BY DEF Fixed, Package
  <2>2. Absent \in File /\ NoBinary \in Binary
    BY DEF Absent, File, NoBinary, Binary, Versions
  <2>3. Disk
    <3>1. com \in [Names -> [is : {"none", "part", "good", "bad"}, x86 : Binary, arm : Binary,
                             by : Outers \union {"none"}]]
      BY <2>2 DEF NoCom
    <3> QED
      BY <2>2, <3>1 DEF Disk
  <2>4. Processes
    <3>1. /\ stdout \in [Outers -> Seq(Names \union {"null"})]
          /\ \A o \in Outers : Len(stdout[o]) <= PipeSize
      BY PipeAssumption, EmptySeq
    <3>2. halves \in [Outers -> [of : Names \union {"none"}, x86 : Binary, arm : Binary]]
      BY <2>2 DEF NoHalves
    <3>3. pc \in [Outers -> Ended \union {"pair", "prepare", "reads", "fuse", "apelink", "pecheck"}]
      BY DEF Ended
    <3> QED
      BY <3>1, <3>2, <3>3, PipeAssumption DEF Processes
  <2>5. Counts
    <3>1. runs = 0 /\ edits = 0 /\ events = 0 /\ promised = FALSE
      OBVIOUS
    <3>2. 0 \in 0..MaxRuns /\ 0 \in 0..MaxEvents /\ 0 \in 0..0
      BY BoundsAssumption
    <3> QED
      BY <3>1, <3>2 DEF Counts
  <2>6. Memory
    BY DEF Memory, Versions
  <2> QED
    BY <2>1, <2>3, <2>4, <2>5, <2>6 DEF Types
<1>2. \A o \in Outers : /\ ~Running(o) /\ pc[o] = "idle" /\ child[o] = "none" /\ stdout[o] = <<>>
                        /\ found[o] = [a \in 1..2 |-> {}] /\ arch[o] = 1
  BY DEF Running, Ended
<1>3. Turns
  BY <1>2, InnerIsApart DEF Turns, Locked
<1>4. \A o \in Outers : Phase(o)
  BY <1>2 DEF Phase, Fusing, Cutting
<1>5. \A o \in Outers : Telling(o)
  <2> SUFFICES ASSUME NEW o \in Outers PROVE Telling(o)
    OBVIOUS
  <2>1. \A a \in 1..2 : found[o][a] = {}
    BY <1>2
  <2> QED
    BY <1>2, <2>1, RangeOfEmpty DEF Telling
<1>6. Copies
  <2>1. \A a \in Arches : CopyIsOld(a)
    BY DEF CopyIsOld, Absent
  <2> QED
    BY <1>2, <2>1 DEF Copies
<1>7. Refusals
  BY DEF Refusals, Refusal, NoCom
<1>8. Alike
  BY DEF Alike
<1>9. InHand /\ DoneWith
  <2>1. \A o \in Outers : \A a \in 1..2 : found[o][a] = {}
    BY <1>2
  <2> QED
    BY <1>2, <2>1, RangeOfEmpty DEF InHand, Holds, DoneWith, Done, Fusing, Cutting
<1> QED
  BY <1>1, <1>3, <1>4, <1>5, <1>6, <1>7, <1>8, <1>9 DEF IInv

LEMMA NextInv ==
  ASSUME ReadsAsWanted, IInv, Next
  PROVE  IInv'
<1> USE DEF IInv
<1>1. Types'
  BY TypesStep
<1>2. Turns'
  BY TurnsStep
<1>3. \A p \in Outers : Phase(p)'
  BY PhaseStep
<1>4. \A p \in Outers : Telling(p)'
  BY <1>1, TellingStep
<1>5. Copies'
  BY CopiesStep
<1>6. Refusals'
  BY RefusalsStep
<1>7. Alike'
  BY AlikeStep
<1>8. (disturbed = {} => InHand /\ DoneWith)'
  BY <1>1, <1>3, <1>7, CurrencyStep
<1> QED
  BY <1>1, <1>2, <1>3, <1>4, <1>5, <1>6, <1>7, <1>8

LEMMA StutterInv ==
  ASSUME IInv, UNCHANGED vars
  PROVE  IInv'
<1> USE DEF IInv, vars
<1>1. Types'
  BY DEF Types, Fixed, Disk, Processes, Counts, Memory, Package
<1>2. Turns' /\ \A o \in Outers : Phase(o)'
  BY DEF Turns, Phase, Running, Pairs
<1>3. \A o \in Outers : Telling(o)'
  BY DEF Telling, Targets, ArchOf, Running, Package
<1>4. Copies' /\ Refusals' /\ Alike'
  BY DEF Copies, CopyIsOld, LinksWith, ArchOf, Refusals, Refusal, Wanted, Package, Pairs, Alike, Running
<1>5. (disturbed = {} => InHand /\ DoneWith)'
  BY SMTT(30) DEF InHand, Holds, Current, source, ArchOf, DoneWith, Done, Settled, Working, Wanted, Package, Pairs
<1> QED
  BY <1>1, <1>2, <1>3, <1>4, <1>5

\* The invariant holds of every build, for any number of cargos and executables, and
\* whichever entry point the script calls: what cargo remembers of a script (Memory) hangs
\* on the directive it prints or does not (lib.rs:191-195, 216-223).
THEOREM BuildInvariant ==
  ASSUME ReadsAsWanted
  PROVE  Spec => []IInv
<1>1. Init => IInv
  BY InitInv
<1>2. IInv /\ [Next]_vars => IInv'
  BY NextInv, StutterInv
<1> QED
  BY <1>1, <1>2, PTL DEF Spec

\* A .com that is cut short or that pecheck refused is never what a build that ended Ok left
\* behind (driver.rs:255).
THEOREM RefusedIsReportedHolds ==
  ASSUME ReadsAsWanted
  PROVE  Spec => []RefusedIsReported
<1>1. IInv => RefusedIsReported
  BY DEF IInv, Refusals, Refusal, RefusedIsReported
<1> QED
  BY <1>1, BuildInvariant, PTL

\* Finished means current (driver.rs:41-47, lib.rs:191-195, assets/shim.rs:248): however
\* many cargos share cosmo-inner, and whatever was edited, deleted or killed before the last
\* build; of apeify's scripts whenever cargo says Finished, and of the others when they have
\* run.
THEOREM FinishedIsCurrentHolds ==
  ASSUME ReadsAsWanted
  PROVE  Spec => []FinishedIsCurrent
<1>1. IInv => FinishedIsCurrent
  <2> SUFFICES ASSUME IInv, promised, \A o \in Outers : ~Running(o), NEW n \in Wanted
               PROVE  /\ com[n].is = "good"
                      /\ com[n].x86 = [rust |-> source, c |-> source]
                      /\ com[n].arm = [rust |-> source, c |-> source]
    BY DEF FinishedIsCurrent, Wanted
  <2>1. disturbed = {}
    BY DEF IInv, Alike
  <2>2. Settled(n) \/ Working(n)
    BY <2>1 DEF IInv, DoneWith, Done
  <2>3. ~Working(n)
    BY DEF Working, Running, Ended, Cutting
  <2> QED
    BY <2>2, <2>3 DEF Settled, Current
<1> QED
  BY <1>1, BuildInvariant, PTL

-------------------------------------------------------------------------------

\* The manifest's arguments, and the verdict on the lock file.
ReadTyped == project.paired \in BOOLEAN /\ args \in [Outers -> Seq(STRING)]

LEMMA ReadTypedStep ==
  ASSUME Types, \A o \in Outers : Phase(o), Next, ReadTyped
  PROVE  ReadTyped'
<1>1. project' = project
  BY PackageStays
<1>2. <<>> \in Seq(STRING) /\ project.args \in Seq(STRING)
  BY EmptySeq, ArgumentsAssumption DEF Types, Fixed, Package
<1>3. ASSUME NEW o \in Outers, NEW how, Ends(o, how)
      PROVE  args' \in [Outers -> Seq(STRING)]
  BY <1>2, <1>3 DEF Ends, Blank, ReadTyped
<1>4. ASSUME NEW o \in Outers, Fails(o) \/ Succeeds(o)
      PROVE  args' \in [Outers -> Seq(STRING)]
  BY <1>3, <1>4 DEF Fails, Succeeds
<1>5. ASSUME NEW o \in Outers, Goes(o)
      PROVE  args' = args
  BY <1>5 DEF Goes, Prepares, Elsewhere, Spawn, ReadStdout, SecondArch, BothBuilt, Collected,
             Apelink, Fused, NextPair
<1>6. ASSUME NEW o \in Outers, Script(o)
      PROVE  args' \in [Outers -> Seq(STRING)]
  BY <1>4, <1>5, <1>6, ScriptSteps DEF ReadTyped
<1>7. ASSUME NEW o \in Outers, Echo(o) \/ Cargo(o)
      PROVE  args' = args
  BY <1>7 DEF Echo, Cargo, TakesLock, RunsScript, Compile, GivesUp, Exits, Tells
<1>8. ASSUME NEW n \in Names, Linker(n)
      PROVE  args' = args
  BY <1>8 DEF Linker, Look, Objcopy, Rename, Gcc
<1>9. ASSUME NEW o \in Outers, Start(o) \/ Kill(o)
      PROVE  args' \in [Outers -> Seq(STRING)]
  <2>1. CASE Skips(o)
    BY <2>1 DEF Skips, ReadTyped
  <2>2. CASE Begins(o)
    <3>1. args' = [args EXCEPT ![o] = IF Package.entry = "apeify" THEN project.args ELSE <<>>]
      BY <2>2 DEF Begins
    <3> QED
      BY <1>2, <3>1 DEF ReadTyped
  <2>3. CASE Kill(o)
    BY <1>2, <2>3 DEF Kill, Blank, ReadTyped
  <2> QED
    BY <1>9, <2>1, <2>2, <2>3, StartSteps
<1>10. ASSUME Edit \/ \E n \in Names : Delete(n)
       PROVE  args' = args
  BY <1>10 DEF Edit, Delete
<1> QED
  BY <1>1, <1>6, <1>7, <1>8, <1>9, <1>10 DEF Next, User, ReadTyped

\* Every state has its type, and no pipe holds more than it can: the part of the invariant
\* that says so stands by itself.
THEOREM BuildTypeCorrect == Spec => []TypeOK
<1> DEFINE TypeInv == Types /\ (\A o \in Outers : Phase(o)) /\ Alike /\ ReadTyped
<1>1. Init => TypeInv
  <2> SUFFICES ASSUME Init PROVE TypeInv
    OBVIOUS
  <2>1. ReadTyped
    <3>1. \A p \in DOMAIN Packages : check(Packages[p].dirs) \in BOOLEAN
      BY Zenon DEF check
    <3>2. project.paired \in BOOLEAN
      BY <3>1 DEF Init
    <3>3. args \in [Outers -> Seq(STRING)]
      BY EmptySeq DEF Init
    <3> QED
      BY <3>2, <3>3 DEF ReadTyped
  <2> QED
    BY <2>1, InitInv DEF IInv
<1>2. TypeInv /\ [Next]_vars => TypeInv'
  <2>1. CASE Next
    <3> SUFFICES ASSUME TypeInv PROVE TypeInv'
      BY <2>1
    <3> QED
      BY <2>1, TypesStep, PhaseStep, AlikeStep, ReadTypedStep
  <2>2. CASE UNCHANGED vars
    <3> SUFFICES ASSUME TypeInv PROVE TypeInv'
      BY <2>2
    <3> USE <2>2 DEF vars
    <3>1. Types'
      BY DEF Types, Fixed, Disk, Processes, Counts, Memory, Package
    <3>2. \A o \in Outers : Phase(o)'
      BY DEF Phase, Running, Pairs
    <3>3. Alike' /\ ReadTyped'
      BY DEF Alike, Running, ReadTyped
    <3> QED
      BY <3>1, <3>2, <3>3
  <2> QED
    BY <2>1, <2>2
<1>3. TypeInv => TypeOK
  <2> SUFFICES ASSUME TypeInv PROVE TypeOK
    OBVIOUS
  <2>1. \A o \in Outers : Len(stdout[o]) <= PipeSize /\ Range(stdout[o]) \subseteq Names \union {"null"}
    BY PartsTyped DEF Types, Processes
  <2>2. disturbed \subseteq Outers
    BY DEF Alike
  <2>3. runs \in 0..MaxRuns /\ edits \in 0..MaxEvents /\ events \in 0..MaxEvents /\ promised \in BOOLEAN
    BY BoundsAssumption DEF Types, Counts
  <2> QED
    BY <2>1, <2>2, <2>3 DEF Types, Fixed, Disk, Processes, Memory, ReadTyped, TypeOK
<1> QED
  BY <1>1, <1>2, <1>3, PTL DEF Spec

-------------------------------------------------------------------------------
\* What buildargv keeps while it reads.
SplitState(C) ==
  [out : Seq(Seq(C)), cur : Seq(C), started : BOOLEAN, quote : C \cup {"none"}, escape : BOOLEAN]
Split(s, text) == FoldLeft(SplitChar, s, text)

\* A state of buildargv's is the record of its fields.
LEMMA SameState ==
  ASSUME NEW C, NEW s \in SplitState(C), NEW t \in SplitState(C),
         s.out = t.out, s.cur = t.cur, s.started = t.started, s.quote = t.quote, s.escape = t.escape
  PROVE  s = t
BY DEF SplitState

\* A character read leaves a state.
LEMMA SplitStep ==
  ASSUME NEW C, NEW s \in SplitState(C), NEW c \in C
  PROVE  SplitChar(s, c) \in SplitState(C)
<1>1. Append(s.cur, c) \in Seq(C) /\ Append(s.out, s.cur) \in Seq(Seq(C))
      /\ <<>> \in Seq(C)
  BY EmptySeq DEF SplitState
<1> QED
  BY <1>1 DEF SplitState, SplitChar

\* Split goes through its text from the first character to the last.
LEMMA SplitRow ==
  ASSUME NEW C, NEW s \in SplitState(C), NEW text \in Seq(C)
  PROVE  \E g : /\ g \in [0..Len(text) -> SplitState(C)] /\ g[0] = s
                /\ \A k \in 1..Len(text) : g[k] = SplitChar(g[k - 1], text[k])
                /\ g[Len(text)] = Split(s, text)
<1>0. PICK n \in Nat : n = Len(text)
  BY LenProperties
<1> DEFINE step == [k \in 1..n |-> [t \in SplitState(C) |-> SplitChar(t, text[k])]]
           Is(iter) == iter = [p \in SUBSET (DOMAIN text) |->
                                 IF p = {} THEN s ELSE SplitChar(iter[p \ {Max(p)}], text[Max(p)])]
           walk == CHOOSE iter : Is(iter)
<1>1. n \in Nat /\ DOMAIN text = 1..n /\ \A k \in 1..n : text[k] \in C
  BY <1>0, LenProperties
<1>2. step \in [1..n -> [SplitState(C) -> SplitState(C)]]
  BY <1>1, SplitStep
<1>3. \A k \in 1..n : \A t \in SplitState(C) : step[k][t] = SplitChar(t, text[k])
  OBVIOUS
<1>4. Split(s, text) = walk[DOMAIN text]
  BY DEF Split, FoldLeft, MapThenFoldSet
<1> HIDE DEF step
<1>5. Is(walk)
  <2>1. PICK iter : Walked(iter, n, SplitState(C), s, step)
    BY <1>1, <1>2, WalkExists, Zenon
  <2>2. ASSUME NEW p \in SUBSET (1..n), p # {}
        PROVE  iter[p] = SplitChar(iter[p \ {Max(p)}], text[Max(p)])
    <3>1. Max(p) \in 1..n
      BY <2>2, LargestInRange, <1>1
    <3>2. iter[p \ {Max(p)}] \in SplitState(C)
      BY <2>1 DEF Walked
    <3> QED
      BY <1>3, <2>1, <2>2, <3>1, <3>2 DEF Walked
  <2>3. Is(iter)
    BY <1>1, <2>1, <2>2 DEF Walked
  <2> HIDE DEF Is
  <2> QED
    BY <2>3
<1> HIDE DEF walk
<1>6. walk[{}] = s
  BY <1>5
<1>7. ASSUME NEW p \in SUBSET (1..n), p # {}, walk[p \ {Max(p)}] \in SplitState(C)
      PROVE  walk[p] = step[Max(p)][walk[p \ {Max(p)}]]
  <2>1. Max(p) \in 1..n
    BY <1>7, LargestInRange, <1>1
  <2>2. walk[p] = SplitChar(walk[p \ {Max(p)}], text[Max(p)])
    BY <1>1, <1>5, <1>7
  <2> HIDE DEF Is
  <2> QED
    BY <1>3, <1>7, <2>1, <2>2
<1>8. PICK g : Row(g, n, SplitState(C), s, step, walk[1..n])
  <2> HIDE DEF Is
  <2> QED
    BY <1>1, <1>2, <1>6, <1>7, WalkedRow, Zenon
<1> HIDE DEF Is
<1>9. ASSUME NEW k \in 1..n
      PROVE  g[k] = SplitChar(g[k - 1], text[k])
  <2>1. k - 1 \in 0..n
    BY <1>1
  <2>2. g[k - 1] \in SplitState(C) /\ g[k] = step[k][g[k - 1]]
    BY <1>8, <2>1 DEF Row
  <2> QED
    BY <1>3, <2>2
<1> QED
  BY <1>0, <1>1, <1>4, <1>8, <1>9 DEF Row

\* It stays among its states, and does nothing with no text.
LEMMA SplitTyped ==
  ASSUME NEW C, NEW s \in SplitState(C), NEW text \in Seq(C)
  PROVE  Split(s, text) \in SplitState(C) /\ Split(s, <<>>) = s
<1>1. Split(s, text) \in SplitState(C)
  <2>1. Len(text) \in Nat
    BY LenProperties
  <2>2. PICK g : g \in [0..Len(text) -> SplitState(C)] /\ g[Len(text)] = Split(s, text)
    BY SplitRow
  <2> QED
    BY <2>1, <2>2
<1>2. Split(s, <<>>) = s
  <2>1. <<>> \in Seq(C) /\ Len(<<>>) = 0
    BY EmptySeq
  <2>2. PICK e : e[0] = s /\ e[Len(<<>>)] = Split(s, <<>>)
    BY <2>1, SplitRow
  <2> QED
    BY <2>1, <2>2
<1> QED
  BY <1>1, <1>2

\* And with one.
LEMMA SplitOne ==
  ASSUME NEW C, NEW s \in SplitState(C), NEW c \in C
  PROVE  Split(s, <<c>>) = SplitChar(s, c)
<1>1. <<c>> \in Seq(C) /\ Len(<<c>>) = 1 /\ <<c>>[1] = c
  OBVIOUS
<1>2. PICK g : /\ g[0] = s
               /\ \A k \in 1..Len(<<c>>) : g[k] = SplitChar(g[k - 1], <<c>>[k])
               /\ g[Len(<<c>>)] = Split(s, <<c>>)
  <2> DEFINE text == <<c>>
  <2>1. text \in Seq(C)
    BY <1>1
  <2> HIDE DEF text
  <2>2. \E g : /\ g[0] = s
               /\ \A k \in 1..Len(text) : g[k] = SplitChar(g[k - 1], text[k])
               /\ g[Len(text)] = Split(s, text)
    BY <2>1, SplitRow
  <2> QED
    BY <2>2 DEF text
<1>3. g[1] = SplitChar(g[1 - 1], <<c>>[1])
  <2>1. 1 \in 1..Len(<<c>>)
    BY <1>1
  <2> QED
    BY <1>2, <2>1
<1> QED
  BY <1>1, <1>2, <1>3

\* What it is with one character more.
LEMMA SplitAppend ==
  ASSUME NEW C, NEW s \in SplitState(C), NEW text \in Seq(C), NEW c \in C
  PROVE  Split(s, Append(text, c)) = SplitChar(Split(s, text), c)
<1>0. PICK n \in Nat : n = Len(text)
  BY LenProperties
<1> DEFINE more == Append(text, c)
<1>1. more \in Seq(C) /\ Len(more) = n + 1 /\ more[n + 1] = c
  BY <1>0
<1>2. \A k \in 1..n : more[k] = text[k]
  BY <1>0
<1> HIDE DEF more
<1>3. PICK g : /\ g \in [0..n -> SplitState(C)] /\ g[0] = s
               /\ \A k \in 1..n : g[k] = SplitChar(g[k - 1], text[k])
               /\ g[n] = Split(s, text)
  BY <1>0, SplitRow
<1>4. PICK h : /\ h \in [0..(n + 1) -> SplitState(C)] /\ h[0] = s
               /\ \A k \in 1..(n + 1) : h[k] = SplitChar(h[k - 1], more[k])
               /\ h[n + 1] = Split(s, more)
  <2>1. \E h : /\ h \in [0..Len(more) -> SplitState(C)] /\ h[0] = s
               /\ \A k \in 1..Len(more) : h[k] = SplitChar(h[k - 1], more[k])
               /\ h[Len(more)] = Split(s, more)
    BY <1>1, SplitRow
  <2> QED
    BY <1>1, <2>1
<1> DEFINE T == {k \in Nat : k <= n => h[k] = g[k]}
<1>5. Nat \subseteq T
  <2>1. 0 \in T
    BY <1>3, <1>4
  <2>2. ASSUME NEW k \in Nat, k \in T
        PROVE  k + 1 \in T
    <3>1. SUFFICES ASSUME k + 1 <= n PROVE h[k + 1] = g[k + 1]
      OBVIOUS
    <3>2. k + 1 \in 1..n /\ k + 1 \in 1..(n + 1) /\ (k + 1) - 1 = k
      BY <3>1
    <3>3. g[k + 1] = SplitChar(g[k], text[k + 1])
      BY <1>3, <3>2
    <3>4. h[k + 1] = SplitChar(h[k], more[k + 1])
      BY <1>4, <3>2
    <3>5. h[k] = g[k] /\ more[k + 1] = text[k + 1]
      BY <1>2, <2>2, <3>1, <3>2
    <3> QED
      BY <3>3, <3>4, <3>5
  <2> HIDE DEF T
  <2> QED
    BY <2>1, <2>2, Induction
<1>6. h[n] = g[n]
  <2>1. n \in T
    <3> HIDE DEF T
    <3> QED
      BY <1>5
  <2> QED
    BY <2>1
<1>7. n + 1 \in 1..(n + 1) /\ (n + 1) - 1 = n /\ n \in 0..n
  OBVIOUS
<1>9. Split(s, more) = SplitChar(Split(s, text), c)
  <2>1. h[n + 1] = SplitChar(h[n], more[n + 1])
    BY <1>4, <1>7
  <2> QED
    BY <1>1, <1>3, <1>4, <1>6, <2>1
<1> QED
  BY <1>9 DEF more

\* It reads one text after another.
LEMMA SplitConcat ==
  ASSUME NEW C, NEW s \in SplitState(C), NEW v \in Seq(C), NEW w \in Seq(C)
  PROVE  Split(s, v \o w) = Split(Split(s, v), w)
<1> DEFINE P == {u \in Seq(C) : Split(s, v \o u) = Split(Split(s, v), u)}
<1>0. Split(s, v) \in SplitState(C)
  BY SplitTyped
<1>1. <<>> \in P
  <2>1. <<>> \in Seq(C) /\ v \o <<>> = v
    BY EmptySeq
  <2>2. Split(Split(s, v), <<>>) = Split(s, v)
    BY <1>0, <2>1, SplitTyped
  <2> QED
    BY <2>1, <2>2
<1>2. ASSUME NEW u \in Seq(C), NEW x \in C, u \in P
      PROVE  Append(u, x) \in P
  <2>1. v \o Append(u, x) = Append(v \o u, x) /\ v \o u \in Seq(C)
    OBVIOUS
  <2>2. Split(s, Append(v \o u, x)) = SplitChar(Split(s, v \o u), x)
    BY <2>1, SplitAppend, ZenonT(60)
  <2>3. Split(Split(s, v), Append(u, x)) = SplitChar(Split(Split(s, v), u), x)
    BY <1>0, SplitAppend
  <2>4. Append(u, x) \in Seq(C)
    OBVIOUS
  <2> QED
    BY <1>2, <2>1, <2>2, <2>3, <2>4
<1>3. Seq(C) \subseteq P
  <2> HIDE DEF P
  <2> QED
    BY <1>1, <1>2, SeqInduction
<1> QED
  BY <1>3

-------------------------------------------------------------------------------

\* A character, and an argument, as response_file writes them.
Written(c) == IF c \in Escaped THEN <<"\\", c>> ELSE <<c>>
WrittenArg(a) == FlattenSeq([j \in DOMAIN a |-> Written(a[j])])

\* After some characters of an argument, and after a line.
Taken(s, w) == [s EXCEPT !.cur = w, !.started = TRUE]
Read(l) == [out |-> l, cur |-> <<>>, started |-> FALSE, quote |-> "none", escape |-> FALSE]

\* A state in the middle of an argument, field by field.
LEMMA TakenIs ==
  ASSUME NEW C, NEW s \in SplitState(C), NEW w \in Seq(C)
  PROVE  /\ Taken(s, w) \in SplitState(C)
         /\ Taken(s, w).escape = s.escape /\ Taken(s, w).quote = s.quote
         /\ Taken(s, w).cur = w /\ Taken(s, w).out = s.out
         /\ \A v : Taken(Taken(s, w), v) = Taken(s, v)
<1>1. DOMAIN s = {"out", "cur", "started", "quote", "escape"}
  BY DEF SplitState
<1>2. ASSUME NEW v
      PROVE  Taken(Taken(s, w), v) = Taken(s, v)
  BY <1>1 DEF Taken
<1> QED
  BY <1>2 DEF SplitState, Taken

\* What buildargv makes of a character that was written so.
LEMMA CharRead ==
  ASSUME NEW C, "\\" \in C, "\n" \in C, NEW s \in SplitState(C), ~s.escape, s.quote = "none", NEW c \in C
  PROVE  /\ Written(c) \in Seq(C)
         /\ Split(s, Written(c)) = Taken(s, Append(s.cur, c))
<1> DEFINE after == Taken(s, Append(s.cur, c))
<1>1. CASE c \in Escaped
  <2>1. <<"\\", c>> = <<"\\">> \o <<c>> /\ <<"\\">> \in Seq(C) /\ <<c>> \in Seq(C)
    OBVIOUS
  <2>2. Split(s, <<"\\">>) = SplitChar(s, "\\") /\ SplitChar(s, "\\") \in SplitState(C)
    BY SplitOne, SplitStep
  <2>3. Split(s, <<"\\", c>>) = SplitChar(SplitChar(s, "\\"), c)
    <3>1. Split(s, <<"\\">> \o <<c>>) = Split(Split(s, <<"\\">>), <<c>>)
      <4> DEFINE v == <<"\\">>
                 w == <<c>>
      <4>1. v \in Seq(C) /\ w \in Seq(C)
        BY <2>1
      <4> HIDE DEF v, w
      <4>2. Split(s, v \o w) = Split(Split(s, v), w)
        BY <4>1, SplitConcat
      <4> QED
        BY <4>2 DEF v, w
    <3>2. Split(SplitChar(s, "\\"), <<c>>) = SplitChar(SplitChar(s, "\\"), c)
      BY <2>2, SplitOne
    <3> QED
      BY <2>1, <2>2, <3>1, <3>2
  <2>4. SplitChar(s, "\\") = [s EXCEPT !.escape = TRUE, !.started = TRUE]
    BY DEF SplitChar
  <2>5. SplitChar([s EXCEPT !.escape = TRUE, !.started = TRUE], c) = after
    BY DEF SplitChar, SplitState, Taken
  <2> QED
    BY <1>1, <2>1, <2>3, <2>4, <2>5 DEF Written
<1>2. CASE c \notin Escaped
  <2>2. Split(s, <<c>>) = SplitChar(s, c)
    BY SplitOne
  <2>3. SplitChar(s, c) = after
    BY <1>2 DEF SplitChar, Escaped, Taken
  <2> QED
    BY <1>2, <2>2, <2>3 DEF Written
<1> QED
  BY <1>1, <1>2

\* An argument is written a character at a time.
LEMMA WrittenAppend ==
  ASSUME NEW C, "\\" \in C, "\n" \in C, NEW a \in Seq(C), NEW c \in C
  PROVE  /\ WrittenArg(a) \in Seq(C)
         /\ WrittenArg(<<>>) = <<>>
         /\ WrittenArg(Append(a, c)) = WrittenArg(a) \o Written(c)
<1> DEFINE parts == [j \in DOMAIN a |-> Written(a[j])]
           more == [j \in DOMAIN Append(a, c) |-> Written(Append(a, c)[j])]
<1>0. \A x \in C : Written(x) \in Seq(C)
  BY DEF Written
<1>1. PICK n \in Nat : n = Len(a)
  BY LenProperties
<1>2. DOMAIN a = 1..n /\ DOMAIN Append(a, c) = 1..(n + 1)
  BY <1>1
<1>3. parts \in Seq(Seq(C)) /\ Len(parts) = n
  BY <1>0, <1>1, <1>2
<1>4. more \in Seq(Seq(C)) /\ Len(more) = n + 1
  BY <1>0, <1>1, <1>2
<1>5. more = Append(parts, Written(c))
  <2>1. \A j \in 1..(n + 1) : more[j] = Append(parts, Written(c))[j]
    BY <1>0, <1>1, <1>2, <1>3
  <2>2. Append(parts, Written(c)) \in Seq(Seq(C)) /\ Len(Append(parts, Written(c))) = n + 1
    BY <1>0, <1>3
  <2> HIDE DEF parts, more
  <2> QED
    BY <1>4, <2>1, <2>2, SeqEqual
<1>6. WrittenArg(a) = FlattenSeq(parts) /\ WrittenArg(Append(a, c)) = FlattenSeq(more)
  BY DEF WrittenArg
<1>7. WrittenArg(<<>>) = <<>>
  <2>1. [j \in DOMAIN <<>> |-> Written(<<>>[j])] = <<>>
    OBVIOUS
  <2> QED
    BY <2>1 DEF WrittenArg, FlattenSeq
<1> HIDE DEF parts, more
<1> QED
  BY <1>0, <1>3, <1>5, <1>6, <1>7, FlattenAppend

\* buildargv reads what was written.
LEMMA ArgRead ==
  ASSUME NEW C, "\\" \in C, "\n" \in C, NEW s \in SplitState(C), ~s.escape, s.quote = "none",
         NEW a \in Seq(C), a # <<>>
  PROVE  Split(s, WrittenArg(a)) = Taken(s, s.cur \o a)
<1> DEFINE P == {b \in Seq(C) : Split(s, WrittenArg(b)) = IF b = <<>> THEN s ELSE Taken(s, s.cur \o b)}
<1>0. PICK cur \in Seq(C) : cur = s.cur
  BY DEF SplitState
<1>1. <<>> \in P
  <2>1. WrittenArg(<<>>) = <<>> /\ <<>> \in Seq(C)
    BY WrittenAppend, EmptySeq
  <2>2. Split(s, <<>>) = s
    BY <2>1, SplitTyped
  <2> QED
    BY <2>1, <2>2
<1>2. ASSUME NEW b \in Seq(C), NEW x \in C, b \in P
      PROVE  Append(b, x) \in P
  <2> DEFINE t == Split(s, WrittenArg(b))
  <2>1. WrittenArg(b) \in Seq(C) /\ WrittenArg(Append(b, x)) = WrittenArg(b) \o Written(x)
    BY WrittenAppend
  <2>2. t = (IF b = <<>> THEN s ELSE Taken(s, cur \o b))
    BY <1>0, <1>2
  <2>3. /\ t \in SplitState(C) /\ ~t.escape /\ t.quote = "none" /\ t.cur = cur \o b
        /\ \A w \in Seq(C) : Taken(t, w) = Taken(s, w)
    <3>1. cur \o b \in Seq(C) /\ (b = <<>> => cur \o b = cur)
      OBVIOUS
    <3> HIDE DEF t
    <3>2. CASE b = <<>>
      BY <1>0, <2>2, <3>1, <3>2
    <3>3. CASE b # <<>>
      <4>1. t = Taken(s, cur \o b)
        BY <2>2, <3>3
      <4>2. /\ Taken(s, cur \o b) \in SplitState(C)
            /\ Taken(s, cur \o b).escape = s.escape /\ Taken(s, cur \o b).quote = s.quote
            /\ Taken(s, cur \o b).cur = cur \o b
            /\ \A v : Taken(Taken(s, cur \o b), v) = Taken(s, v)
        <5>1. PICK w \in Seq(C) : w = cur \o b
          BY <3>1
        <5>2. /\ Taken(s, w) \in SplitState(C)
              /\ Taken(s, w).escape = s.escape /\ Taken(s, w).quote = s.quote
              /\ Taken(s, w).cur = w
              /\ \A v : Taken(Taken(s, w), v) = Taken(s, v)
          BY TakenIs
        <5> QED
          BY <5>1, <5>2
      <4> QED
        BY <4>1, <4>2
    <3> QED
      BY <3>2, <3>3
  <2>4. Append(cur \o b, x) = cur \o Append(b, x) /\ Append(cur \o b, x) \in Seq(C)
    OBVIOUS
  <2>5. Split(t, Written(x)) = Taken(t, Append(t.cur, x)) /\ Written(x) \in Seq(C)
    <3> HIDE DEF t
    <3> QED
      BY <2>3, CharRead
  <2>6. Split(s, WrittenArg(b) \o Written(x)) = Split(t, Written(x))
    BY <2>1, <2>5, SplitConcat
  <2>7. Append(b, x) # <<>> /\ Append(b, x) \in Seq(C)
    OBVIOUS
  <2> HIDE DEF t
  <2>8. Split(s, WrittenArg(Append(b, x))) = Taken(s, s.cur \o Append(b, x))
    BY <1>0, <2>1, <2>3, <2>4, <2>5, <2>6
  <2> QED
    BY <2>7, <2>8
<1>3. Seq(C) \subseteq P
  <2> HIDE DEF P
  <2> QED
    BY <1>1, <1>2, SeqInduction
<1> QED
  BY <1>3

\* A line for gcc, no argument of it empty.
Lines(C) == Seq(Seq(C) \ {<<>>})

\* A line is written an argument at a time.
LEMMA ResponseAppend ==
  ASSUME NEW C, "\\" \in C, "\n" \in C, NEW l \in Lines(C), NEW a \in Seq(C) \ {<<>>}
  PROVE  /\ response_file(l) \in Seq(C)
         /\ response_file(<<>>) = <<>>
         /\ response_file(Append(l, a)) = response_file(l) \o Append(WrittenArg(a), "\n")
<1> DEFINE part(x) == WrittenArg(x) \o <<"\n">>
           parts == [i \in DOMAIN l |-> part(l[i])]
           more == [i \in DOMAIN Append(l, a) |-> part(Append(l, a)[i])]
<1>0. \A x \in Seq(C) : part(x) \in Seq(C) /\ part(x) = Append(WrittenArg(x), "\n")
  <2>1. <<"\n">> \in Seq(C)
    OBVIOUS
  <2>2. \A x \in Seq(C) : WrittenArg(x) \in Seq(C)
    BY <2>1, WrittenAppend
  <2> QED
    BY <2>1, <2>2
<1>1. PICK n \in Nat : n = Len(l)
  BY LenProperties DEF Lines
<1>2. DOMAIN l = 1..n /\ DOMAIN Append(l, a) = 1..(n + 1) /\ \A i \in 1..n : l[i] \in Seq(C)
  BY <1>1 DEF Lines
<1>6. response_file(l) = FlattenSeq(parts) /\ response_file(Append(l, a)) = FlattenSeq(more)
  BY DEF response_file, WrittenArg, Written
<1>7. response_file(<<>>) = <<>>
  <2>1. [j \in DOMAIN <<>> |-> part(<<>>[j])] = <<>>
    OBVIOUS
  <2>2. response_file(<<>>) = FlattenSeq([j \in DOMAIN <<>> |-> part(<<>>[j])])
    BY DEF response_file, WrittenArg, Written
  <2> QED
    BY <2>1, <2>2 DEF FlattenSeq
<1> HIDE DEF part
<1>3. parts \in Seq(Seq(C)) /\ Len(parts) = n
  BY <1>0, <1>1, <1>2
<1>8. \A i \in 1..(n + 1) : Append(l, a)[i] = IF i = n + 1 THEN a ELSE l[i]
  BY <1>1 DEF Lines
<1>4. more \in Seq(Seq(C)) /\ Len(more) = n + 1
  BY <1>0, <1>1, <1>2, <1>8
<1>5. more = Append(parts, part(a))
  <2>1. \A i \in 1..(n + 1) : more[i] = Append(parts, part(a))[i]
    BY <1>0, <1>1, <1>2, <1>3, <1>8
  <2>2. Append(parts, part(a)) \in Seq(Seq(C)) /\ Len(Append(parts, part(a))) = n + 1
    BY <1>0, <1>3
  <2> HIDE DEF parts, more
  <2> QED
    BY <1>4, <2>1, <2>2, SeqEqual
<1> HIDE DEF parts, more
<1> QED
  BY <1>0, <1>3, <1>5, <1>6, <1>7, FlattenAppend

\* What gcc reads of a response file is the line it was written for (assets/shim.rs:530-539,
\* 569-606): quotes, spaces, backslashes and ends of lines in a path come through, whatever the
\* characters and however many arguments, as long as none is empty.
THEOREM ResponseFileFaithful ==
  ASSUME NEW S
  PROVE  \A l \in Lines(S) : split_response_file(response_file(l)) = l
<1> DEFINE C == S \union {"\\", "\n"}
<1>9. "\\" \in C /\ "\n" \in C /\ S \subseteq C
  OBVIOUS
<1> HIDE DEF C
<1> DEFINE P == {l \in Lines(C) : Split(Read(<<>>), response_file(l)) = Read(l)}
<1>0. \A l \in Seq(Seq(C)) : Read(l) \in SplitState(C) /\ Read(l).cur = <<>>
  <2>1. <<>> \in Seq(C)
    BY EmptySeq
  <2> QED
    BY <2>1 DEF SplitState, Read
<1>1. <<>> \in P
  <2>1. <<>> \in Lines(C) /\ <<>> \in Seq(C) /\ <<>> \in Seq(Seq(C))
    BY EmptySeq DEF Lines
  <2>2. response_file(<<>>) = <<>>
    <3>1. <<"\n">> \in Seq(C) \ {<<>>}
      BY <1>9
    <3> QED
      BY <1>9, <2>1, <3>1, ResponseAppend
  <2>3. Split(Read(<<>>), <<>>) = Read(<<>>)
    BY <1>0, <2>1, SplitTyped
  <2> QED
    BY <2>1, <2>2, <2>3
<1>2. ASSUME NEW l \in Lines(C), NEW a \in Seq(C) \ {<<>>}, l \in P
      PROVE  Append(l, a) \in P
  <2>1. /\ response_file(l) \in Seq(C)
        /\ response_file(Append(l, a)) = response_file(l) \o Append(WrittenArg(a), "\n")
        /\ WrittenArg(a) \in Seq(C)
    BY <1>9, ResponseAppend, WrittenAppend
  <2>2. /\ Read(l) \in SplitState(C) /\ ~Read(l).escape /\ Read(l).quote = "none"
        /\ Read(l).cur = <<>> /\ Read(<<>>) \in SplitState(C)
    <3>1. l \in Seq(Seq(C)) /\ <<>> \in Seq(Seq(C))
      BY SeqMonotonic, EmptySeq DEF Lines
    <3>2. ~Read(l).escape /\ Read(l).quote = "none"
      BY DEF Read
    <3> QED
      BY <1>0, <3>1, <3>2
  <2>3. Split(Read(<<>>), response_file(l)) = Read(l)
    BY <1>2
  <2>4. Split(Read(l), WrittenArg(a)) = Taken(Read(l), a)
    <3>1. Split(Read(l), WrittenArg(a)) = Taken(Read(l), Read(l).cur \o a)
      BY <1>9, <2>2, ArgRead
    <3> QED
      BY <2>2, <3>1
  <2>5. SplitChar(Taken(Read(l), a), "\n") = Read(Append(l, a))
    <3> DEFINE u == Taken(Read(l), a)
               v == SplitChar(u, "\n")
    <3>1. u \in SplitState(C) /\ ~u.escape /\ u.quote = "none" /\ u.cur = a /\ u.out = l /\ u.started
      <4>1. u.started /\ Read(l).out = l
        BY <2>2 DEF Taken, Read, SplitState
      <4> QED
        BY <2>2, <4>1, TakenIs
    <3> HIDE DEF u
    <3>2. /\ v.out = Append(l, a) /\ v.cur = <<>> /\ ~v.started /\ v.quote = "none" /\ ~v.escape
          /\ v.started \in BOOLEAN /\ v.escape \in BOOLEAN
      BY <3>1 DEF SplitChar, SplitState
    <3>3. v \in SplitState(C)
      BY <1>9, <3>1, SplitStep
    <3>4. Append(l, a) \in Seq(Seq(C))
      BY SeqMonotonic DEF Lines
    <3> HIDE DEF v
    <3>5. Read(Append(l, a)) \in SplitState(C)
      BY <1>0, <3>4
    <3>6. v = Read(Append(l, a))
      <4> DEFINE r == Read(Append(l, a))
      <4>1. r.out = Append(l, a) /\ r.cur = <<>> /\ r.started = FALSE /\ r.quote = "none" /\ r.escape = FALSE
        BY DEF Read
      <4> HIDE DEF r
      <4>2. r \in SplitState(C)
        BY <3>5 DEF r
      <4>3. v.started = FALSE /\ v.escape = FALSE
        BY <3>2
      <4>4. v = r
        BY <3>2, <3>3, <4>1, <4>2, <4>3, SameState
      <4> QED
        BY <4>4 DEF r
    <3> QED
      BY <3>6 DEF u, v
  <2>6. Append(WrittenArg(a), "\n") \in Seq(C)
    BY <1>9, <2>1
  <2>7. Split(Read(l), Append(WrittenArg(a), "\n")) = SplitChar(Taken(Read(l), a), "\n")
    BY <1>9, <2>1, <2>2, <2>4, SplitAppend
  <2>8. Split(Read(<<>>), response_file(Append(l, a))) = Split(Read(l), Append(WrittenArg(a), "\n"))
    <3> DEFINE w == Append(WrittenArg(a), "\n")
    <3>1. w \in Seq(C)
      BY <2>6
    <3> HIDE DEF w
    <3>2. Split(Read(<<>>), response_file(l) \o w) = Split(Split(Read(<<>>), response_file(l)), w)
      BY <2>1, <2>2, <3>1, SplitConcat
    <3> QED
      BY <2>1, <2>3, <3>2 DEF w
  <2>9. Append(l, a) \in Lines(C)
    BY DEF Lines
  <2> QED
    BY <2>5, <2>7, <2>8, <2>9
<1>3. Lines(C) \subseteq P
  <2> HIDE DEF P
  <2> QED
    BY <1>1, <1>2, SeqInduction DEF Lines
<1>4. SUFFICES ASSUME NEW l \in Lines(S) PROVE split_response_file(response_file(l)) = l
  OBVIOUS
<1>5. Split(Read(<<>>), response_file(l)) = Read(l)
  <2>1. Seq(S) \ {<<>>} \subseteq Seq(C) \ {<<>>}
    BY <1>9, SeqMonotonic
  <2>2. l \in Lines(C)
    BY <2>1, SeqMonotonic DEF Lines
  <2> QED
    BY <1>3, <2>2
<1> QED
  BY <1>5 DEF split_response_file, Split, Read

-------------------------------------------------------------------------------
(* reconcile.                                                                  *)

TakeState(D) == [output : Seq(D), rest : Lines(D), needs : BOOLEAN]
Unread == [output |-> <<>>, rest |-> <<>>, needs |-> FALSE]

\* An argument taken leaves a state of reconcile's, as does the start.
LEMMA TakesStep ==
  ASSUME NEW D, NEW s \in TakeState(D), NEW a \in Seq(D) \ {<<>>}
  PROVE  Takes(s, a) \in TakeState(D)
<1>1. Append(s.rest, a) \in Lines(D) /\ Tail(a) \in Seq(D)
  BY DEF TakeState, Lines
<1> QED
  BY <1>1 DEF TakeState, Takes

LEMMA UnreadTyped ==
  ASSUME NEW D
  PROVE  Unread \in TakeState(D)
<1>1. <<>> \in Seq(D) /\ <<>> \in Lines(D)
  BY EmptySeq DEF Lines
<1> QED
  BY <1>1 DEF TakeState, Unread

\* reconcile goes through the line from the first argument to the last.
LEMMA TakesRow ==
  ASSUME NEW D, NEW line \in Lines(D)
  PROVE  \E g : /\ g \in [0..Len(line) -> TakeState(D)] /\ g[0] = Unread
                /\ \A k \in 1..Len(line) : g[k] = Takes(g[k - 1], line[k])
                /\ g[Len(line)] = FoldLeft(Takes, Unread, line)
<1>0. PICK n \in Nat : n = Len(line)
  BY LenProperties DEF Lines
<1> DEFINE step == [k \in 1..n |-> [t \in TakeState(D) |-> Takes(t, line[k])]]
           Is(iter) == iter = [p \in SUBSET (DOMAIN line) |->
                                 IF p = {} THEN Unread ELSE Takes(iter[p \ {Max(p)}], line[Max(p)])]
           walk == CHOOSE iter : Is(iter)
<1>1. n \in Nat /\ DOMAIN line = 1..n /\ \A k \in 1..n : line[k] \in Seq(D) \ {<<>>}
  BY <1>0, LenProperties DEF Lines
<1>2. step \in [1..n -> [TakeState(D) -> TakeState(D)]]
  BY <1>1, TakesStep
<1>3. \A k \in 1..n : \A t \in TakeState(D) : step[k][t] = Takes(t, line[k])
  OBVIOUS
<1>4. FoldLeft(Takes, Unread, line) = walk[DOMAIN line]
  BY DEF FoldLeft, MapThenFoldSet
<1> HIDE DEF step
<1>5. Is(walk)
  <2>1. PICK iter : Walked(iter, n, TakeState(D), Unread, step)
    BY <1>1, <1>2, UnreadTyped, WalkExists, Zenon
  <2>2. ASSUME NEW p \in SUBSET (1..n), p # {}
        PROVE  iter[p] = Takes(iter[p \ {Max(p)}], line[Max(p)])
    <3>1. Max(p) \in 1..n
      BY <2>2, LargestInRange, <1>1
    <3>2. iter[p \ {Max(p)}] \in TakeState(D)
      BY <2>1 DEF Walked
    <3> QED
      BY <1>3, <2>1, <2>2, <3>1, <3>2 DEF Walked
  <2>3. Is(iter)
    BY <1>1, <2>1, <2>2 DEF Walked
  <2> HIDE DEF Is
  <2> QED
    BY <2>3
<1> HIDE DEF walk
<1>6. walk[{}] = Unread
  BY <1>5
<1>7. ASSUME NEW p \in SUBSET (1..n), p # {}, walk[p \ {Max(p)}] \in TakeState(D)
      PROVE  walk[p] = step[Max(p)][walk[p \ {Max(p)}]]
  <2>1. Max(p) \in 1..n
    BY <1>7, LargestInRange, <1>1
  <2>2. walk[p] = Takes(walk[p \ {Max(p)}], line[Max(p)])
    BY <1>1, <1>5, <1>7
  <2> HIDE DEF Is
  <2> QED
    BY <1>3, <1>7, <2>1, <2>2
<1>8. PICK g : Row(g, n, TakeState(D), Unread, step, walk[1..n])
  <2> HIDE DEF Is
  <2> QED
    BY <1>1, <1>2, <1>6, <1>7, UnreadTyped, WalkedRow, Zenon
<1> HIDE DEF Is
<1>9. ASSUME NEW k \in 1..n
      PROVE  g[k] = Takes(g[k - 1], line[k])
  <2>1. k - 1 \in 0..n
    BY <1>1
  <2>2. g[k - 1] \in TakeState(D) /\ g[k] = step[k][g[k - 1]]
    BY <1>8, <2>1 DEF Row
  <2> QED
    BY <1>3, <2>2
<1> QED
  BY <1>0, <1>1, <1>4, <1>8, <1>9 DEF Row
-------------------------------------------------------------------------------

\* What rustc names, native rlibs by their copies: one argument, and a line.
Input(a) == IF Kind(native_rlib(a)) \in InputKinds THEN <<native_rlib(a)>> ELSE <<>>
Copied(l) == [i \in DOMAIN l |-> native_rlib(l[i])]
Inputs(l) == InputsOf(Copied(l))

\* An rlib's copy is an argument too, and nothing else changes its kind.
LEMMA CopyTyped ==
  ASSUME NEW D, NEW a \in Seq(D) \ {<<>>}
  PROVE  /\ native_rlib(a) \in Seq(D \union {"copy"}) \ {<<>>}
         /\ Kind(native_rlib(a)) = Kind(a) \/ (Kind(a) = "rlib" /\ Kind(native_rlib(a)) = "copy")
<1>1. Tail(a) \in Seq(D) /\ a \in Seq(D \union {"copy"})
  BY SeqMonotonic
<1>2. Tail(a) \in Seq(D \union {"copy"}) /\ <<"copy">> \in Seq(D \union {"copy"})
  BY <1>1, SeqMonotonic
<1>3. /\ <<"copy">> \o Tail(a) \in Seq(D \union {"copy"})
      /\ Len(<<"copy">> \o Tail(a)) = 1 + Len(Tail(a)) /\ (<<"copy">> \o Tail(a))[1] = "copy"
  BY <1>2
<1>4. <<"copy">> \o Tail(a) # <<>>
  BY <1>2, <1>3
<1> QED
  BY <1>1, <1>3, <1>4 DEF native_rlib, Kind

\* They are made of the arguments one after the other, Input of each.
InputMap(D) == [a \in Seq(D) \ {<<>>} |-> Input(a)]

\* They are a map along the line, flattened.
LEMMA InputsMap ==
  ASSUME NEW D
  PROVE  /\ InputMap(D) \in [Seq(D) \ {<<>>} -> Seq(Seq(D \union {"copy"}) \ {<<>>})]
         /\ \A l \in Lines(D) : Inputs(l) = FlatMap(InputMap(D), l)
<1> DEFINE X == Seq(D) \ {<<>>}
           Y == Seq(D \union {"copy"}) \ {<<>>}
<1>1. InputMap(D) \in [X -> Seq(Y)]
  <2>1. \A x \in X : native_rlib(x) \in Y
    BY CopyTyped
  <2> HIDE DEF Y
  <2>2. \A x \in X : Input(x) \in Seq(Y)
    BY <2>1 DEF Input
  <2> QED
    BY <2>2 DEF InputMap
<1>2. ASSUME NEW l \in Seq(X)
      PROVE  Inputs(l) = FlatMap(InputMap(D), l)
  <2>1. DOMAIN Copied(l) = DOMAIN l /\ \A i \in DOMAIN l : Copied(l)[i] = native_rlib(l[i]) /\ l[i] \in X
    BY DEF Copied
  <2>2. [i \in DOMAIN Copied(l) |-> IF Kind(Copied(l)[i]) \in InputKinds THEN <<Copied(l)[i]>> ELSE <<>>]
          = [i \in DOMAIN l |-> InputMap(D)[l[i]]]
    BY <2>1 DEF Input, InputMap
  <2> QED
    BY <2>2 DEF Inputs, InputsOf, FlatMap
<1> QED
  BY <1>1, <1>2 DEF Lines

\* They are a line themselves, and come one after the other.
LEMMA InputsCat ==
  ASSUME NEW D, NEW s \in Lines(D), NEW t \in Lines(D)
  PROVE  /\ Inputs(s \o t) = Inputs(s) \o Inputs(t)
         /\ Inputs(s) \in Lines(D \union {"copy"})
<1>0. PICK X, Y : X = Seq(D) \ {<<>>} /\ Y = Seq(D \union {"copy"}) \ {<<>>}
  OBVIOUS
<1>1. PICK f \in [X -> Seq(Y)] : \A l \in Seq(X) : Inputs(l) = FlatMap(f, l)
  BY <1>0, InputsMap DEF Lines
<1>2. s \in Seq(X) /\ t \in Seq(X) /\ s \o t \in Seq(X)
  BY <1>0 DEF Lines
<1>3. FlatMap(f, s) \in Seq(Y)
  BY <1>2, FlatMapTyped
<1>4. FlatMap(f, s \o t) = FlatMap(f, s) \o FlatMap(f, t)
  BY <1>2, FlatMapCat
<1> QED
  BY <1>0, <1>1, <1>2, <1>3, <1>4 DEF Lines

\* Those of no argument, of one, and of one more.
LEMMA InputsOne ==
  ASSUME NEW D, NEW a \in Seq(D) \ {<<>>}
  PROVE  Inputs(<<>>) = <<>> /\ Inputs(<<a>>) = Input(a)
<1> DEFINE X == Seq(D) \ {<<>>}
           Y == Seq(D \union {"copy"}) \ {<<>>}
           f == InputMap(D)
<1>1. f \in [X -> Seq(Y)] /\ \A l \in Seq(X) : Inputs(l) = FlatMap(f, l)
  BY InputsMap DEF Lines
<1>2. a \in X /\ f[a] = Input(a) /\ <<>> \in Seq(X) /\ <<a>> \in Seq(X)
  BY DEF InputMap
<1> HIDE DEF X, Y, f
<1>3. FlatMap(f, <<a>>) = f[a]
  BY <1>1, <1>2, FlatMapOne
<1>4. FlatMap(f, <<>>) = <<>>
  BY FlatMapNone
<1> QED
  BY <1>1, <1>2, <1>3, <1>4

LEMMA InputsAppend ==
  ASSUME NEW D, NEW s \in Lines(D), NEW a \in Seq(D) \ {<<>>}
  PROVE  Inputs(Append(s, a)) = Inputs(s) \o Input(a)
<1> DEFINE t == <<a>>
<1>1. t \in Lines(D) /\ Append(s, a) = s \o t
  BY DEF Lines
<1>2. Inputs(t) = Input(a)
  BY InputsOne
<1> HIDE DEF t
<1>3. Inputs(s \o t) = Inputs(s) \o Inputs(t)
  BY <1>1, InputsCat
<1> QED
  BY <1>1, <1>2, <1>3

\* The line so far, and what is kept of it.
Kept(line, k, s) ==
  /\ s.needs <=> k # 0 /\ Kind(line[k]) = "-o" /\ Len(line[k]) = 1
  /\ (\E j \in 1..k : Kind(line[j]) = "-o") => s.needs \/ s.output = <<"a">>
  /\ \A i \in DOMAIN s.rest : Kind(s.rest[i]) \notin Stripped
  /\ Inputs(s.rest) = Inputs(SubSeq(line, 1, k))
  /\ \A i \in DOMAIN s.rest : \E j \in 1..k : s.rest[i] = line[j]
  /\ (\E j \in 1..k : Kind(line[j]) = "inject") => \E i \in DOMAIN s.rest : Kind(s.rest[i]) = "inject"
  /\ \A i, h \in DOMAIN s.rest : Kind(s.rest[i]) = "inject" /\ Kind(s.rest[h]) = "inject" => i = h
  /\ \A i, h \in DOMAIN s.rest :
       Kind(s.rest[i]) \in {"compat", "lto"} /\ Kind(s.rest[h]) \in {"compat", "lto"} => i = h

\* A line of rustc's, in what the proofs need of it.
LineOf(line, D) ==
  /\ line \in Lines(D)
  /\ \E i \in 1..Len(line) : Kind(line[i]) = "-o"
  /\ \A i \in 1..Len(line) : Kind(line[i]) = "-o" =>
       IF Len(line[i]) > 1 THEN Tail(line[i]) = <<"a">>
       ELSE i < Len(line) /\ line[i + 1] = <<"a">>
  /\ \E i \in 1..Len(line) : Kind(line[i]) = "inject"
  /\ \A i, j \in 1..Len(line) : Kind(line[i]) = "inject" /\ Kind(line[j]) = "inject" => i = j
  /\ \A i, j \in 1..Len(line) :
       Kind(line[i]) \in {"compat", "lto"} /\ Kind(line[j]) \in {"compat", "lto"} => i = j
  /\ \A i, j \in 1..Len(line) : ~(Kind(line[i]) = "lto" /\ Kind(line[j]) = "rlib")

\* RustcLine says so of what rustc writes.
LEMMA RustcLineIs ==
  ASSUME NEW line, RustcLine(line)
  PROVE  LineOf(line, STRING)
<1>1. line \in Lines(STRING) /\ DOMAIN line = 1..Len(line)
  BY DEF RustcLine, Lines
<1>2. PICK i0 \in DOMAIN line : {i \in DOMAIN line : Kind(line[i]) \in {"inject"}} = {i0}
  BY DEF RustcLine
<1>3. \A i \in DOMAIN line : Kind(line[i]) = "inject" <=> i = i0
  BY <1>2
<1>4. \E i \in DOMAIN line : Kind(line[i]) = "-o"
  BY DEF RustcLine
<1>5. \A i \in DOMAIN line : Kind(line[i]) = "-o" =>
       IF Len(line[i]) > 1 THEN Tail(line[i]) = <<"a">>
       ELSE i < Len(line) /\ line[i + 1] = <<"a">>
  BY DEF RustcLine
<1>6. \A i, j \in DOMAIN line :
       Kind(line[i]) \in {"compat", "lto"} /\ Kind(line[j]) \in {"compat", "lto"} => i = j
  BY DEF RustcLine
<1>7. \A i, j \in DOMAIN line : ~(Kind(line[i]) = "lto" /\ Kind(line[j]) = "rlib")
  BY DEF RustcLine
<1> QED
  BY <1>1, <1>3, <1>4, <1>5, <1>6, <1>7 DEF LineOf

\* One argument more, kept or not.
LEMMA KeptDrops ==
  ASSUME NEW D, NEW line, LineOf(line, D), NEW k \in Nat, k + 1 <= Len(line),
         NEW s \in TakeState(D), NEW t \in TakeState(D), Kept(line, k, s),
         t.rest = s.rest, Kind(line[k + 1]) \notin InputKinds \union {"inject"},
         t.needs <=> Kind(line[k + 1]) = "-o" /\ Len(line[k + 1]) = 1,
         (\E j \in 1..(k + 1) : Kind(line[j]) = "-o") => t.needs \/ t.output = <<"a">>
  PROVE  Kept(line, k + 1, t)
<1>1. line \in Lines(D) /\ line[k + 1] \in Seq(D) \ {<<>>} /\ k + 1 \in Nat
  BY DEF LineOf, Lines
<1>2. PICK so \in Lines(D) : so = SubSeq(line, 1, k) /\ SubSeq(line, 1, k + 1) = Append(so, line[k + 1])
  BY <1>1, PrefixGrows, ZenonT(60) DEF Lines
<1>3. Input(line[k + 1]) = <<>>
  BY <1>1, CopyTyped DEF Input, InputKinds
<1>4. Inputs(SubSeq(line, 1, k + 1)) = Inputs(SubSeq(line, 1, k))
  <2>1. Inputs(Append(so, line[k + 1])) = Inputs(so) \o Input(line[k + 1])
    BY <1>1, InputsAppend
  <2>2. Inputs(so) \in Lines(D \union {"copy"})
    BY <1>1, InputsCat
  <2>3. Inputs(so) \o <<>> = Inputs(so)
    BY <2>2 DEF Lines
  <2> QED
    BY <1>2, <1>3, <2>1, <2>3
<1>5. \A j \in 1..(k + 1) : j \in 1..k \/ j = k + 1
  OBVIOUS
<1>6. \A i \in DOMAIN t.rest : \E j \in 1..(k + 1) : t.rest[i] = line[j]
  <2>1. 1..k \subseteq 1..(k + 1)
    OBVIOUS
  <2> QED
    BY <2>1 DEF Kept
<1>7. (\E j \in 1..(k + 1) : Kind(line[j]) = "inject") => \E i \in DOMAIN t.rest : Kind(t.rest[i]) = "inject"
  BY <1>5 DEF Kept
<1> QED
  BY <1>1, <1>4, <1>6, <1>7 DEF Kept

\* An argument that reconcile keeps.
LEMMA KeptTakes ==
  ASSUME NEW D, NEW line, LineOf(line, D), NEW k \in Nat, k + 1 <= Len(line),
         NEW s \in TakeState(D), NEW t \in TakeState(D), Kept(line, k, s),
         t.rest = Append(s.rest, line[k + 1]), t.output = s.output, ~s.needs, ~t.needs,
         Kind(line[k + 1]) \notin Stripped \union {"-o"}
  PROVE  Kept(line, k + 1, t)
<1>1. line \in Lines(D) /\ line[k + 1] \in Seq(D) \ {<<>>} /\ k + 1 \in Nat /\ k + 1 \in 1..Len(line)
  BY DEF LineOf, Lines
<1>2. PICK so \in Lines(D) : so = SubSeq(line, 1, k) /\ SubSeq(line, 1, k + 1) = Append(so, line[k + 1])
  BY <1>1, PrefixGrows DEF Lines
<1>3. PICK rest \in Lines(D) : rest = s.rest
  BY DEF TakeState
<1>4. t.rest = Append(rest, line[k + 1])
  BY <1>3
<1>5. Inputs(t.rest) = Inputs(SubSeq(line, 1, k + 1))
  <2>1. Inputs(Append(so, line[k + 1])) = Inputs(so) \o Input(line[k + 1])
    BY <1>1, InputsAppend
  <2>2. Inputs(Append(rest, line[k + 1])) = Inputs(rest) \o Input(line[k + 1])
    BY <1>1, InputsAppend
  <2>3. Inputs(rest) = Inputs(so)
    BY <1>2, <1>3 DEF Kept
  <2> QED
    BY <1>2, <1>4, <2>1, <2>2, <2>3
<1>6. PICK m \in Nat : m = Len(rest)
  BY LenProperties DEF Lines
<1>7. /\ DOMAIN rest = 1..m /\ DOMAIN t.rest = 1..(m + 1) /\ t.rest[m + 1] = line[k + 1]
      /\ \A i \in 1..m : t.rest[i] = rest[i]
  BY <1>1, <1>4, <1>6 DEF Lines
<1>8. \A i \in 1..m : \E j \in 1..k : rest[i] = line[j]
  BY <1>3, <1>7 DEF Kept
<1>9. \A j \in 1..k : j # k + 1 /\ j \in 1..Len(line) /\ j \in 1..(k + 1)
  BY <1>1
<1>10. \A i \in 1..m : ~(Kind(rest[i]) = "inject" /\ Kind(line[k + 1]) = "inject")
  BY <1>1, <1>8, <1>9 DEF LineOf
<1>11. \A i \in 1..m : ~(Kind(rest[i]) \in {"compat", "lto"} /\ Kind(line[k + 1]) \in {"compat", "lto"})
  BY <1>1, <1>8, <1>9 DEF LineOf
<1>12. \A i \in 1..(m + 1) : i \in 1..m \/ i = m + 1
  OBVIOUS
<1>13. /\ \A i \in DOMAIN t.rest : Kind(t.rest[i]) \notin Stripped
       /\ \A i \in DOMAIN t.rest : \E j \in 1..(k + 1) : t.rest[i] = line[j]
  <2>1. \A i \in 1..m : Kind(rest[i]) \notin Stripped
    BY <1>3, <1>7 DEF Kept
  <2>2. k + 1 \in 1..(k + 1)
    OBVIOUS
  <2> QED
    BY <1>7, <1>8, <1>9, <1>12, <2>1, <2>2
<1>14. (\E j \in 1..(k + 1) : Kind(line[j]) = "inject") => \E i \in DOMAIN t.rest : Kind(t.rest[i]) = "inject"
  <2>1. (\E j \in 1..k : Kind(line[j]) = "inject") => \E i \in 1..m : Kind(rest[i]) = "inject"
    BY <1>3, <1>7 DEF Kept
  <2>2. \A j \in 1..(k + 1) : j \in 1..k \/ j = k + 1
    OBVIOUS
  <2>3. 1..m \subseteq 1..(m + 1) /\ m + 1 \in 1..(m + 1)
    OBVIOUS
  <2> QED
    BY <1>7, <2>1, <2>2, <2>3
<1>15. \A i, h \in DOMAIN t.rest : Kind(t.rest[i]) = "inject" /\ Kind(t.rest[h]) = "inject" => i = h
  <2>1. \A i, h \in 1..m : Kind(rest[i]) = "inject" /\ Kind(rest[h]) = "inject" => i = h
    BY <1>3, <1>7 DEF Kept
  <2> QED
    BY <1>7, <1>10, <1>12, <2>1
<1>16. \A i, h \in DOMAIN t.rest :
         Kind(t.rest[i]) \in {"compat", "lto"} /\ Kind(t.rest[h]) \in {"compat", "lto"} => i = h
  <2>1. \A i, h \in 1..m :
          Kind(rest[i]) \in {"compat", "lto"} /\ Kind(rest[h]) \in {"compat", "lto"} => i = h
    BY <1>3, <1>7 DEF Kept
  <2> QED
    BY <1>7, <1>11, <1>12, <2>1
<1>17. (\E j \in 1..(k + 1) : Kind(line[j]) = "-o") => t.needs \/ t.output = <<"a">>
  <2>1. \A j \in 1..(k + 1) : j \in 1..k \/ j = k + 1
    OBVIOUS
  <2> QED
    BY <2>1 DEF Kept
<1> QED
  BY <1>5, <1>13, <1>14, <1>15, <1>16, <1>17 DEF Kept

\* reconcile keeps what rustc names, and has its output.
LEMMA ReconcileKeeps ==
  ASSUME NEW D, NEW line, LineOf(line, D)
  PROVE  LET s == FoldLeft(Takes, Unread, line)
         IN  s \in TakeState(D) /\ s.output = <<"a">> /\ Kept(line, Len(line), s)
<1>1. line \in Lines(D)
  BY DEF LineOf
<1>2. PICK n \in Nat : n = Len(line)
  BY <1>1, LenProperties DEF Lines
<1>3. \A k \in 1..n : line[k] \in Seq(D) \ {<<>>}
  BY <1>1, <1>2 DEF Lines
<1>4. PICK g : /\ g \in [0..n -> TakeState(D)] /\ g[0] = Unread
               /\ \A k \in 1..n : g[k] = Takes(g[k - 1], line[k])
               /\ g[n] = FoldLeft(Takes, Unread, line)
  BY <1>1, <1>2, TakesRow
<1> DEFINE T == {k \in Nat : k <= n => Kept(line, k, g[k])}
<1>5. 0 \in T
  <2>1. SubSeq(line, 1, 0) = <<>>
    BY <1>1 DEF Lines
  <2>2. Unread.rest = <<>> /\ Unread.needs = FALSE /\ DOMAIN <<>> = {}
    BY DEF Unread
  <2>3. 1..0 = {}
    OBVIOUS
  <2> HIDE DEF Unread
  <2>4. Kept(line, 0, Unread)
    BY <2>1, <2>2, <2>3 DEF Kept
  <2> QED
    BY <1>4, <2>4
<1>6. ASSUME NEW k \in Nat, k \in T
      PROVE  k + 1 \in T
  <2>1. SUFFICES ASSUME k + 1 <= n PROVE Kept(line, k + 1, g[k + 1])
    BY <1>6
  <2>2. PICK s \in TakeState(D) : s = g[k]
    BY <1>4, <2>1
  <2>3. PICK t \in TakeState(D) : t = g[k + 1]
    BY <1>4, <2>1
  <2>4. PICK a \in Seq(D) \ {<<>>} : a = line[k + 1]
    BY <1>3, <2>1
  <2>5. Kept(line, k, s)
    BY <1>6, <2>1, <2>2
  <2>14. t = Takes(s, a) /\ k + 1 \in 1..n
    <3>1. k + 1 \in 1..n /\ (k + 1) - 1 = k
      BY <2>1
    <3> QED
      BY <1>4, <2>1, <2>2, <2>3, <2>4, <3>1
  <2>6. /\ Kind(a) = "-o" /\ Len(a) > 1 => Tail(a) = <<"a">>
        /\ s.needs => a = <<"a">>
    <3>1. s.needs => k # 0 /\ Kind(line[k]) = "-o" /\ Len(line[k]) = 1
      BY <2>5 DEF Kept
    <3>2. s.needs => k \in 1..n /\ Kind(line[k]) = "-o" /\ ~(Len(line[k]) > 1)
      <4>1. k # 0 => k \in 1..n
        BY <2>1
      <4>2. Len(line[k]) = 1 => ~(Len(line[k]) > 1)
        OBVIOUS
      <4> QED
        BY <3>1, <4>1, <4>2
    <3>3. \A i \in 1..n : Kind(line[i]) = "-o" =>
            IF Len(line[i]) > 1 THEN Tail(line[i]) = <<"a">>
            ELSE i < Len(line) /\ line[i + 1] = <<"a">>
      BY <1>2 DEF LineOf
    <3> QED
      BY <2>4, <2>14, <3>2, <3>3
  <2>7. (\E j \in 1..(k + 1) : Kind(line[j]) = "-o") => Kind(a) = "-o" \/ s.needs \/ s.output = <<"a">>
    <3>1. \A j \in 1..(k + 1) : j \in 1..k \/ j = k + 1
      OBVIOUS
    <3> QED
      BY <2>4, <2>5, <3>1 DEF Kept
  <2>8. s.needs \in BOOLEAN /\ Len(a) \in Nat /\ (Len(a) = 1 \/ Len(a) > 1)
    <3>1. Len(a) \in Nat \ {0}
      BY EmptySeq
    <3>2. s.needs \in BOOLEAN
      BY DEF TakeState
    <3>3. \A m \in Nat \ {0} : m = 1 \/ m > 1
      OBVIOUS
    <3> QED
      BY <3>1, <3>2, <3>3
  <2>9. CASE s.needs
    <3>1. t.rest = s.rest /\ ~t.needs /\ t.output = a
      BY <2>14, <2>9 DEF Takes, TakeState
    <3>2. Kind(a) = "a"
      BY <2>6, <2>9 DEF Kind
    <3> QED
      BY <1>2, <2>1, <2>3, <2>4, <2>5, <2>6, <2>9, <3>1, <3>2, KeptDrops DEF InputKinds
  <2>10. CASE ~s.needs /\ Kind(a) = "-o" /\ Len(a) = 1
    <3>1. t.rest = s.rest /\ t.needs
      <4>1. Takes(s, a) = [s EXCEPT !.needs = TRUE]
        BY <2>10 DEF Takes, Stripped
      <4> QED
        BY <2>14, <4>1 DEF TakeState
    <3> QED
      BY <1>2, <2>1, <2>3, <2>4, <2>5, <2>10, <3>1, KeptDrops DEF InputKinds
  <2>11. CASE ~s.needs /\ Kind(a) = "-o" /\ Len(a) > 1
    <3>1. t.rest = s.rest /\ ~t.needs /\ t.output = <<"a">> /\ Len(a) # 1
      <4>1. Takes(s, a) = [s EXCEPT !.output = Tail(a)]
        BY <2>11 DEF Takes, Stripped
      <4>2. t.rest = s.rest /\ t.needs = s.needs /\ t.output = Tail(a)
        BY <2>14, <4>1 DEF TakeState
      <4>3. Tail(a) = <<"a">>
        BY <2>6, <2>11
      <4>5. \A m \in Nat : m > 1 => m # 1
        OBVIOUS
      <4>6. Len(a) # 1
        BY <2>8, <2>11, <4>5
      <4> QED
        BY <2>11, <4>2, <4>3, <4>6
    <3> QED
      BY <1>2, <2>1, <2>3, <2>4, <2>5, <2>11, <3>1, KeptDrops DEF InputKinds
  <2>12. CASE ~s.needs /\ Kind(a) \in Stripped
    <3>1. t = s /\ Kind(a) # "-o" /\ Kind(a) \notin InputKinds \union {"inject"}
      BY <2>14, <2>12 DEF Takes, Stripped, InputKinds
    <3> QED
      BY <1>2, <2>1, <2>3, <2>4, <2>5, <2>7, <2>12, <3>1, KeptDrops
  <2>13. CASE ~s.needs /\ Kind(a) \notin Stripped \union {"-o"}
    <3>1. t.rest = Append(s.rest, a) /\ ~t.needs /\ t.output = s.output
      BY <2>14, <2>13 DEF Takes, TakeState
    <3> QED
      BY <1>2, <2>1, <2>3, <2>4, <2>5, <2>13, <3>1, KeptTakes
  <2> QED
    BY <2>8, <2>9, <2>10, <2>11, <2>12, <2>13
<1>7. Kept(line, n, g[n])
  <2>1. Nat \subseteq T
    <3> HIDE DEF T
    <3> QED
      BY <1>5, <1>6, Induction
  <2> QED
    BY <2>1
<1>8. g[n].output = <<"a">>
  <2>1. \E j \in 1..n : Kind(line[j]) = "-o"
    BY <1>2 DEF LineOf
  <2>2. ~g[n].needs
    <3>1. n # 0 /\ Kind(line[n]) = "-o" /\ Len(line[n]) = 1 => FALSE
      <4>1. \A i \in 1..n : Kind(line[i]) = "-o" => Len(line[i]) > 1 \/ i < Len(line)
        BY <1>2 DEF LineOf
      <4>2. n # 0 => n \in 1..n
        OBVIOUS
      <4>3. ~(n < n)
        OBVIOUS
      <4>5. Len(line[n]) = 1 => ~(Len(line[n]) > 1)
        OBVIOUS
      <4> QED
        BY <1>2, <4>1, <4>2, <4>3, <4>5
    <3> QED
      BY <1>7, <3>1 DEF Kept
  <2> QED
    BY <1>7, <2>1, <2>2 DEF Kept
<1> QED
  BY <1>2, <1>4, <1>7, <1>8

-------------------------------------------------------------------------------
(* with_shim.                                                                  *)

Shims == {"inject", "compat", "lto"}

\* What reconcile leaves.
RestOf(rest, D) ==
  /\ rest \in Lines(D)
  /\ \A i \in 1..Len(rest) : Kind(rest[i]) \notin Stripped
  /\ \E i \in 1..Len(rest) : Kind(rest[i]) = "inject"
  /\ \A i, j \in 1..Len(rest) : Kind(rest[i]) = "inject" /\ Kind(rest[j]) = "inject" => i = j
  /\ \A i, j \in 1..Len(rest) :
       Kind(rest[i]) \in {"compat", "lto"} /\ Kind(rest[j]) \in {"compat", "lto"} => i = j
  /\ \A i, j \in 1..Len(rest) : ~(Kind(rest[i]) = "lto" /\ Kind(rest[j]) = "rlib")

\* At the end of the line.
LEMMA KeptIsRest ==
  ASSUME NEW D, NEW line, LineOf(line, D), NEW s \in TakeState(D), Kept(line, Len(line), s)
  PROVE  RestOf(s.rest, D)
<1>1. s.rest \in Lines(D) /\ DOMAIN s.rest = 1..Len(s.rest)
  BY DEF TakeState, Lines
<1>2. \E i \in DOMAIN s.rest : Kind(s.rest[i]) = "inject"
  BY DEF Kept, LineOf
<1>3. \A i, j \in DOMAIN s.rest : ~(Kind(s.rest[i]) = "lto" /\ Kind(s.rest[j]) = "rlib")
  <2>1. \A i \in DOMAIN s.rest : \E j \in 1..Len(line) : s.rest[i] = line[j]
    BY DEF Kept
  <2>2. \A i, j \in 1..Len(line) : ~(Kind(line[i]) = "lto" /\ Kind(line[j]) = "rlib")
    BY DEF LineOf
  <2> QED
    BY <2>1, <2>2
<1>4. /\ \A i \in DOMAIN s.rest : Kind(s.rest[i]) \notin Stripped
      /\ \A i, j \in DOMAIN s.rest : Kind(s.rest[i]) = "inject" /\ Kind(s.rest[j]) = "inject" => i = j
      /\ \A i, j \in DOMAIN s.rest :
           Kind(s.rest[i]) \in {"compat", "lto"} /\ Kind(s.rest[j]) \in {"compat", "lto"} => i = j
  BY DEF Kept
<1> QED
  BY <1>1, <1>2, <1>3, <1>4 DEF RestOf

\* A line without one of its arguments.
LEMMA Without ==
  ASSUME NEW D, NEW rest \in Lines(D), NEW at \in 1..Len(rest), Input(rest[at]) = <<>>
  PROVE  LET others == RemoveAt(rest, at)
         IN  /\ others \in Lines(D) /\ Len(others) = Len(rest) - 1
             /\ \A i \in 1..Len(others) : others[i] = IF i < at THEN rest[i] ELSE rest[i + 1]
             /\ Inputs(others) = Inputs(rest)
<1> DEFINE A == Seq(D) \ {<<>>}
<1>0. rest \in Seq(A)
  BY DEF Lines
<1>1. PICK n \in Nat : n = Len(rest)
  BY LenProperties DEF Lines
<1>2. at \in Nat /\ at - 1 \in Nat /\ at <= n /\ at >= 1 /\ (at - 1) + 1 = at
  BY <1>1
<1>3. rest \in Seq(A) /\ rest[at] \in A
  BY <1>0, <1>1
<1> HIDE DEF A
<1>4. PICK p \in Seq(A) : p = SubSeq(rest, 1, at - 1)
  <2>1. \A i \in 1..(at - 1) : rest[i] \in A
    BY <1>1, <1>2, <1>3
  <2>2. 1 \in Int /\ at - 1 \in Int
    BY <1>2
  <2> QED
    BY <2>1, <2>2, SubSeqProperties
<1>15. at + 1 \in Int /\ n \in Int
  BY <1>2
<1>5. PICK q \in Seq(A) : q = SubSeq(rest, at + 1, n)
  <2>1. \A i \in (at + 1)..n : rest[i] \in A
    BY <1>1, <1>2, <1>3
  <2> QED
    BY <1>15, <2>1, SubSeqProperties
<1>6. Len(p) = at - 1 /\ \A i \in 1..(at - 1) : p[i] = rest[i]
  BY <1>1, <1>2, <1>3, <1>4
<1>7. Len(q) = n - at /\ \A i \in 1..(n - at) : q[i] = rest[at + i]
  BY <1>1, <1>2, <1>3, <1>5
<1> DEFINE others == p \o q
<1>8. RemoveAt(rest, at) = others
  BY <1>1, <1>4, <1>5 DEF RemoveAt
<1>9. others \in Lines(D) /\ Len(others) = n - 1
  BY <1>2, <1>6, <1>7, ConcatProperties, SMTT(30) DEF Lines, A
<1>10. ASSUME NEW i \in 1..(n - 1)
       PROVE  others[i] = IF i < at THEN rest[i] ELSE rest[i + 1]
  <2>1. others[i] = IF i <= at - 1 THEN p[i] ELSE q[i - (at - 1)]
    BY <1>1, <1>2, <1>6, <1>7, ConcatProperties
  <2>2. CASE i < at
    <3>1. i \in 1..(at - 1)
      BY <1>2, <2>2
    <3> QED
      BY <1>6, <2>1, <2>2, <3>1
  <2>3. CASE ~(i < at)
    <3>1. i - (at - 1) \in 1..(n - at) /\ at + (i - (at - 1)) = i + 1 /\ ~(i <= at - 1)
      BY <1>1, <1>2, <2>3
    <3> HIDE DEF others
    <3> QED
      BY <1>7, <2>1, <2>3, <3>1
  <2> QED
    BY <2>2, <2>3
<1>11. Inputs(others) = Inputs(rest)
  <2> DEFINE front == Append(p, rest[at])
  <2>1. front \in Seq(A) /\ Len(front) = at
        /\ \A i \in 1..at : front[i] = IF i = at THEN rest[at] ELSE p[i]
    BY <1>2, <1>3, <1>6
  <2> HIDE DEF front
  <2>2. front \o q = rest
    <3>1. front \o q \in Seq(A) /\ Len(front \o q) = n
      <4>1. front \o q \in Seq(A) /\ Len(front \o q) = Len(front) + Len(q)
        BY <2>1, ConcatProperties
      <4>2. at + (n - at) = n
        BY <1>2
      <4> QED
        BY <1>7, <2>1, <4>1, <4>2
    <3>2. ASSUME NEW i \in 1..n
          PROVE  (front \o q)[i] = rest[i]
      <4>1. (front \o q)[i] = IF i <= at THEN front[i] ELSE q[i - at]
        BY <1>1, <1>2, <1>7, <2>1, ConcatProperties
      <4>2. CASE i <= at
        <5>1. i \in 1..at /\ (i # at => i \in 1..(at - 1))
          BY <1>2, <4>2
        <5> QED
          BY <1>6, <2>1, <4>1, <4>2, <5>1
      <4>3. CASE ~(i <= at)
        <5>1. i - at \in 1..(n - at) /\ at + (i - at) = i
          BY <1>1, <1>2, <4>3
        <5> QED
          BY <1>7, <4>1, <4>3, <5>1
      <4> QED
        BY <4>2, <4>3
    <3> QED
      BY <1>1, <1>3, <3>1, <3>2, SeqEqual
  <2>7. p \in Lines(D) /\ rest[at] \in Seq(D) \ {<<>>} /\ front = Append(p, rest[at])
    BY <1>3 DEF Lines, front, A
  <2>3. Inputs(p) \in Lines(D \union {"copy"}) /\ Inputs(front) = Inputs(p) \o Input(rest[at])
    <3>1. Inputs(p) \in Lines(D \union {"copy"})
      BY <2>7, InputsCat
    <3>2. Inputs(Append(p, rest[at])) = Inputs(p) \o Input(rest[at])
      BY <2>7, InputsAppend
    <3> QED
      BY <2>7, <3>1, <3>2
  <2>4. Inputs(front) = Inputs(p)
    BY <2>3 DEF Lines
  <2>5. Inputs(front \o q) = Inputs(front) \o Inputs(q)
    <3>1. front \in Lines(D) /\ q \in Lines(D) /\ rest[at] \in Seq(D) \ {<<>>}
      BY <1>3, <2>1 DEF Lines, A
    <3> QED
      BY <3>1, InputsCat
  <2>6. Inputs(p \o q) = Inputs(p) \o Inputs(q)
    <3>1. p \in Lines(D) /\ q \in Lines(D) /\ rest[at] \in Seq(D) \ {<<>>}
      BY <1>3 DEF Lines, A
    <3> QED
      BY <3>1, InputsCat
  <2> QED
    BY <2>2, <2>4, <2>5, <2>6
<1> HIDE DEF others
<1> QED
  BY <1>1, <1>8, <1>9, <1>10, <1>11

\* with_shim leaves one shim, and the rest as it was.
LEMMA WithShim ==
  ASSUME NEW D, NEW rest, RestOf(rest, D)
  PROVE  LET line == with_shim(rest)
         IN  /\ line \in Lines(D)
             /\ \A i \in 1..Len(line) : Kind(line[i]) \notin Stripped
             /\ Inputs(line) = Inputs(rest)
             /\ \E i \in 1..Len(line) : \A j \in 1..Len(line) : Kind(line[j]) \in Shims <=> j = i
<1>1. PICK n \in Nat : n = Len(rest)
  BY LenProperties DEF RestOf, Lines
<1>2. PICK at \in 1..n : \A i \in 1..n : Kind(rest[i]) = "inject" <=> i = at
  BY <1>1 DEF RestOf
<1>3. /\ rest \in Lines(D)
      /\ \A i \in 1..n : Kind(rest[i]) \notin Stripped
      /\ \A i, j \in 1..n :
           Kind(rest[i]) \in {"compat", "lto"} /\ Kind(rest[j]) \in {"compat", "lto"} => i = j
      /\ \A i, j \in 1..n : ~(Kind(rest[i]) = "lto" /\ Kind(rest[j]) = "rlib")
  BY <1>1 DEF RestOf
<1>4. SelectInSeq(rest, LAMBDA a : Kind(a) = "inject") = at
  <2>1. {i \in 1..n : Kind(rest[i]) = "inject"} = {at}
    BY <1>2
  <2>2. Min({at}) = at
    BY DEF Min
  <2> QED
    BY <1>1, <2>1, <2>2 DEF SelectInSeq
<1>5. Input(rest[at]) = <<>> /\ rest[at] \in Seq(D) \ {<<>>} /\ Kind(rest[at]) = "inject"
  <2>1. rest[at] \in Seq(D) \ {<<>>} /\ Kind(rest[at]) = "inject"
    BY <1>1, <1>2, <1>3 DEF Lines
  <2> QED
    BY <2>1, CopyTyped DEF Input, InputKinds
<1>6. PICK others \in Lines(D) :
        /\ others = RemoveAt(rest, at) /\ Len(others) = n - 1
        /\ \A i \in 1..(n - 1) : others[i] = IF i < at THEN rest[i] ELSE rest[i + 1]
        /\ Inputs(others) = Inputs(rest)
  BY <1>1, <1>3, <1>5, Without
<1>7. with_shim(rest) = IF explicit(others) THEN others ELSE Append(others, rest[at])
  <2>1. at # 0
    OBVIOUS
  <2> QED
    BY <1>4, <1>6, <2>1 DEF with_shim
<1> DEFINE up(i) == IF i < at THEN i ELSE i + 1
<1>8. /\ \A i \in 1..(n - 1) : up(i) \in 1..n /\ up(i) # at /\ others[i] = rest[up(i)]
      /\ \A i, j \in 1..(n - 1) : up(i) = up(j) => i = j
  BY <1>6
<1>9. DOMAIN others = 1..(n - 1)
  BY <1>6 DEF Lines
<1>10. /\ \A i \in 1..(n - 1) : Kind(others[i]) \notin Stripped /\ Kind(others[i]) # "inject"
       /\ \A i, j \in 1..(n - 1) :
            Kind(others[i]) \in {"compat", "lto"} /\ Kind(others[j]) \in {"compat", "lto"} => i = j
       /\ \A i, j \in 1..(n - 1) : ~(Kind(others[i]) = "lto" /\ Kind(others[j]) = "rlib")
  <2> HIDE DEF up
  <2> QED
    BY <1>2, <1>3, <1>8
<1>11. CASE explicit(others)
  <2>1. PICK i \in 1..(n - 1) : Kind(others[i]) \in {"compat", "lto"}
    BY <1>9, <1>11 DEF explicit
  <2>2. \A j \in 1..(n - 1) : Kind(others[j]) \in Shims <=> j = i
    BY <1>10, <2>1 DEF Shims
  <2> QED
    BY <1>6, <1>7, <1>10, <1>11, <2>1, <2>2
<1>12. CASE ~explicit(others)
  <2> DEFINE line == Append(others, rest[at])
  <2>1. \A i \in 1..(n - 1) : Kind(others[i]) \notin Shims
    <3>1. \A i \in 1..(n - 1) : Kind(others[i]) # "compat"
      BY <1>9, <1>12 DEF explicit
    <3>2. \A i \in 1..(n - 1) : Kind(others[i]) # "lto"
      BY <1>9, <1>10, <1>12, <3>1 DEF explicit
    <3> QED
      BY <1>10, <3>1, <3>2 DEF Shims
  <2>2. /\ line \in Lines(D) /\ Len(line) = n /\ line[n] = rest[at]
        /\ \A i \in 1..(n - 1) : line[i] = others[i]
    BY <1>5, <1>6 DEF Lines
  <2>3. Inputs(line) = Inputs(rest)
    <3>1. Inputs(line) = Inputs(others) \o <<>>
      BY <1>5, InputsAppend
    <3>2. Inputs(others) \in Lines(D \union {"copy"})
      BY <1>5, InputsCat
    <3> QED
      BY <1>6, <3>1, <3>2 DEF Lines
  <2>4. \A i \in 1..n : i = n \/ i \in 1..(n - 1)
    OBVIOUS
  <2>5. Kind(rest[at]) \in Shims /\ Kind(rest[at]) \notin Stripped
    BY <1>5 DEF Shims, Stripped
  <2>6. with_shim(rest) = line
    BY <1>7, <1>12
  <2> HIDE DEF line
  <2>7. \A i \in 1..n : Kind(line[i]) \notin Stripped /\ (Kind(line[i]) \in Shims <=> i = n)
    <3>1. \A i \in 1..(n - 1) : i # n
      OBVIOUS
    <3> QED
      BY <1>10, <2>1, <2>2, <2>4, <2>5, <3>1
  <2>8. n \in 1..n
    OBVIOUS
  <2> QED
    BY <2>2, <2>3, <2>6, <2>7, <2>8
<1> QED
  BY <1>11, <1>12

-------------------------------------------------------------------------------
(* ld.                                                                         *)

\* What the inputs of a line are, one after the other.
LEMMA InputsOfIs ==
  ASSUME NEW D, NEW s \in Lines(D), NEW t \in Lines(D)
  PROVE  /\ InputsOf(s) \in Lines(D)
         /\ InputsOf(s \o t) = InputsOf(s) \o InputsOf(t)
<1> DEFINE A == Seq(D) \ {<<>>}
           f == [a \in A |-> IF Kind(a) \in InputKinds THEN <<a>> ELSE <<>>]
<1>1. f \in [A -> Seq(A)]
  <2> HIDE DEF A
  <2> QED
    OBVIOUS
<1>2. \A l \in Seq(A) : InputsOf(l) = FlatMap(f, l)
  <2> SUFFICES ASSUME NEW l \in Seq(A) PROVE InputsOf(l) = FlatMap(f, l)
    OBVIOUS
  <2>1. \A i \in DOMAIN l : l[i] \in A
    OBVIOUS
  <2>2. [i \in DOMAIN l |-> IF Kind(l[i]) \in InputKinds THEN <<l[i]>> ELSE <<>>]
          = [i \in DOMAIN l |-> f[l[i]]]
    <3> HIDE DEF A
    <3> QED
      BY <2>1
  <2> QED
    BY <2>2 DEF InputsOf, FlatMap
<1>3. s \in Seq(A) /\ t \in Seq(A) /\ s \o t \in Seq(A)
  BY DEF Lines
<1> HIDE DEF A, f
<1>4. FlatMap(f, s) \in Seq(A) /\ FlatMap(f, s \o t) = FlatMap(f, s) \o FlatMap(f, t)
  <2>1. FlatMap(f, s) \in Seq(A)
    BY <1>1, <1>3, FlatMapTyped
  <2>2. FlatMap(f, s \o t) = FlatMap(f, s) \o FlatMap(f, t)
    BY <1>1, <1>3, FlatMapCat
  <2> QED
    BY <2>1, <2>2
<1> QED
  BY <1>2, <1>3, <1>4 DEF Lines, A

\* A line that names no input has none.
LEMMA NoInputs ==
  ASSUME NEW D, NEW s \in Lines(D), \A i \in 1..Len(s) : Kind(s[i]) \notin InputKinds
  PROVE  InputsOf(s) = <<>>
<1> DEFINE e == <<>>
           parts == [i \in DOMAIN s |-> IF Kind(s[i]) \in InputKinds THEN <<s[i]>> ELSE <<>>]
           P == {l \in Seq({e}) : FlattenSeq(l) = <<>>}
<1>1. parts \in Seq({e})
  <2>1. DOMAIN s = 1..Len(s) /\ Len(s) \in Nat
    BY DEF Lines
  <2>2. parts = [i \in 1..Len(s) |-> e]
    BY <2>1
  <2> QED
    BY <2>1, <2>2
<1>2. e \in P
  BY DEF FlattenSeq
<1>3. ASSUME NEW l \in Seq({e}), NEW x \in {e}, l \in P
      PROVE  Append(l, x) \in P
  <2>1. l \in Seq(Seq(D)) /\ x \in Seq(D)
    <3>1. e \in Seq(D)
      OBVIOUS
    <3> QED
      BY <3>1, SeqMonotonic, ZenonT(60)
  <2>2. FlattenSeq(Append(l, x)) = FlattenSeq(l) \o x
    BY <2>1, FlattenAppend
  <2> QED
    BY <1>3, <2>2
<1>4. Seq({e}) \subseteq P
  <2> HIDE DEF P
  <2> QED
    BY <1>2, <1>3, SeqInduction DEF e
<1> QED
  BY <1>1, <1>4 DEF InputsOf

\* The arguments of ld's own.
LdWords == {"-o", "a", "crt", "static", "wraps", "libcosmo", "copy"}
Before == <<<<"-o">>, <<"a">>, <<"crt">>, <<"static">>, <<"wraps">>>>
After == <<<<"libcosmo">>>>

\* What ld makes of a line: all that was named, in between words of its own.
LEMMA LdIs ==
  ASSUME NEW D, NEW asked, LineOf(expand_response_files(asked), D)
  PROVE  /\ ld(asked) \in Lines(D \union LdWords)
         /\ InputsOf(ld(asked)) = Inputs(expand_response_files(asked))
         /\ ld(asked)[2] = <<"a">>
         /\ \A i \in DOMAIN ld(asked) : Kind(ld(asked)[i]) \notin Stripped
         /\ \E i \in DOMAIN ld(asked) : \A j \in DOMAIN ld(asked) : Kind(ld(asked)[j]) \in Shims <=> j = i
<1> DEFINE line == expand_response_files(asked)
           s == FoldLeft(Takes, Unread, line)
           rest == with_shim(s.rest)
           E == D \union LdWords
           A == Seq(E) \ {<<>>}
<1>1. reconcile(asked) = s
  BY DEF reconcile, Unread
<1>2. s \in TakeState(D) /\ s.output = <<"a">> /\ Kept(line, Len(line), s)
  BY ReconcileKeeps
<1>3. Inputs(s.rest) = Inputs(line)
  <2>1. line \in Seq(Seq(D) \ {<<>>})
    BY DEF LineOf, Lines
  <2>2. SubSeq(line, 1, Len(line)) = line
    <3> HIDE DEF line
    <3> QED
      BY <2>1, SubSeqFull
  <2> HIDE DEF line, s
  <2> QED
    BY <1>2, <2>2 DEF Kept
<1>4. RestOf(s.rest, D)
  <2> HIDE DEF s
  <2> QED
    BY <1>2, KeptIsRest
<1>5. /\ rest \in Lines(D)
      /\ \A i \in 1..Len(rest) : Kind(rest[i]) \notin Stripped
      /\ Inputs(rest) = Inputs(s.rest)
      /\ \E i \in 1..Len(rest) : \A j \in 1..Len(rest) : Kind(rest[j]) \in Shims <=> j = i
  <2> HIDE DEF s
  <2> QED
    BY <1>4, WithShim
<1>6. ld(asked) = (Before \o Copied(rest)) \o After
  <2>1. s.output # <<>>
    BY <1>2
  <2> HIDE DEF s
  <2> QED
    BY <1>1, <1>2, <2>1 DEF ld, Copied, Before, After
<1> HIDE DEF line, s, rest
<1>7. PICK n \in Nat : n = Len(rest)
  BY <1>5, LenProperties DEF Lines
<1> DEFINE copied == Copied(rest)
<1>8. /\ copied \in Seq(A) /\ Len(copied) = n
      /\ \A i \in 1..n : Kind(copied[i]) = Kind(rest[i]) \/ (Kind(rest[i]) = "rlib" /\ Kind(copied[i]) = "copy")
  <2>1. DOMAIN rest = 1..n /\ \A i \in 1..n : rest[i] \in Seq(D) \ {<<>>}
    BY <1>5, <1>7 DEF Lines
  <2>2. \A a \in Seq(D \union {"copy"}) \ {<<>>} : a \in A
    <3>1. D \union {"copy"} \subseteq E
      BY DEF LdWords
    <3> HIDE DEF E
    <3> QED
      BY <3>1, SeqMonotonic
  <2>3. \A i \in 1..n : native_rlib(rest[i]) \in A
    <3> HIDE DEF A
    <3> QED
      BY <2>1, <2>2, CopyTyped
  <2>4. copied = [i \in 1..n |-> native_rlib(rest[i])]
    BY <2>1 DEF Copied
  <2>5. copied \in Seq(A) /\ Len(copied) = n
    <3> HIDE DEF A, copied
    <3> QED
      BY <2>3, <2>4
  <2> QED
    BY <2>1, <2>4, <2>5, CopyTyped, ZenonT(60)
<1>9. /\ Before \in Seq(A) /\ Len(Before) = 5 /\ After \in Seq(A) /\ Len(After) = 1
      /\ Before[2] = <<"a">>
      /\ \A i \in 1..5 : Kind(Before[i]) \notin Stripped \union Shims \union InputKinds
      /\ \A i \in 1..1 : Kind(After[i]) \notin Stripped \union Shims \union InputKinds
  <2>1. \A w \in LdWords : <<w>> \in A
    OBVIOUS
  <2>2. <<"-o">> \in A /\ <<"a">> \in A /\ <<"crt">> \in A /\ <<"static">> \in A /\ <<"wraps">> \in A
        /\ <<"libcosmo">> \in A
    BY <2>1 DEF LdWords
  <2> HIDE DEF A
  <2>3. Before \in Seq(A) /\ Len(Before) = 5 /\ After \in Seq(A) /\ Len(After) = 1 /\ Before[2] = <<"a">>
    BY <2>2 DEF Before, After
  <2>4. \A i \in 1..5 : Kind(Before[i]) \in {"-o", "a", "crt", "static", "wraps"}
    <3>1. 1..5 = {1, 2, 3, 4, 5}
      OBVIOUS
    <3>2. Kind(<<"-o">>) = "-o" /\ Kind(<<"a">>) = "a" /\ Kind(<<"crt">>) = "crt" /\ Kind(<<"static">>) = "static"
          /\ Kind(<<"wraps">>) = "wraps"
      BY DEF Kind
    <3> QED
      BY <3>1, <3>2 DEF Before
  <2>5. \A i \in 1..1 : Kind(After[i]) = "libcosmo"
    BY DEF After, Kind
  <2> QED
    BY <2>3, <2>4, <2>5 DEF Stripped, Shims, InputKinds
<1> DEFINE out == (Before \o copied) \o After
<1> HIDE DEF A, copied
<1>10. /\ out \in Seq(A) /\ Len(out) = n + 6
       /\ \A i \in 1..5 : out[i] = Before[i]
       /\ \A i \in 1..n : out[i + 5] = copied[i]
       /\ out[n + 6] = After[1]
  <2>1. PICK v \in Seq(A) : v = Before
    BY <1>9
  <2>2. PICK w \in Seq(A) : w = After
    BY <1>9
  <2>3. PICK c \in Seq(A) : c = copied
    BY <1>8
  <2>4. PICK vc : vc = v \o c
    OBVIOUS
  <2>5. PICK u : u = vc \o w
    OBVIOUS
  <2>10. /\ vc \in Seq(A) /\ Len(vc) = 5 + n
         /\ \A i \in 1..5 : vc[i] = v[i]
         /\ \A i \in 1..n : vc[i + 5] = c[i]
    <3>1. Len(v) = 5 /\ Len(c) = n /\ 5 \in Nat
      BY <1>8, <1>9, <2>1, <2>3
    <3>2. /\ v \o c \in Seq(A) /\ Len(v \o c) = Len(v) + Len(c)
          /\ \A i \in 1..(Len(v) + Len(c)) : (v \o c)[i] = IF i <= Len(v) THEN v[i] ELSE c[i - Len(v)]
      BY ConcatProperties
    <3>3. /\ vc \in Seq(A) /\ Len(vc) = 5 + n
          /\ \A i \in 1..(5 + n) : vc[i] = IF i <= 5 THEN v[i] ELSE c[i - 5]
      BY <2>4, <3>1, <3>2
    <3>4. \A i \in 1..5 : i \in 1..(5 + n) /\ i <= 5
      OBVIOUS
    <3>5. \A i \in 1..n : i + 5 \in 1..(5 + n) /\ ~(i + 5 <= 5) /\ (i + 5) - 5 = i
      OBVIOUS
    <3> QED
      BY <3>3, <3>4, <3>5
  <2>8. /\ u \in Seq(A) /\ Len(u) = (5 + n) + 1
        /\ \A i \in 1..(5 + n) : u[i] = vc[i]
        /\ \A i \in 1..1 : u[i + (5 + n)] = w[i]
    <3>1. 5 + n \in Nat /\ 1 \in Nat /\ Len(vc) = 5 + n /\ Len(w) = 1
      BY <1>9, <2>2, <2>10
    <3>2. /\ vc \o w \in Seq(A) /\ Len(vc \o w) = Len(vc) + Len(w)
          /\ \A i \in 1..(Len(vc) + Len(w)) : (vc \o w)[i] = IF i <= Len(vc) THEN vc[i] ELSE w[i - Len(vc)]
      BY <2>10, ConcatProperties
    <3>3. /\ u \in Seq(A) /\ Len(u) = (5 + n) + 1
          /\ \A i \in 1..((5 + n) + 1) : u[i] = IF i <= 5 + n THEN vc[i] ELSE w[i - (5 + n)]
      BY <2>5, <3>1, <3>2
    <3>4. \A i \in 1..(5 + n) : i \in 1..((5 + n) + 1) /\ i <= 5 + n
      OBVIOUS
    <3>5. \A i \in 1..1 : i + (5 + n) \in 1..((5 + n) + 1) /\ ~(i + (5 + n) <= 5 + n) /\ (i + (5 + n)) - (5 + n) = i
      OBVIOUS
    <3> QED
      BY <3>3, <3>4, <3>5
  <2>6. /\ \A i \in 1..5 : u[i] = v[i]
        /\ \A i \in 1..n : u[i + 5] = c[i]
        /\ u[n + 6] = w[1]
    <3>1. \A i \in 1..5 : i \in 1..(5 + n)
      OBVIOUS
    <3>2. \A i \in 1..n : i + 5 \in 1..(5 + n)
      OBVIOUS
    <3>3. 1 + (5 + n) = n + 6 /\ 1 \in 1..1
      OBVIOUS
    <3> QED
      BY <2>10, <2>8, <3>1, <3>2, <3>3
  <2>9. (5 + n) + 1 = n + 6
    OBVIOUS
  <2>7. out = u
    BY <2>1, <2>2, <2>3, <2>4, <2>5
  <2> HIDE DEF out
  <2> QED
    BY <2>1, <2>2, <2>3, <2>6, <2>7, <2>8, <2>9
<1>11. InputsOf(out) = Inputs(line)
  <2>1. Before \in Lines(E) /\ After \in Lines(E) /\ copied \in Lines(E) /\ Before \o copied \in Lines(E)
    <3>1. Before \o copied \in Seq(A)
      BY <1>8, <1>9, ConcatProperties
    <3> HIDE DEF E
    <3> QED
      BY <1>8, <1>9, <3>1 DEF Lines, A
  <2>2. InputsOf(Before) = <<>> /\ InputsOf(After) = <<>>
    <3> HIDE DEF E
    <3> QED
      BY <1>9, <2>1, NoInputs
  <2> HIDE DEF E
  <2>3. InputsOf(Before \o copied) = InputsOf(Before) \o InputsOf(copied) /\ InputsOf(copied) \in Lines(E)
    BY <2>1, InputsOfIs
  <2>4. InputsOf((Before \o copied) \o After) = InputsOf(Before \o copied) \o InputsOf(After)
    BY <2>1, InputsOfIs
  <2>5. <<>> \o InputsOf(copied) = InputsOf(copied) /\ InputsOf(copied) \o <<>> = InputsOf(copied)
    BY <2>3 DEF Lines
  <2>6. InputsOf(copied) = Inputs(line)
    BY <1>3, <1>5 DEF Inputs, copied
  <2> QED
    BY <2>2, <2>3, <2>4, <2>5, <2>6
<1> HIDE DEF out
<1>12. ld(asked) = out
  BY <1>6 DEF out, copied
<1>13. DOMAIN out = 1..(n + 6) /\ \A i \in 1..(n + 6) : i \in 1..5 \/ (i - 5 \in 1..n /\ (i - 5) + 5 = i) \/ i = n + 6
  BY <1>10
<1>14. PICK k \in 1..n : \A j \in 1..n : Kind(rest[j]) \in Shims <=> j = k
  BY <1>5, <1>7
<1>15. \A i \in 1..n : Kind(copied[i]) \notin Stripped /\ (Kind(copied[i]) \in Shims <=> i = k)
  <2>1. "copy" \notin Stripped /\ "copy" \notin Shims /\ "rlib" \notin Shims
    BY DEF Stripped, Shims
  <2> QED
    BY <1>5, <1>7, <1>8, <1>14, <2>1
<1>16. /\ \A i \in 1..5 : Kind(out[i]) \notin Stripped \union Shims
       /\ \A i \in 1..n : Kind(out[i + 5]) \notin Stripped /\ (Kind(out[i + 5]) \in Shims <=> i = k)
       /\ Kind(out[n + 6]) \notin Stripped \union Shims
  <2>1. \A i \in 1..5 : Kind(out[i]) = Kind(Before[i])
    BY <1>10
  <2>2. \A i \in 1..n : Kind(out[i + 5]) = Kind(copied[i])
    BY <1>10
  <2>3. Kind(out[n + 6]) = Kind(After[1]) /\ 1 \in 1..1
    BY <1>10
  <2> QED
    BY <1>9, <1>15, <2>1, <2>2, <2>3
<1>17. \A i \in DOMAIN out : Kind(out[i]) \notin Stripped /\ (Kind(out[i]) \in Shims <=> i = k + 5)
  <2>1. \A i \in 1..5 : i # k + 5
    OBVIOUS
  <2>2. n + 6 # k + 5
    OBVIOUS
  <2> QED
    BY <1>13, <1>16, <2>1, <2>2
<1>18. k + 5 \in DOMAIN out /\ out[2] = <<"a">>
  BY <1>9, <1>10, <1>13
<1>19. out \in Lines(D \union LdWords)
  BY <1>10 DEF Lines, A
<1> QED
  BY <1>11, <1>12, <1>17, <1>18, <1>19 DEF line

-------------------------------------------------------------------------------
(* The links of a build.                                                      *)

\* What gcc reads of a line is the line.
LEMMA GccReads ==
  ASSUME NEW D, NEW line \in Lines(D)
  PROVE  gcc(line) = line
BY ResponseFileFaithful DEF gcc

\* A step leaves what gcc read of the links.
LEMMA LinksSeenStay ==
  ASSUME Next
  PROVE  seen' = seen
<1>1. ASSUME NEW o \in Outers, Script(o)
      PROVE  seen' = seen
  BY <1>1 DEF Script, Pair, Refused, Spawn, ReadStdout, Collect, NothingBuilt, Apelink, Fused,
             ApelinkFails, Pecheck, Ends
<1>2. ASSUME NEW o \in Outers, Echo(o) \/ Cargo(o)
      PROVE  seen' = seen
  BY <1>2 DEF Echo, Cargo, TakesLock, RunsScript, Compile, GivesUp, Exits, Tells
<1>3. ASSUME NEW n \in Names, Linker(n)
      PROVE  seen' = seen
  BY <1>3 DEF Linker, Look, Objcopy, Rename, Gcc
<1>4. ASSUME User
      PROVE  seen' = seen
  BY <1>4 DEF User, Edit, Delete, Start, Kill
<1> QED
  BY <1>1, <1>2, <1>3, <1>4 DEF Next

\* A link of a package, as it is asked for.
AsAsked(line, p, n) ==
  /\ InputsOf(line) = Packages[p].links[n]
  /\ line[2] = <<"a">>
  /\ \A i \in DOMAIN line : Kind(line[i]) \notin Stripped
  /\ Cardinality({i \in DOMAIN line : Kind(line[i]) \in {"inject", "compat", "lto"}}) = 1

\* Every link of a package is.
LEMMA LineAsAsked ==
  ASSUME LinesAsAsked, NEW p \in DOMAIN Packages, NEW n \in Names
  PROVE  AsAsked(gcc(ld(Packages[p].lines[n])), p, n)
<1> DEFINE asked == Packages[p].lines[n]
           line == expand_response_files(asked)
<1>1. RustcLine(line) /\ Packages[p].links[n] = Inputs(line)
  BY DEF LinesAsAsked, Inputs, Copied
<1>2. LineOf(line, STRING)
  <2> HIDE DEF line
  <2> QED
    BY <1>1, RustcLineIs
<1> HIDE DEF asked
<1>3. /\ ld(asked) \in Lines(STRING \union LdWords)
      /\ InputsOf(ld(asked)) = Inputs(line)
      /\ ld(asked)[2] = <<"a">>
      /\ \A i \in DOMAIN ld(asked) : Kind(ld(asked)[i]) \notin Stripped
      /\ \E i \in DOMAIN ld(asked) : \A j \in DOMAIN ld(asked) : Kind(ld(asked)[j]) \in Shims <=> j = i
  BY <1>2, LdIs
<1> HIDE DEF line
<1>4. gcc(ld(asked)) = ld(asked)
  BY <1>3, GccReads
<1>5. PICK k : {i \in DOMAIN ld(asked) : Kind(ld(asked)[i]) \in {"inject", "compat", "lto"}} = {k}
  BY <1>3 DEF Shims
<1>6. Cardinality({k}) = 1
  BY FS_Singleton
<1> QED
  BY <1>1, <1>3, <1>4, <1>5, <1>6 DEF AsAsked, asked

\* What gcc reads of every link (assets/shim.rs:78-220, 533): rustc's output and all that
\* rustc named, in its order but for the shim; none of what fights cosmo's model; native
\* rlibs by their copies; one copy of the translators.  For every line rustc may write, of any
\* length, in response files or not, and for every size from which ld writes one itself.
THEOREM LinkedAsAskedHolds ==
  ASSUME LinesAsAsked
  PROVE  Spec => []LinkedAsAsked
<1> DEFINE Seen == /\ project.name \in DOMAIN Packages
                   /\ seen = [n \in Names |-> gcc(ld(Package.lines[n]))]
<1>1. Init => Seen
  BY DEF Init, Package
<1>2. Seen /\ [Next]_vars => Seen'
  <2>1. CASE Next
    BY <2>1, PackageStays, LinksSeenStay DEF Package
  <2>2. CASE UNCHANGED vars
    BY <2>2 DEF vars, Package
  <2> QED
    BY <2>1, <2>2
<1>3. Seen => LinkedAsAsked
  <2> SUFFICES ASSUME Seen, NEW n \in Names
               PROVE  /\ InputsOf(seen[n]) = Package.links[n]
                      /\ seen[n][2] = <<"a">>
                      /\ \A i \in DOMAIN seen[n] : Kind(seen[n][i]) \notin Stripped
                      /\ Cardinality({i \in DOMAIN seen[n] :
                                        Kind(seen[n][i]) \in {"inject", "compat", "lto"}}) = 1
    BY DEF LinkedAsAsked
  <2>1. seen[n] = gcc(ld(Packages[project.name].lines[n])) /\ project.name \in DOMAIN Packages
    BY DEF Package
  <2> QED
    BY <2>1, LineAsAsked, ZenonT(60) DEF AsAsked, Package
<1> QED
  BY <1>1, <1>2, <1>3, PTL DEF Spec
===============================================================================
