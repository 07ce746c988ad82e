-------------------------------- MODULE Cosmocc ------------------------------
(***************************************************************************)
(* crates/cosmo-build/src/toolchain.rs, ensure_cosmocc: the toolchain is   *)
(* downloaded, verified, unpacked, converted (Linux) or patched (Windows)  *)
(* in a directory that every build of the user shares, without a lock.     *)
(* Builds are processes: they fail, they are killed, and they overlap when *)
(* two packages of a workspace have build scripts.                         *)
(***************************************************************************)
EXTENDS Naturals, FiniteSets

CONSTANTS
  Builds,     \* build scripts
  Tools,      \* the programs of the archive, "apelink" and "assimilate" among them
  Hosts,      \* the systems a build may run on
  MaxRuns,    \* bound: how many times a build is run, all counted
  MaxOverlaps \* bound: how many of them when two overlap

ASSUME ToolsAssumption == {"apelink", "assimilate"} \subseteq Tools /\ IsFiniteSet(Tools)
ASSUME HostsAssumption == Hosts \subseteq {"linux", "macos", "windows"}
ASSUME RunsAssumption == MaxRuns \in Nat /\ MaxOverlaps \in Nat

VARIABLES
  host,      \* the system, which never changes
  part,      \* cosmocc.zip.part: "none", "short", the pinned bytes or others
  attached,  \* builds whose open file is the one named cosmocc.zip.part
  file,      \* file[t]: what a program of the toolchain is on disk
  marker,    \* .patched exists
  pc,        \* where each build is
  todo,      \* the programs it still has to go through
  entry,     \* the program it is writing
  got,       \* "shared" when another build wrote to its file; the bytes it received,
             \* by their hash; later the archive it opened
  done,      \* it converted at least one program
  runs,      \* how many runs have begun
  overlapped,  \* history: two builds ran at a time
  halfway      \* history: one was stopped, or assimilate failed it, between bin/apelink and
               \* the last program

disk == <<part, attached, file, marker>>
history == <<runs, overlapped, halfway>>
vars == <<host, disk, pc, todo, entry, got, done, history>>

-------------------------------------------------------------------------------

Bytes == {"pinned", "other"}

\* A program on disk: not there, being written (and no APE yet to is_ape), an APE or
\* a native executable; whose bytes; patched or not.
Missing == [form |-> "none", bytes |-> "pinned", patched |-> FALSE]
Short == [form |-> "short", bytes |-> "pinned", patched |-> FALSE]
Ape(b) == [form |-> "ape", bytes |-> b, patched |-> FALSE]

Exists(t) == file[t].form # "none"
IsApe(t) == file[t].form = "ape"
Stopped == {"idle", "ok", "err", "dead"}
Running(b) == pc[b] \notin Stopped

Goto(b, l) == pc' = [pc EXCEPT ![b] = l]

\* bin/apelink is there, and the rest is still being unpacked or converted.
MidUnpack(b) == pc[b] \in {"unpack", "copy", "convert", "check"} /\ Exists("apelink")

Stop(b) == halfway' = (halfway \/ MidUnpack(b)) /\ UNCHANGED <<runs, overlapped>>

\* Mutant: the file stays open in a build that failed.
FailsOpen(b) ==
  /\ Goto(b, "err")
  /\ Stop(b)
  /\ UNCHANGED <<part, attached, file, marker, todo, entry, got, done>>

\* An Err of the step b is at; every open file is closed.
Fails(b) ==
  /\ Goto(b, "err")
  /\ Stop(b)
  /\ attached' = attached \ {b}
  /\ UNCHANGED <<part, file, marker, todo, entry, got, done>>

Init ==
  /\ host \in Hosts
  /\ part = "none"
  /\ attached = {}
  /\ file = [t \in Tools |-> Missing]
  /\ marker = FALSE
  /\ pc = [b \in Builds |-> "idle"]
  /\ todo = [b \in Builds |-> {}]
  /\ entry = [b \in Builds |-> "apelink"]
  /\ got = [b \in Builds |-> "none"]
  /\ done = [b \in Builds |-> FALSE]
  /\ runs = 0
  /\ overlapped = FALSE
  /\ halfway = FALSE

\* try_build_ape comes to the toolchain: a build started now, again or for the first time.
Begin(b) ==
  /\ ~Running(b)
  /\ runs < MaxRuns
  /\ runs' = runs + 1
  /\ overlapped' = (overlapped \/ \E o \in Builds : Running(o))
  /\ overlapped' => runs < MaxOverlaps
  /\ Goto(b, "look")
  /\ UNCHANGED <<disk, todo, entry, got, done, halfway>>

\* bin/apelink stands for the whole toolchain.
Look(b) ==
  /\ pc[b] = "look"
  /\ Goto(b, IF Exists("apelink") THEN "marker" ELSE "fetch")
  /\ UNCHANGED <<disk, todo, entry, got, done, history>>

\* File::create: an existing file is truncated for everyone who has it open.
Fetch(b) ==
  /\ pc[b] = "fetch"
  /\ \/ /\ part' = "short"
        /\ attached' = attached \union {b}
        /\ LET sharers == {o \in attached : pc[o] = "download"} IN
             got' = [o \in Builds |-> IF o \in sharers \/ (o = b /\ sharers # {})
                                     THEN "shared" ELSE IF o = b THEN "none" ELSE got[o]]
        /\ Goto(b, "download")
        /\ UNCHANGED <<file, marker, todo, entry, done, history>>
     \/ Fails(b)

\* io::copy through Tee: the bytes go to the build's own file, the hash is of what it
\* received.  A file that was shared, and truncated under its first writer, may come
\* out with holes.
Download(b) ==
  /\ pc[b] = "download"
  /\ \/ \E q \in Bytes :
          /\ got' = [got EXCEPT ![b] = q]
          /\ part' \in IF b \notin attached THEN {part}
                       ELSE IF got[b] = "shared" THEN {"short", q}
                       ELSE {q}
          /\ attached' = attached \ {b}
          /\ Goto(b, "verify")
          /\ UNCHANGED <<entry, file, marker, todo, done, history>>
     \/ Fails(b)

\* Mutant: the archive is unpacked whatever its hash.
VerifyNothing(b) ==
  /\ pc[b] = "verify"
  /\ Goto(b, "open")
  /\ UNCHANGED <<disk, todo, entry, got, done, history>>

\* The hash is compared; an archive that is not the pinned one is removed.
Verify(b) ==
  /\ pc[b] = "verify"
  /\ IF got[b] = "pinned"
     THEN Goto(b, "open") /\ UNCHANGED disk
     ELSE /\ part' = "none"
          /\ attached' = {}
          /\ Goto(b, "err")
          /\ UNCHANGED <<file, marker>>
  /\ UNCHANGED <<todo, entry, got, done, history>>

\* unzip opens the file by name, and needs the directory at its end.
Open(b) ==
  /\ pc[b] = "open"
  /\ IF part \in Bytes
     THEN /\ attached' = attached \union {b}
          /\ got' = [got EXCEPT ![b] = part]
          /\ todo' = [todo EXCEPT ![b] = Tools]
          /\ Goto(b, "unpack")
     ELSE /\ Goto(b, "err")
          /\ UNCHANGED <<attached, got, todo>>
  /\ UNCHANGED <<entry, part, file, marker, done, history>>

\* File::create of the next entry, in whatever order the archive has them.
Unpack(b) ==
  /\ pc[b] = "unpack"
  /\ todo[b] # {}
  /\ \/ \E t \in todo[b] :
          /\ file' = [file EXCEPT ![t] = Short]
          /\ todo' = [todo EXCEPT ![b] = @ \ {t}]
          /\ entry' = [entry EXCEPT ![b] = t]
          /\ Goto(b, "copy")
          /\ UNCHANGED <<part, attached, marker, got, done, history>>
     \/ Fails(b)

\* The entry is copied: an archive truncated under its reader cannot be read, one
\* removed under its reader still can.
CopyEntry(b) ==
  /\ pc[b] = "copy"
  /\ LET source == IF b \in attached THEN part ELSE got[b] IN
       \/ /\ source \in Bytes
          /\ file' = [file EXCEPT ![entry[b]] = Ape(source)]
          /\ Goto(b, "unpack")
          /\ UNCHANGED <<part, attached, marker, todo, entry, got, done, history>>
       \/ /\ source \notin Bytes
          /\ Goto(b, "err")
          /\ attached' = attached \ {b}
          /\ UNCHANGED <<part, file, marker, todo, entry, got, done, history>>
       \/ Fails(b)

\* The archive is removed, and the conversion of what walk finds begins where there is one.
RemovePart(b) ==
  /\ pc[b] = "unpack"
  /\ todo[b] = {}
  /\ part' = "none"
  /\ attached' = {}
  /\ IF host = "linux" /\ ~Exists("assimilate")
     THEN Goto(b, "err")
     ELSE Goto(b, IF host = "linux" THEN "convert" ELSE "check")
  /\ todo' = [todo EXCEPT ![b] = {t \in Tools \ {"assimilate"} : Exists(t)}]
  /\ done' = [done EXCEPT ![b] = FALSE]
  /\ UNCHANGED <<entry, file, marker, got, history>>

\* Mutant: the conversion stops at the first success.
ConvertOnce(b) ==
  /\ pc[b] = "convert"
  /\ todo[b] # {}
  /\ \E t \in todo[b] :
       /\ file' = [file EXCEPT ![t].form = IF @ = "ape" THEN "native" ELSE @]
       /\ todo' = [todo EXCEPT ![b] = {}]
       /\ done' = [done EXCEPT ![b] = TRUE]
  /\ UNCHANGED <<entry, part, attached, marker, pc, got, history>>

\* Mutant: a program is tried again until it is converted.
ConvertRetry(b) ==
  /\ pc[b] = "convert"
  /\ todo[b] # {}
  /\ \E t \in todo[b] :
       \/ /\ IsApe(t)
          /\ file' = [file EXCEPT ![t].form = "native"]
          /\ todo' = [todo EXCEPT ![b] = @ \ {t}]
          /\ done' = [done EXCEPT ![b] = TRUE]
       \/ UNCHANGED <<file, todo, done>>
  /\ UNCHANGED <<part, attached, marker, pc, entry, got, history>>

\* assimilate on the next program, if it is an APE now; that assimilate fails is not an
\* error, that it cannot be run is.
Convert(b) ==
  /\ pc[b] = "convert"
  /\ todo[b] # {}
  /\ \/ \E t \in todo[b] :
          /\ todo' = [todo EXCEPT ![b] = @ \ {t}]
          /\ \/ /\ IsApe(t)
                /\ file' = [file EXCEPT ![t].form = "native"]
                /\ done' = [done EXCEPT ![b] = TRUE]
                /\ UNCHANGED history
             \/ ~IsApe(t) /\ UNCHANGED <<file, done, history>>
             \/ IsApe(t) /\ Stop(b) /\ UNCHANGED <<file, done>>
          /\ UNCHANGED <<entry, part, attached, marker, pc, got>>
     \/ Fails(b)

\* Nothing converted is an error: the toolchain is unusable as it is.
Converted(b) ==
  /\ pc[b] = "convert"
  /\ todo[b] = {}
  /\ Goto(b, IF done[b] THEN "check" ELSE "err")
  /\ UNCHANGED <<disk, todo, entry, got, done, history>>

\* bin/apelink must have come out of the archive.
Check(b) ==
  /\ pc[b] = "check"
  /\ Goto(b, IF Exists("apelink") THEN "marker" ELSE "err")
  /\ UNCHANGED <<disk, todo, entry, got, done, history>>

\* patch_tools: nothing to do but on Windows, and there only once.
LookMarker(b) ==
  /\ pc[b] = "marker"
  /\ IF host # "windows" \/ marker
     THEN Goto(b, "ok") /\ UNCHANGED todo
     ELSE /\ Goto(b, "patch")
          /\ todo' = [todo EXCEPT ![b] = {t \in Tools : Exists(t)}]
  /\ UNCHANGED <<entry, disk, got, done, history>>

\* The next program that is an APE is edited in place; what is patched no longer matches.
Patch(b) ==
  /\ pc[b] = "patch"
  /\ todo[b] # {}
  /\ \/ \E t \in todo[b] :
          /\ file' = IF IsApe(t) THEN [file EXCEPT ![t].patched = TRUE] ELSE file
          /\ todo' = [todo EXCEPT ![b] = @ \ {t}]
          /\ UNCHANGED <<entry, part, attached, marker, pc, got, done, history>>
     \/ Fails(b)

\* .patched says that every program has been gone through.
Mark(b) ==
  /\ pc[b] = "patch"
  /\ todo[b] = {}
  /\ \/ /\ marker' = TRUE
        /\ Goto(b, "ok")
        /\ UNCHANGED <<part, attached, file, todo, entry, got, done, history>>
     \/ Fails(b)

\* The build is killed, or the machine stops.
Die(b) ==
  /\ Running(b)
  /\ Goto(b, "dead")
  /\ Stop(b)
  /\ attached' = attached \ {b}
  /\ UNCHANGED <<part, file, marker, todo, entry, got, done>>

Step(b) ==
  /\ UNCHANGED host
  /\ \/ Look(b) \/ Fetch(b) \/ Download(b) \/ Verify(b) \/ Open(b)
     \/ Unpack(b) \/ CopyEntry(b) \/ RemovePart(b)
     \/ Convert(b) \/ Converted(b) \/ Check(b)
     \/ LookMarker(b) \/ Patch(b) \/ Mark(b)

\* Every run allowed has been used.
Exhausted ==
  /\ \A b \in Builds : ~Running(b)
  /\ runs = MaxRuns \/ (overlapped /\ runs = MaxOverlaps)
  /\ UNCHANGED vars

Next ==
  \/ \E b \in Builds : Step(b) \/ (UNCHANGED host /\ (Begin(b) \/ Die(b)))
  \/ Exhausted

Spec == Init /\ [][Next]_vars
FairSpec == Spec /\ \A b \in Builds : WF_vars(Step(b))

-------------------------------------------------------------------------------

Steps == {"look", "fetch", "download", "verify", "open", "unpack", "copy", "convert", "check",
          "marker", "patch"}

\* The disk and the builds are in states the code can put them in.
TypeOK ==
  /\ host \in Hosts
  /\ part \in Bytes \union {"none", "short"}
  /\ attached \subseteq {b \in Builds : pc[b] \in {"download", "unpack", "copy"}}
  /\ file \in [Tools -> [form : {"none", "short", "ape", "native"}, bytes : Bytes,
                         patched : BOOLEAN]]
  /\ marker \in BOOLEAN
  /\ pc \in [Builds -> Steps \union Stopped]
  /\ entry \in [Builds -> Tools]
  /\ todo \in [Builds -> SUBSET Tools]
  /\ got \in [Builds -> Bytes \union {"none", "shared"}]
  /\ done \in [Builds -> BOOLEAN]
  /\ runs \in 0..MaxRuns
  /\ overlapped \in BOOLEAN /\ halfway \in BOOLEAN

Ready(t) ==
  CASE host = "linux" -> file[t].form = "native" \/ (t = "assimilate" /\ IsApe(t))
    [] host = "macos" -> IsApe(t)
    [] host = "windows" -> IsApe(t) /\ file[t].patched

\* A build that goes on has a toolchain whose programs all run: on Linux native,
\* because gcc spawns ld and cc1 without a shell, on macOS whole, on Windows free of
\* the two bugs ("after `assimilate` has run, everything is native").
AllReady == \A b \in Builds : pc[b] = "ok" => \A t \in Tools : Ready(t)

\* So it is while builds come one after the other and none is stopped between
\* bin/apelink and the last program, however often they fail or are killed elsewhere.
OkMeansReady == ~overlapped /\ ~halfway => AllReady

\* And, as the comment has it, whenever they come one after the other.
OkAfterStops == ~overlapped => AllReady

\* No program of the toolchain has bytes that were not those of the pinned archive
\* ("Refusing to unpack it"), however often a fetch is broken off, anywhere, and tried
\* again.
VerifiedOnly == ~overlapped => \A t \in Tools : file[t].bytes = "pinned"

\* A build ends, whatever the other builds do to the files it works on.
BuildsEnd == \A b \in Builds : Running(b) ~> ~Running(b)

==============================================================================
