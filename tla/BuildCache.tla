------------------------------ MODULE BuildCache -----------------------------
(***************************************************************************)
(* crates/cosmo-build/src/cache.rs (materialize) and inject.rs (build):    *)
(* what a build makes once per cache and shares with every other build of  *)
(* the user, without a lock.  Four artifacts are made beside their place   *)
(* under a name with the process id and renamed into it; the target spec   *)
(* is rewritten in place.  Builds overlap, fail and are killed.            *)
(***************************************************************************)
EXTENDS Naturals

CONSTANTS
  Builds,     \* build scripts, each with a process id of its own
  Serial,     \* TRUE when the user runs one build at a time
  Hosts,      \* the systems a build may run on
  Deaths,     \* TRUE when builds may be killed
  Failures,   \* TRUE when the tools a build runs may fail
  Deletions,  \* TRUE when somebody deletes from the cache between builds
  Damage,     \* TRUE when that may be one file of a directory
  MaxRuns     \* how many times each build is run

ASSUME SwitchesAssumption == {Serial, Deaths, Failures, Deletions, Damage} \subseteq BOOLEAN
ASSUME HostsAssumption == Hosts \subseteq {"unix", "windows"}
ASSUME RunsAssumption == MaxRuns \in Nat

VARIABLES
  host,    \* the system, which never changes
  final,   \* final[a]: what is at the artifact's place
  temp,    \* temp[b][a]: what is at the name with b's process id
  spec,    \* the target spec's file
  pc,      \* the artifact each build is at, or where it ended
  phase,   \* "look", "make", "finish" or "publish"
  runs,    \* how many runs of it have begun
  alone    \* history: the builds that no other build has run beside

vars == <<host, final, temp, spec, pc, phase, runs, alone>>

-------------------------------------------------------------------------------

Files == {"libcosmo", "object"}
Dirs == {"tools", "source"}
Artifacts == Files \union Dirs

\* Not there, half made, made, or made and then damaged by a deletion.
Content == {"absent", "partial", "whole", "damaged"}

\* A build that read what is not whole has gone "astray": what it or a tool of it makes of
\* that is an error, or an object in a directory nobody else uses.  A build that could not
\* rename what it made has "lost"; one with "err" had a tool that failed.
Stopped == {"idle", "done", "err", "lost", "dead", "astray"}
Running(b) == pc[b] \notin Stopped

\* is_file and is_dir say that something is there, not that all of it is.
There(a) == final[a] # "absent"

\* A link reads libcosmo and the object while cargo runs.
InUse(a) == a \in Files /\ \E b \in Builds : pc[b] = "link"

Goto(b, l, p) ==
  /\ pc' = [pc EXCEPT ![b] = l]
  /\ phase' = [phase EXCEPT ![b] = p]

Init ==
  /\ host \in Hosts
  /\ final = [a \in Artifacts |-> "absent"]
  /\ temp = [b \in Builds |-> [a \in Artifacts |-> "absent"]]
  /\ spec = "absent"
  /\ pc = [b \in Builds |-> "idle"]
  /\ phase = [b \in Builds |-> "look"]
  /\ runs = [b \in Builds |-> 0]
  /\ alone = {}

\* driver::build begins; a later run may get a process id that was used before.
Begin(b) ==
  /\ ~Running(b)
  /\ runs[b] < MaxRuns
  /\ Serial => \A o \in Builds : ~Running(o)
  /\ runs' = [runs EXCEPT ![b] = @ + 1]
  /\ Goto(b, "libcosmo", "look")
  /\ LET others == {o \in Builds : Running(o)}
     IN  alone' = IF others = {} THEN alone \union {b} ELSE alone \ (others \union {b})
  /\ UNCHANGED <<final, temp, spec>>

\* What a build goes on to once it has artifact a.
Next1(b, a) ==
  CASE a = "libcosmo" -> Goto(b, "tools", "look")
    [] a = "tools" -> Goto(b, "spec", "look")
    [] a = "source" -> Goto(b, "object", "make")
    [] a = "object" -> Goto(b, "link", "look")

\* Mutant: the drivers are made in the directory itself.
LookInPlace(b, a) ==
  /\ pc[b] = a
  /\ phase[b] = "look"
  /\ IF There(a)
     THEN Next1(b, a) /\ UNCHANGED <<temp, final>>
     ELSE /\ IF a = "object" THEN Goto(b, "source", "look") ELSE Goto(b, a, "make")
          /\ final' = IF a = "tools" THEN [final EXCEPT ![a] = "partial"] ELSE final
          /\ UNCHANGED temp
  /\ UNCHANGED <<spec, runs>>

\* Something at the artifact's place ends the matter; else it is to be made.  The
\* sources are only looked for when there is no object.
Look(b, a) ==
  /\ pc[b] = a
  /\ phase[b] = "look"
  /\ IF There(a) THEN Next1(b, a)
     ELSE IF a = "object" THEN Goto(b, "source", "look")
     ELSE Goto(b, a, "make")
  /\ UNCHANGED <<final, temp, spec, runs>>

\* The first write under the temporary name: the drivers' directory is emptied, a
\* file is truncated, the sources are written over whatever a dead build left.
Make(b, a) ==
  /\ pc[b] = a
  /\ phase[b] = "make"
  /\ temp' = [temp EXCEPT ![b][a] = "partial"]
  /\ Goto(b, a, "finish")
  /\ UNCHANGED <<final, spec, runs>>

\* Mutant: a tool that failed is not noticed.
FinishUnchecked(b, a) ==
  /\ pc[b] = a
  /\ phase[b] = "finish"
  /\ \/ temp' = [temp EXCEPT ![b][a] = "whole"]
     \/ Failures /\ UNCHANGED temp
  /\ Goto(b, a, "publish")
  /\ UNCHANGED <<final, spec, runs>>

\* The object is made of the sources, for the target spec; the other artifacts are made of
\* files no build changes.
HasInputs(a) == a = "object" => final["source"] = "whole" /\ spec = "whole"

\* objcopy, rustc, cargo, ld have written the rest, or one of them failed; only
\* inject.rs removes what it leaves behind.
Finish(b, a) ==
  /\ pc[b] = a
  /\ phase[b] = "finish"
  /\ \/ /\ HasInputs(a)
        /\ temp' = [temp EXCEPT ![b][a] = "whole"]
        /\ Goto(b, a, "publish")
     \/ /\ Failures \/ ~HasInputs(a)
        /\ temp' = [temp EXCEPT ![b][a] = IF a = "object" THEN "absent" ELSE @]
        /\ Goto(b, IF HasInputs(a) THEN "err" ELSE "astray", "look")
  /\ UNCHANGED <<final, spec, runs>>

\* rename replaces a file, and never a directory; on Windows no file in use either.
RenameFails(a) == There(a) /\ (a \in Dirs \/ (host = "windows" /\ InUse(a)))

\* The rename.  Losing a race is success where the result is there, except for the
\* object, whose failed rename is an error.
Publish(b, a) ==
  /\ pc[b] = a
  /\ phase[b] = "publish"
  /\ temp' = [temp EXCEPT ![b][a] = "absent"]
  /\ \/ /\ ~RenameFails(a)
        /\ final' = [final EXCEPT ![a] = temp[b][a]]
        /\ Next1(b, a)
     \/ /\ RenameFails(a) /\ a # "object"
        /\ Next1(b, a)
        /\ UNCHANGED final
     \/ /\ RenameFails(a) /\ a = "object"
        /\ Goto(b, "lost", "look")
        /\ UNCHANGED final
  /\ UNCHANGED <<spec, runs>>

\* Mutant: a spec that is there will do.
CompareSpecThere(b) ==
  /\ pc[b] = "spec"
  /\ phase[b] = "look"
  /\ IF spec # "absent" THEN Goto(b, "read", "look") ELSE Goto(b, "spec", "make")
  /\ UNCHANGED <<final, temp, spec, runs>>

\* read_to_string: the spec is rewritten when it does not say what it should.
CompareSpec(b) ==
  /\ pc[b] = "spec"
  /\ phase[b] = "look"
  /\ IF spec = "whole" THEN Goto(b, "read", "look") ELSE Goto(b, "spec", "make")
  /\ UNCHANGED <<final, temp, spec, runs>>

\* fs::write truncates the file, then writes it.
TruncateSpec(b) ==
  /\ pc[b] = "spec"
  /\ phase[b] = "make"
  /\ spec' = "partial"
  /\ Goto(b, "spec", "finish")
  /\ UNCHANGED <<final, temp, runs>>

WriteSpec(b) ==
  /\ pc[b] = "spec"
  /\ phase[b] = "finish"
  /\ spec' = "whole"
  /\ Goto(b, "read", "look")
  /\ UNCHANGED <<final, temp, runs>>

\* inject::build reads the spec for its key before it looks for the object.
ReadSpec(b) ==
  /\ pc[b] = "read"
  /\ Goto(b, IF spec = "whole" THEN "object" ELSE "astray", "look")
  /\ UNCHANGED <<final, temp, spec, runs>>

\* The inner cargo reads the spec again and links with what was made, or it fails.
Link(b) ==
  /\ pc[b] = "link"
  /\ \/ spec = "whole" /\ Goto(b, "done", "look")
     \/ spec # "whole" /\ Goto(b, "astray", "look")
     \/ Failures /\ spec = "whole" /\ Goto(b, "err", "look")
  /\ UNCHANGED <<final, temp, spec, runs>>

\* The build is killed: its temporary files stay.
Die(b) ==
  /\ Deaths
  /\ Running(b)
  /\ Goto(b, "dead", "look")
  /\ UNCHANGED <<final, temp, spec, runs>>

\* Somebody removes a file, a directory or part of one, while nothing is built.
Delete(a) ==
  /\ Deletions
  /\ \A b \in Builds : ~Running(b)
  /\ There(a)
  /\ \E left \in {"absent"} \union (IF Damage /\ a \in Dirs THEN {"damaged"} ELSE {}) :
       final' = [final EXCEPT ![a] = left]
  /\ pc' = [b \in Builds |-> "idle"]
  /\ UNCHANGED <<temp, spec, phase, runs, alone>>

Step(b) ==
  \/ \E a \in Artifacts : Look(b, a) \/ Make(b, a) \/ Finish(b, a) \/ Publish(b, a)
  \/ CompareSpec(b) \/ TruncateSpec(b) \/ WriteSpec(b)
  \/ ReadSpec(b) \/ Link(b)

\* Every run allowed has been used.
Exhausted ==
  /\ \A b \in Builds : ~Running(b) /\ runs[b] = MaxRuns
  /\ UNCHANGED vars

Next ==
  \/ /\ \/ \E b \in Builds : Begin(b)
        \/ \E b \in Builds : (Step(b) \/ Die(b)) /\ UNCHANGED alone
        \/ \E a \in Artifacts : Delete(a)
     /\ UNCHANGED host
  \/ Exhausted

Spec == Init /\ [][Next]_vars

-------------------------------------------------------------------------------

\* Every file is in a state the code can leave it in, a build makes only an artifact it
\* is at, and what it is about to rename is finished.
TypeOK ==
  /\ host \in Hosts
  /\ final \in [Artifacts -> Content]
  /\ temp \in [Builds -> [Artifacts -> Content]]
  /\ spec \in Content
  /\ pc \in [Builds -> Artifacts \union Stopped \union {"spec", "read", "link"}]
  /\ phase \in [Builds -> {"look", "make", "finish", "publish"}]
  /\ \A b \in Builds : phase[b] # "look" => pc[b] \in Artifacts \union {"spec"}
  /\ \A b \in Builds, a \in Artifacts :
       pc[b] = a /\ phase[b] = "publish" => temp[b][a] = "whole"
  /\ runs \in [Builds -> 0..MaxRuns] /\ alone \subseteq Builds

\* What is at an artifact's place is whole, whichever builds race for it and however
\* they end ("a build that dies half way never leaves a directory that looks finished").
PublishedWhole == \A a \in Artifacts : final[a] # "partial"

\* A build that is past an artifact has it whole, and nobody takes it away again: the
\* shared cache never changes under a build that links with it.
GlueIsWhole ==
  \A b \in Builds :
    /\ pc[b] \in {"spec", "read", "source", "object", "link", "done"} =>
         final["libcosmo"] = "whole" /\ final["tools"] = "whole"
    /\ pc[b] \in {"link", "done"} => final["object"] = "whole"

\* A build that no other runs beside fails only by a tool of its own, whatever builds that
\* were killed or failed, and deletions between builds, have left in the cache: a spec whose
\* rewriting broke off (cache.rs:91-93 compares it) and directories half made under a process
\* id that is used again are made good, not taken or stumbled over (cache.rs:156-159,
\* inject.rs:38-47).
LeftoversFailNobody == \A b \in alone : pc[b] \notin {"astray", "lost"}

\* What a link reads; what a build has come to at a place, and what it counts on there.
Needed == {"libcosmo", "tools", "object"}

StateAt(l) ==
  CASE l \notin Stopped -> "building"
    [] l \in {"idle", "done"} -> l
    [] OTHER -> "failed"

ReliesAt(l) ==
  CASE l = "tools" -> {"libcosmo"}
    [] l \in {"spec", "read", "source", "object"} -> {"libcosmo", "tools"}
    [] l \in {"link", "done"} -> Needed
    [] OTHER -> {}

State == [b \in Builds |-> StateAt(pc[b])]
Relies == [b \in Builds |-> ReliesAt(pc[b])]

Shared == INSTANCE SharedCache WITH place <- final, state <- State, relies <- Relies

\* To the builds that share it the cache only grows, an artifact at a time and each in one
\* instant, whoever makes it beside its place, dies at that, or finds it there already
\* (cache.rs:156-157, "renamed into it whole, so a build that dies half way never leaves a
\* directory that looks finished").
ImplementsSharedCache == Shared!Spec

==============================================================================
