--------------------------- MODULE BuildCacheProofs --------------------------
(***************************************************************************)
(* What a build finds in the shared cache is whole, and what others left   *)
(* there fails no build that has it to itself, for any builds that overlap, *)
(* fail and are killed, as long as nobody deletes part of a directory.     *)
(***************************************************************************)
EXTENDS BuildCache, TLAPS

\* A build that has come to the drivers has its libcosmo.
PastLibcosmo == \A b \in Builds : pc[b] = "tools" => final["libcosmo"] = "whole"

\* Without deletions of single files an artifact is there whole or not at all.
AllOrNothing == \A a \in Artifacts : final[a] \in {"absent", "whole"}

CacheInv == TypeOK /\ AllOrNothing /\ GlueIsWhole /\ PastLibcosmo

\* No artifact that was whole is touched.
Kept == \A a \in Artifacts : final[a] = "whole" => final'[a] = "whole"

\* In a cache without half-made artifacts, what is there is whole.
LEMMA ThereIsWhole ==
  ASSUME AllOrNothing, NEW a \in Artifacts, There(a)
  PROVE  final[a] = "whole"
BY DEF AllOrNothing, There

\* A build that goes to a place needs the artifacts it is past there; the other builds
\* keep what they needed.
LEMMA OthersKeepGlue ==
  ASSUME CacheInv, Kept, NEW b \in Builds, NEW l, pc' = [pc EXCEPT ![b] = l],
         l \in {"tools", "spec", "read", "source", "object", "link", "done"} =>
           final'["libcosmo"] = "whole",
         l \in {"spec", "read", "source", "object", "link", "done"} =>
           final'["tools"] = "whole",
         l \in {"link", "done"} => final'["object"] = "whole"
  PROVE  GlueIsWhole' /\ PastLibcosmo'
<1>1. \A o \in Builds : pc'[o] = IF o = b THEN l ELSE pc[o]
  BY DEF CacheInv, TypeOK
<1>2. {"libcosmo", "tools", "object"} \subseteq Artifacts
  BY DEF Artifacts, Files, Dirs
<1>3. GlueIsWhole'
  BY <1>1, <1>2 DEF CacheInv, GlueIsWhole, Kept
<1>4. PastLibcosmo'
  BY <1>1, <1>2 DEF CacheInv, PastLibcosmo, Kept
<1> QED BY <1>3, <1>4

\* A build that goes on from an artifact that is whole now.
LEMMA NextOne ==
  ASSUME CacheInv, Kept, AllOrNothing', NEW b \in Builds, NEW a \in Artifacts,
         pc[b] = a, final'[a] = "whole", Next1(b, a)
  PROVE  /\ GlueIsWhole' /\ PastLibcosmo'
         /\ \E l \in {"tools", "spec", "object", "link"}, p \in {"look", "make"} :
              /\ Goto(b, l, p)
              /\ p = "make" => l = "object"
<1>1. PICK l \in {"tools", "spec", "object", "link"}, p \in {"look", "make"} :
        /\ Goto(b, l, p)
        /\ p = "make" => l = "object"
        /\ l = "tools" => a = "libcosmo"
        /\ l = "spec" => a = "tools"
        /\ l = "object" => a = "source"
        /\ l = "link" => a = "object"
  BY DEF Next1, Artifacts, Files, Dirs
<1>2. {"libcosmo", "tools", "object"} \subseteq Artifacts
  BY DEF Artifacts, Files, Dirs
<1>3. /\ pc[b] \in {"tools", "source", "object"} => final["libcosmo"] = "whole"
      /\ pc[b] \in {"source", "object"} => final["tools"] = "whole"
  BY DEF CacheInv, GlueIsWhole, PastLibcosmo
<1>4. /\ l \in {"tools", "spec", "read", "source", "object", "link", "done"} =>
           final'["libcosmo"] = "whole"
      /\ l \in {"spec", "read", "source", "object", "link", "done"} =>
           final'["tools"] = "whole"
      /\ l \in {"link", "done"} => final'["object"] = "whole"
  BY <1>1, <1>2, <1>3 DEF Kept
<1>5. pc' = [pc EXCEPT ![b] = l]
  BY <1>1 DEF Goto
<1>6. GlueIsWhole' /\ PastLibcosmo'
  BY <1>4, <1>5, OthersKeepGlue
<1> QED BY <1>1, <1>6

\* A step of a build that stays where it is, or stops, disturbs nothing.
LEMMA StayOrStop ==
  ASSUME CacheInv, Kept, AllOrNothing', NEW b \in Builds, NEW l,
         pc' = [pc EXCEPT ![b] = l],
         l \in {pc[b], "idle", "err", "lost", "dead", "astray", "libcosmo"}
  PROVE  GlueIsWhole' /\ PastLibcosmo'
<1>1. {"libcosmo", "tools", "object"} \subseteq Artifacts
  BY DEF Artifacts, Files, Dirs
<1>2. /\ pc[b] \in {"tools", "spec", "read", "source", "object", "link", "done"} =>
           final["libcosmo"] = "whole"
      /\ pc[b] \in {"spec", "read", "source", "object", "link", "done"} =>
           final["tools"] = "whole"
      /\ pc[b] \in {"link", "done"} => final["object"] = "whole"
  BY DEF CacheInv, GlueIsWhole, PastLibcosmo
<1> QED
  BY <1>1, <1>2, OthersKeepGlue DEF Kept

\* When the artifacts are left alone they stay whole.
LEMMA FinalSame ==
  ASSUME AllOrNothing, final' = final
  PROVE  AllOrNothing' /\ Kept
BY DEF AllOrNothing, Kept

LEMMA BeginStep ==
  ASSUME CacheInv, NEW b \in Builds, Begin(b),
         host' = host
  PROVE  CacheInv'
<1>1. TypeOK'
  BY RunsAssumption DEF CacheInv, TypeOK, Begin, Goto, Artifacts, Files, Dirs, Stopped
<1>2. AllOrNothing' /\ Kept
  BY FinalSame DEF CacheInv, Begin
<1>3. GlueIsWhole' /\ PastLibcosmo'
  BY <1>2, StayOrStop DEF Begin, Goto
<1> QED BY <1>1, <1>2, <1>3 DEF CacheInv

LEMMA LookStep ==
  ASSUME CacheInv, NEW b \in Builds, NEW a \in Artifacts, Look(b, a),
         host' = host, alone' = alone
  PROVE  CacheInv'
<1>1. AllOrNothing' /\ Kept
  BY FinalSame DEF CacheInv, Look
<1>2. CASE There(a)
  <2>1. final'[a] = "whole"
    BY <1>2, ThereIsWhole DEF CacheInv, Look
  <2>2. Next1(b, a) /\ pc[b] = a
    BY <1>2 DEF Look
  <2>3. PICK l \in {"tools", "spec", "object", "link"}, p \in {"look", "make"} :
          Goto(b, l, p) /\ (p = "make" => l = "object")
    BY <1>1, <2>1, <2>2, NextOne
  <2>4. TypeOK'
    BY <2>3 DEF CacheInv, TypeOK, Look, Goto, Artifacts, Files, Dirs
  <2> QED BY <1>1, <2>1, <2>2, <2>4, NextOne DEF CacheInv
<1>3. CASE ~There(a)
  <2>1. PICK l \in {"source", a}, p \in {"look", "make"} :
          Goto(b, l, p) /\ (l = "source" => a \in {"object", "source"})
    BY <1>3 DEF Look
  <2>2. TypeOK'
    BY <2>1 DEF CacheInv, TypeOK, Look, Goto, Artifacts, Files, Dirs
  <2>3. pc[b] = a /\ pc' = [pc EXCEPT ![b] = l] /\ final' = final
    BY <2>1 DEF Look, Goto
  <2>4. CASE l = a
    BY <1>1, <2>2, <2>3, <2>4, StayOrStop DEF CacheInv
  <2>5. CASE l = "source" /\ a = "object"
    <3>1. final["libcosmo"] = "whole" /\ final["tools"] = "whole"
      BY <2>3, <2>5 DEF CacheInv, GlueIsWhole
    <3>2. GlueIsWhole' /\ PastLibcosmo'
      BY <1>1, <2>3, <2>5, <3>1, OthersKeepGlue
    <3> QED BY <1>1, <2>2, <3>2 DEF CacheInv
  <2> QED BY <2>1, <2>4, <2>5
<1> QED BY <1>2, <1>3

LEMMA MakeStep ==
  ASSUME CacheInv, NEW b \in Builds, NEW a \in Artifacts, Make(b, a),
         host' = host, alone' = alone
  PROVE  CacheInv'
<1>1. TypeOK'
  BY DEF CacheInv, TypeOK, Make, Goto, Artifacts, Files, Dirs, Content
<1>2. AllOrNothing' /\ Kept
  BY FinalSame DEF CacheInv, Make
<1>3. GlueIsWhole' /\ PastLibcosmo'
  BY <1>2, StayOrStop DEF Make, Goto
<1> QED BY <1>1, <1>2, <1>3 DEF CacheInv

LEMMA FinishStep ==
  ASSUME CacheInv, NEW b \in Builds, NEW a \in Artifacts, Finish(b, a),
         host' = host, alone' = alone
  PROVE  CacheInv'
<1>1. PICK l \in {a, "err", "astray"}, p \in {"publish", "look"} :
        /\ Goto(b, l, p)
        /\ l \in {"err", "astray"} => p = "look"
        /\ p = "publish" => temp' = [temp EXCEPT ![b][a] = "whole"]
  <2>1. CASE Goto(b, a, "publish") /\ temp' = [temp EXCEPT ![b][a] = "whole"]
    <3> a # "err" /\ a # "astray"
      BY DEF Artifacts, Files, Dirs
    <3> QED BY <2>1
  <2>2. CASE Goto(b, "err", "look") \/ Goto(b, "astray", "look")
    BY <2>2
  <2> QED BY <2>1, <2>2 DEF Finish
<1>2. PICK c \in Content : temp' = [temp EXCEPT ![b][a] = c]
  BY DEF Finish, Content, CacheInv, TypeOK
<1>3. TypeOK'
  BY <1>1, <1>2 DEF CacheInv, TypeOK, Finish, Goto, Artifacts, Files, Dirs, Stopped, Content
<1>4. AllOrNothing' /\ Kept
  BY FinalSame DEF CacheInv, Finish
<1>5. GlueIsWhole' /\ PastLibcosmo'
  BY <1>1, <1>4, StayOrStop DEF Finish, Goto
<1> QED BY <1>3, <1>4, <1>5 DEF CacheInv

\* What is renamed is whole, so the artifact is whole whether the rename succeeds,
\* loses its race, or fails.
LEMMA PublishStep ==
  ASSUME CacheInv, NEW b \in Builds, NEW a \in Artifacts, Publish(b, a),
         host' = host, alone' = alone
  PROVE  CacheInv'
<1>1. pc[b] = a /\ phase[b] = "publish" /\ temp[b][a] = "whole"
  BY DEF CacheInv, TypeOK, Publish
<1>2. final' \in [Artifacts -> Content] /\ AllOrNothing' /\ Kept /\ final'[a] = "whole"
  <2>1. CASE final' = [final EXCEPT ![a] = temp[b][a]]
    BY <1>1, <2>1 DEF CacheInv, TypeOK, AllOrNothing, Kept, Content
  <2>2. CASE RenameFails(a) /\ final' = final
    BY <2>2, ThereIsWhole, FinalSame DEF CacheInv, TypeOK, RenameFails
  <2> QED BY <2>1, <2>2 DEF Publish
<1>3. PICK l \in {"tools", "spec", "object", "link", "lost"}, p \in {"look", "make"} :
        Goto(b, l, p) /\ (p = "make" => l = "object")
  BY <1>1, <1>2, NextOne DEF Publish
<1>4. GlueIsWhole' /\ PastLibcosmo'
  <2>1. CASE Next1(b, a)
    BY <1>1, <1>2, <2>1, NextOne
  <2>2. CASE Goto(b, "lost", "look")
    BY <1>2, <2>2, StayOrStop DEF Goto
  <2> QED BY <2>1, <2>2 DEF Publish
<1>5. TypeOK'
  BY <1>2, <1>3 DEF CacheInv, TypeOK, Publish, Goto, Artifacts, Files, Dirs, Stopped, Content
<1> QED BY <1>2, <1>4, <1>5 DEF CacheInv

\* The target spec, the link and the end of a build.
LEMMA OtherStep ==
  ASSUME CacheInv, NEW b \in Builds,
         CompareSpec(b) \/ TruncateSpec(b) \/ WriteSpec(b) \/ ReadSpec(b) \/ Link(b) \/ Die(b),
         host' = host, alone' = alone
  PROVE  CacheInv'
<1>1. PICK l, p :
        /\ Goto(b, l, p)
        /\ l \in {"spec", "read", "object", "done", "astray", "dead", "err"}
        /\ p \in {"look", "make", "finish"}
        /\ p # "look" => l = "spec"
        /\ l \in {"spec", "read"} => pc[b] = "spec"
        /\ l = "object" => pc[b] = "read"
        /\ l = "done" => pc[b] = "link"
  BY DEF CompareSpec, TruncateSpec, WriteSpec, ReadSpec, Link, Die
<1>2. final' = final /\ temp' = temp /\ runs' = runs /\ spec' \in Content
  BY DEF CompareSpec, TruncateSpec, WriteSpec, ReadSpec, Link, Die, CacheInv, TypeOK, Content
<1>3. TypeOK'
  BY <1>1, <1>2 DEF CacheInv, TypeOK, Goto, Artifacts, Files, Dirs, Stopped
<1>4. AllOrNothing' /\ Kept
  BY <1>2, FinalSame DEF CacheInv
<1>5. /\ pc[b] \in {"spec", "read", "link"} =>
           final["libcosmo"] = "whole" /\ final["tools"] = "whole"
      /\ pc[b] = "link" => final["object"] = "whole"
  BY DEF CacheInv, GlueIsWhole
<1>6. pc' = [pc EXCEPT ![b] = l]
  BY <1>1 DEF Goto
<1>7. GlueIsWhole' /\ PastLibcosmo'
  BY <1>1, <1>2, <1>4, <1>5, <1>6, OthersKeepGlue
<1> QED BY <1>3, <1>4, <1>7 DEF CacheInv

\* Something is removed while nothing is built: nobody has gone past it.
LEMMA DeleteStep ==
  ASSUME CacheInv, ~Damage, NEW a \in Artifacts, Delete(a), host' = host
  PROVE  CacheInv'
<1>1. final' = [final EXCEPT ![a] = "absent"]
  BY DEF Delete
<1>2. \A b \in Builds : pc'[b] = "idle" /\ phase[b] = "look"
  <2>1. \A b \in Builds : pc[b] \in Stopped /\ pc'[b] = "idle"
    BY DEF Delete, Running
  <2>2. \A b \in Builds : pc[b] \notin Artifacts \union {"spec"}
    BY <2>1 DEF Stopped, Artifacts, Files, Dirs
  <2> QED BY <2>1, <2>2 DEF CacheInv, TypeOK
<1>3. TypeOK'
  BY <1>1, <1>2 DEF CacheInv, TypeOK, Delete, Content, Stopped
<1>4. AllOrNothing'
  BY <1>1 DEF CacheInv, TypeOK, AllOrNothing
<1>5. GlueIsWhole' /\ PastLibcosmo'
  BY <1>2 DEF GlueIsWhole, PastLibcosmo
<1> QED BY <1>3, <1>4, <1>5 DEF CacheInv

-------------------------------------------------------------------------------

\* When nobody deletes part of a directory, builds in any number that overlap, fail and
\* are killed keep to the states of the machine, and every artifact in its place is whole.
LEMMA CacheInvariant ==
  ASSUME ~Damage
  PROVE  Spec => []CacheInv
<1>1. Init => CacheInv
  <2> SUFFICES ASSUME Init PROVE CacheInv
    OBVIOUS
  <2>1. TypeOK
    BY RunsAssumption DEF Init, TypeOK, Content, Stopped
  <2> QED BY <2>1 DEF CacheInv, Init, AllOrNothing, GlueIsWhole, PastLibcosmo
<1>2. CacheInv /\ [Next]_vars => CacheInv'
  <2> SUFFICES ASSUME CacheInv, [Next]_vars PROVE CacheInv'
    OBVIOUS
  <2>1. CASE UNCHANGED vars
    BY <2>1 DEF vars, CacheInv, TypeOK, AllOrNothing, GlueIsWhole, PastLibcosmo
  <2>2. ASSUME NEW b \in Builds, Step(b) \/ Die(b), host' = host, alone' = alone
        PROVE  CacheInv'
    BY <2>2, LookStep, MakeStep, FinishStep, PublishStep, OtherStep DEF Step
  <2> QED
    BY <2>1, <2>2, BeginStep, DeleteStep DEF Next, Exhausted
<1> QED
  BY <1>1, <1>2, PTL DEF Spec

\* The builds and the artifacts are in states the code can put them in.
THEOREM CacheTypeCorrect == ~Damage => (Spec => []TypeOK)
<1> SUFFICES ASSUME ~Damage PROVE Spec => []TypeOK
  OBVIOUS
<1>1. CacheInv => TypeOK
  BY DEF CacheInv
<1> QED BY <1>1, CacheInvariant, PTL

\* Nothing that looks finished in the cache (cache.rs, drivers, settle; inject.rs, build)
\* is half made, whichever builds race for it and however they end.
THEOREM PublishedWholeHolds == ~Damage => (Spec => []PublishedWhole)
<1> SUFFICES ASSUME ~Damage PROVE Spec => []PublishedWhole
  OBVIOUS
<1>1. CacheInv => PublishedWhole
  BY DEF CacheInv, AllOrNothing, PublishedWhole
<1> QED BY <1>1, CacheInvariant, PTL

\* What a build has gone past (materialize, inject::build) stays whole while it links.
THEOREM GlueIsWholeHolds == ~Damage => (Spec => []GlueIsWhole)
<1> SUFFICES ASSUME ~Damage PROVE Spec => []GlueIsWhole
  OBVIOUS
<1>1. CacheInv => GlueIsWhole
  BY DEF CacheInv
<1> QED BY <1>1, CacheInvariant, PTL

-------------------------------------------------------------------------------
(* What is left in the cache fails no build that has it to itself.            *)

\* No other build runs while one runs of which that is said.
ByItself ==
  \A b \in alone : Running(b) => \A o \in Builds : Running(o) => o = b

\* Such a build has put the spec right once it reads it.
SpecIsRight ==
  \A b \in alone : pc[b] \in {"read", "source", "object", "link"} => spec = "whole"

\* Whoever makes an object has its sources.
SourcesThere ==
  \A b \in Builds : pc[b] = "object" /\ phase[b] # "look" => final["source"] = "whole"

AloneInv == ByItself /\ SpecIsRight /\ SourcesThere /\ LeftoversFailNobody

\* A running build goes to a place.
LEMMA AloneGoes ==
  ASSUME CacheInv, AloneInv, Kept, NEW b \in Builds, Running(b), alone' = alone,
         NEW l, NEW p, Goto(b, l, p),
         b \in alone /\ l \in {"read", "source", "object", "link"} => spec' = "whole",
         l = "object" /\ p # "look" => final'["source"] = "whole",
         b \in alone => l \notin {"astray", "lost"}
  PROVE  AloneInv'
<1>1. \A o \in Builds : /\ pc'[o] = IF o = b THEN l ELSE pc[o]
                        /\ phase'[o] = IF o = b THEN p ELSE phase[o]
  BY DEF Goto, CacheInv, TypeOK
<1>2. alone \subseteq Builds /\ "source" \in Artifacts
  BY DEF CacheInv, TypeOK, Artifacts, Dirs
<1>3. \A o \in Builds : o # b => Running(o)' = Running(o)
  BY <1>1 DEF Running
<1>4. \A o \in alone : Running(o) => o = b
  BY <1>2 DEF AloneInv, ByItself
<1>5. ByItself'
  BY <1>2, <1>3, <1>4 DEF AloneInv, ByItself
<1>6. SpecIsRight'
  BY <1>1, <1>2, <1>4 DEF SpecIsRight, Running, Stopped
<1>7. SourcesThere'
  BY <1>1, <1>2 DEF AloneInv, SourcesThere, Kept
<1>8. LeftoversFailNobody'
  BY <1>1, <1>2 DEF AloneInv, LeftoversFailNobody
<1> QED
  BY <1>5, <1>6, <1>7, <1>8 DEF AloneInv

\* From one artifact to the next.
LEMMA AloneNext1 ==
  ASSUME CacheInv, AloneInv, Kept, NEW b \in Builds, NEW a \in Artifacts, pc[b] = a,
         Next1(b, a), alone' = alone, spec' = spec, a = "source" => final'[a] = "whole"
  PROVE  AloneInv'
<1>1. PICK l \in {"tools", "spec", "object", "link"}, p \in {"look", "make"} :
        /\ Goto(b, l, p)
        /\ l = "object" => a = "source"
        /\ l = "link" => a = "object"
  BY DEF Next1, Artifacts, Files, Dirs
<1>2. Running(b)
  BY DEF Running, Stopped, Artifacts, Files, Dirs
<1>3. b \in alone /\ l \in {"object", "link"} => spec' = "whole"
  BY <1>1 DEF AloneInv, SpecIsRight
<1> QED
  BY <1>1, <1>2, <1>3, AloneGoes

\* The object of a build that has the cache to itself is in use nowhere.
LEMMA ObjectIsFree ==
  ASSUME CacheInv, AloneInv, NEW b \in alone, pc[b] = "object"
  PROVE  ~RenameFails("object")
<1>1. b \in Builds /\ Running(b)
  BY DEF CacheInv, TypeOK, Running, Stopped
<1>2. \A o \in Builds : pc[o] # "link"
  BY <1>1 DEF AloneInv, ByItself, Running, Stopped
<1> QED
  BY <1>2 DEF RenameFails, InUse, Dirs

\* A step of a build, or its death.
LEMMA AloneStep ==
  ASSUME CacheInv, CacheInv', AloneInv, NEW b \in Builds, Step(b) \/ Die(b), alone' = alone
  PROVE  AloneInv'
<1>1. ASSUME NEW a \in Artifacts, Look(b, a) PROVE AloneInv'
  <2>1. Kept /\ pc[b] = a /\ spec' = spec /\ final' = final
    BY <1>1, FinalSame DEF CacheInv, Look
  <2>2. CASE There(a)
    <3>1. final'[a] = "whole"
      BY <2>1, <2>2, ThereIsWhole DEF CacheInv
    <3> QED
      BY <1>1, <2>1, <2>2, <3>1, AloneNext1 DEF Look
  <2>3. CASE ~There(a)
    <3>1. PICK l \in {"source", a}, p \in {"look", "make"} :
            /\ Goto(b, l, p)
            /\ l = "source" => a \in {"object", "source"}
            /\ l = "object" => p = "look"
      BY <1>1, <2>3 DEF Look
    <3>2. Running(b) /\ l \notin {"read", "link", "astray", "lost"}
      BY <2>1, <3>1 DEF Running, Stopped, Artifacts, Files, Dirs
    <3>3. b \in alone /\ l \in {"source", "object"} => spec' = "whole"
      BY <2>1, <3>1 DEF AloneInv, SpecIsRight
    <3> QED
      BY <2>1, <3>1, <3>2, <3>3, AloneGoes
  <2> QED
    BY <2>2, <2>3
<1>2. ASSUME NEW a \in Artifacts, Make(b, a) PROVE AloneInv'
  <2>1. Kept /\ pc[b] = a /\ phase[b] = "make" /\ spec' = spec /\ final' = final
    BY <1>2, FinalSame DEF CacheInv, Make
  <2>2. Running(b) /\ a \notin {"read", "link", "astray", "lost"}
    BY <2>1 DEF Running, Stopped, Artifacts, Files, Dirs
  <2>3. b \in alone /\ a \in {"source", "object"} => spec' = "whole"
    BY <2>1 DEF AloneInv, SpecIsRight
  <2>4. a = "object" => final'["source"] = "whole"
    BY <2>1 DEF AloneInv, SourcesThere
  <2>5. Goto(b, a, "finish")
    BY <1>2 DEF Make
  <2> QED
    BY <2>1, <2>2, <2>3, <2>4, <2>5, AloneGoes
<1>3. ASSUME NEW a \in Artifacts, Finish(b, a) PROVE AloneInv'
  <2>1. Kept /\ pc[b] = a /\ phase[b] = "finish" /\ spec' = spec /\ final' = final
    BY <1>3, FinalSame DEF CacheInv, Finish
  <2>2. Running(b) /\ a \notin {"read", "link", "astray", "lost"}
    BY <2>1 DEF Running, Stopped, Artifacts, Files, Dirs
  <2>3. b \in alone /\ a \in {"source", "object"} => spec' = "whole"
    BY <2>1 DEF AloneInv, SpecIsRight
  <2>4. a = "object" => final'["source"] = "whole"
    BY <2>1 DEF AloneInv, SourcesThere
  <2>5. b \in alone => HasInputs(a)
    BY <2>1, <2>3, <2>4 DEF HasInputs
  <2>6. CASE Goto(b, a, "publish")
    BY <2>1, <2>2, <2>3, <2>4, <2>6, AloneGoes
  <2>7. CASE Goto(b, IF HasInputs(a) THEN "err" ELSE "astray", "look")
    BY <2>1, <2>2, <2>5, <2>7, AloneGoes
  <2> QED
    BY <1>3, <2>6, <2>7 DEF Finish
<1>4. ASSUME NEW a \in Artifacts, Publish(b, a) PROVE AloneInv'
  <2>1. pc[b] = a /\ temp[b][a] = "whole" /\ spec' = spec
    BY <1>4 DEF CacheInv, TypeOK, Publish
  <2>2. Kept /\ (Next1(b, a) => final'[a] = "whole")
    <3>1. CASE final' = [final EXCEPT ![a] = temp[b][a]]
      BY <2>1, <3>1 DEF CacheInv, TypeOK, Kept
    <3>2. CASE RenameFails(a) /\ final' = final
      BY <3>2, ThereIsWhole, FinalSame DEF CacheInv, RenameFails
    <3> QED
      BY <1>4, <3>1, <3>2 DEF Publish
  <2>3. CASE Next1(b, a)
    BY <2>1, <2>2, <2>3, AloneNext1
  <2>4. CASE RenameFails(a) /\ a = "object" /\ Goto(b, "lost", "look")
    <3>1. b \notin alone /\ Running(b)
      BY <2>1, <2>4, ObjectIsFree DEF Running, Stopped
    <3> QED
      BY <2>2, <2>4, <3>1, AloneGoes
  <2> QED
    BY <1>4, <2>3, <2>4 DEF Publish
<1>5. CASE CompareSpec(b) \/ TruncateSpec(b) \/ WriteSpec(b) \/ ReadSpec(b) \/ Link(b) \/ Die(b)
  <2>1. Kept /\ Running(b)
    BY <1>5, FinalSame DEF CacheInv, CompareSpec, TruncateSpec, WriteSpec, ReadSpec, Link, Die,
                           Running, Stopped
  <2>2. PICK l, p :
          /\ Goto(b, l, p)
          /\ l \in {"spec", "read", "object", "done", "astray", "dead", "err"}
          /\ p # "look" => l = "spec"
          /\ l \in {"read", "object"} => spec' = "whole"
          /\ l = "astray" => spec # "whole" /\ pc[b] \in {"read", "link"}
    BY <1>5 DEF CompareSpec, TruncateSpec, WriteSpec, ReadSpec, Link, Die
  <2>3. b \in alone => l # "astray"
    BY <2>2 DEF AloneInv, SpecIsRight
  <2> QED
    BY <2>1, <2>2, <2>3, AloneGoes
<1> QED
  BY <1>1, <1>2, <1>3, <1>4, <1>5 DEF Step

\* A run begins by itself or beside others, which are by themselves no longer.
LEMMA AloneBegin ==
  ASSUME CacheInv, AloneInv, NEW b \in Builds, Begin(b)
  PROVE  AloneInv'
<1> DEFINE others == {o \in Builds : Running(o)}
<1>1. /\ \A o \in Builds : pc'[o] = IF o = b THEN "libcosmo" ELSE pc[o]
      /\ \A o \in Builds : phase'[o] = IF o = b THEN "look" ELSE phase[o]
      /\ final' = final /\ spec' = spec /\ ~Running(b)
      /\ alone' = IF others = {} THEN alone \union {b} ELSE alone \ (others \union {b})
  BY DEF Begin, Goto, CacheInv, TypeOK
<1>2. alone \subseteq Builds /\ alone' \subseteq Builds
  BY <1>1 DEF CacheInv, TypeOK
<1>3. \A o \in Builds : o # b => Running(o)' = Running(o)
  BY <1>1 DEF Running
<1>4. \A o \in alone' : o # b => o \in alone /\ ~Running(o)
  BY <1>1, <1>2
<1>5. ByItself'
  <2>1. CASE others = {}
    BY <1>2, <1>3, <1>4, <2>1 DEF ByItself
  <2>2. CASE others # {}
    BY <1>1, <1>2, <1>3, <1>4, <2>2 DEF ByItself
  <2> QED
    BY <2>1, <2>2
<1>6. SpecIsRight'
  BY <1>1, <1>2, <1>4 DEF AloneInv, SpecIsRight
<1>7. SourcesThere'
  BY <1>1 DEF AloneInv, SourcesThere
<1>8. LeftoversFailNobody'
  BY <1>1, <1>2, <1>4 DEF AloneInv, LeftoversFailNobody
<1> QED
  BY <1>5, <1>6, <1>7, <1>8 DEF AloneInv

\* A build that no other runs beside fails only by its tools: what killed and failed builds
\* left (cache.rs:91-93, 156-159; inject.rs:38-47) is made good.
THEOREM LeftoversFailNobodyHolds == ~Damage => (Spec => []LeftoversFailNobody)
<1> SUFFICES ASSUME ~Damage PROVE Spec => []LeftoversFailNobody
  OBVIOUS
<1>1. Init => AloneInv
  BY DEF Init, AloneInv, ByItself, SpecIsRight, SourcesThere, LeftoversFailNobody
<1>2. CacheInv /\ CacheInv' /\ AloneInv /\ [Next]_vars => AloneInv'
  <2> SUFFICES ASSUME CacheInv, CacheInv', AloneInv, [Next]_vars PROVE AloneInv'
    OBVIOUS
  <2>1. CASE UNCHANGED vars
    BY <2>1 DEF vars, AloneInv, ByItself, SpecIsRight, SourcesThere, LeftoversFailNobody, Running
  <2>2. ASSUME NEW a \in Artifacts, Delete(a) PROVE AloneInv'
    <3>1. \A b \in Builds : pc'[b] = "idle"
      BY <2>2 DEF Delete
    <3>2. alone' \subseteq Builds
      BY DEF CacheInv, TypeOK
    <3> QED
      BY <3>1, <3>2 DEF AloneInv, ByItself, SpecIsRight, SourcesThere, LeftoversFailNobody, Running,
                        Stopped
  <2> QED
    BY <2>1, <2>2, AloneStep, AloneBegin DEF Next, Exhausted
<1>3. AloneInv => LeftoversFailNobody
  BY DEF AloneInv
<1> QED BY <1>1, <1>2, <1>3, CacheInvariant, PTL DEF Spec

-------------------------------------------------------------------------------
(* The cache as the builds that share it see it.                              *)

\* What a build that goes to a place shows of it.
LEMMA ShownAt ==
  ASSUME TypeOK, NEW b \in Builds, NEW l, pc' = [pc EXCEPT ![b] = l]
  PROVE  /\ State' = [State EXCEPT ![b] = StateAt(l)]
         /\ Relies' = [Relies EXCEPT ![b] = ReliesAt(l)]
         /\ State[b] = StateAt(pc[b]) /\ Relies[b] = ReliesAt(pc[b])
<1>1. \A o \in Builds : pc'[o] = IF o = b THEN l ELSE pc[o]
  BY DEF TypeOK
<1>2. \A o \in Builds : StateAt(pc[o])' = StateAt(pc'[o]) /\ ReliesAt(pc[o])' = ReliesAt(pc'[o])
  BY DEF StateAt, ReliesAt
<1>3. State' = [o \in Builds |-> StateAt(pc'[o])] /\ Relies' = [o \in Builds |-> ReliesAt(pc'[o])]
  BY <1>2 DEF State, Relies
<1>4. State' = [o \in Builds |-> IF o = b THEN StateAt(l) ELSE State[o]]
  BY <1>1, <1>3 DEF State
<1>5. Relies' = [o \in Builds |-> IF o = b THEN ReliesAt(l) ELSE Relies[o]]
  BY <1>1, <1>3 DEF Relies
<1>6. State = [o \in Builds |-> State[o]] /\ Relies = [o \in Builds |-> Relies[o]]
  BY DEF State, Relies
<1>7. State[b] = StateAt(pc[b]) /\ Relies[b] = ReliesAt(pc[b])
  BY DEF State, Relies
<1>8. State' = [State EXCEPT ![b] = StateAt(l)]
  BY <1>4, <1>6
<1>9. Relies' = [Relies EXCEPT ![b] = ReliesAt(l)]
  BY <1>5, <1>6
<1> QED
  BY <1>7, <1>8, <1>9

\* A build that goes on from an artifact which is whole now has found it, or put it there.
LEMMA GoesOn ==
  ASSUME TypeOK, NEW b \in Builds, NEW a \in Artifacts, pc[b] = a,
         Next1(b, a), final' = [final EXCEPT ![a] = "whole"]
  PROVE  Shared!Have(b, a)
<1>1. PICK l : /\ pc' = [pc EXCEPT ![b] = l]
               /\ <<a, l>> \in {<<"libcosmo", "tools">>, <<"tools", "spec">>,
                              <<"source", "object">>, <<"object", "link">>}
  <2>1. a \in {"libcosmo", "tools", "source", "object"}
    BY DEF Artifacts, Files, Dirs
  <2>2. CASE a = "libcosmo"
    <3>1. Goto(b, "tools", "look")
      BY <2>2 DEF Next1
    <3>2. pc' = [pc EXCEPT ![b] = "tools"]
      BY <3>1 DEF Goto
    <3> QED
      BY <2>2, <3>2
  <2>3. CASE a = "tools"
    <3>1. Goto(b, "spec", "look")
      BY <2>3 DEF Next1
    <3>2. pc' = [pc EXCEPT ![b] = "spec"]
      BY <3>1 DEF Goto
    <3> QED
      BY <2>3, <3>2
  <2>4. CASE a = "source"
    <3>1. Goto(b, "object", "make")
      BY <2>4 DEF Next1
    <3>2. pc' = [pc EXCEPT ![b] = "object"]
      BY <3>1 DEF Goto
    <3> QED
      BY <2>4, <3>2
  <2>5. CASE a = "object"
    <3>1. Goto(b, "link", "look")
      BY <2>5 DEF Next1
    <3>2. pc' = [pc EXCEPT ![b] = "link"]
      BY <3>1 DEF Goto
    <3> QED
      BY <2>5, <3>2
  <2> QED
    BY <2>1, <2>2, <2>3, <2>4, <2>5
<1>2. StateAt(a) = "building" /\ StateAt(l) = "building"
  BY <1>1 DEF StateAt, Stopped
<1>3. ReliesAt(l) = ReliesAt(a) \union ({a} \intersect Needed)
  BY <1>1 DEF ReliesAt, Needed
<1>4. /\ State' = [State EXCEPT ![b] = StateAt(l)] /\ State[b] = StateAt(a)
      /\ Relies' = [Relies EXCEPT ![b] = ReliesAt(l)] /\ Relies[b] = ReliesAt(a)
  BY <1>1, ShownAt
<1>5. State' = State
  BY <1>2, <1>4 DEF State
<1> QED
  BY <1>2, <1>3, <1>4, <1>5 DEF Shared!Have

\* One that stops before its link has failed.
LEMMA StopsShort ==
  ASSUME TypeOK, NEW b \in Builds, NEW l \in {"err", "lost", "dead", "astray"}, Running(b),
         pc' = [pc EXCEPT ![b] = l], final' = final
  PROVE  Shared!Fail(b)
<1>1. StateAt(pc[b]) = "building" /\ StateAt(l) = "failed" /\ ReliesAt(l) = {}
  BY DEF Running, StateAt, ReliesAt, Stopped
<1>2. /\ State' = [State EXCEPT ![b] = StateAt(l)] /\ State[b] = StateAt(pc[b])
      /\ Relies' = [Relies EXCEPT ![b] = ReliesAt(l)]
  BY ShownAt
<1> QED
  BY <1>1, <1>2 DEF Shared!Fail

\* Nothing shows of what a build does in between.
LEMMA NothingShows ==
  ASSUME TypeOK, NEW b \in Builds, NEW l, pc' = [pc EXCEPT ![b] = l], final' = final,
         StateAt(l) = StateAt(pc[b]), ReliesAt(l) = ReliesAt(pc[b])
  PROVE  UNCHANGED Shared!vars
<1>1. State' = State /\ Relies' = Relies
  BY ShownAt DEF State, Relies
<1> QED
  BY <1>1 DEF Shared!vars

\* A run of a build script begins with nothing it relies on.
LEMMA BeginShows ==
  ASSUME TypeOK, NEW b \in Builds, Begin(b)
  PROVE  Shared!Begin(b)
<1>1. pc' = [pc EXCEPT ![b] = "libcosmo"] /\ final' = final /\ pc[b] \in Stopped
  BY DEF Begin, Goto, Running
<1>2. StateAt("libcosmo") = "building" /\ ReliesAt("libcosmo") = {} /\ StateAt(pc[b]) # "building"
  BY <1>1 DEF StateAt, ReliesAt, Stopped
<1>3. /\ State' = [State EXCEPT ![b] = StateAt("libcosmo")] /\ State[b] = StateAt(pc[b])
      /\ Relies' = [Relies EXCEPT ![b] = ReliesAt("libcosmo")]
  BY <1>1, ShownAt
<1> QED
  BY <1>1, <1>2, <1>3 DEF Shared!Begin

\* What is found in its place is had from then on; what is not found shows nowhere.
LEMMA LookShows ==
  ASSUME CacheInv, NEW b \in Builds, NEW a \in Artifacts, Look(b, a)
  PROVE  [Shared!Next]_(Shared!vars)
<1>1. TypeOK /\ pc[b] = a /\ final' = final
  BY DEF CacheInv, Look
<1>2. CASE There(a)
  <2>1. final[a] = "whole"
    BY <1>2, ThereIsWhole DEF CacheInv
  <2>2. final' = [final EXCEPT ![a] = "whole"]
    BY <1>1, <2>1 DEF TypeOK
  <2>3. Next1(b, a)
    BY <1>2 DEF Look
  <2> QED
    BY <1>1, <2>2, <2>3, GoesOn DEF Shared!Next
<1>3. CASE ~There(a)
  <2>1. PICK l \in {"source", a} : pc' = [pc EXCEPT ![b] = l] /\ (l = a \/ a = "object")
    BY <1>3 DEF Look, Goto
  <2>2. StateAt(l) = StateAt(a) /\ ReliesAt(l) = ReliesAt(a)
    BY <2>1 DEF StateAt, ReliesAt, Stopped
  <2> QED
    BY <1>1, <2>1, <2>2, NothingShows
<1> QED
  BY <1>2, <1>3

\* Making an artifact beside its place shows nowhere, unless a tool fails.
LEMMA MakesShow ==
  ASSUME CacheInv, NEW b \in Builds, NEW a \in Artifacts, Make(b, a) \/ Finish(b, a)
  PROVE  [Shared!Next]_(Shared!vars)
<1>1. TypeOK /\ pc[b] = a /\ final' = final
  BY DEF CacheInv, Make, Finish
<1>2. \/ pc' = [pc EXCEPT ![b] = a]
      \/ pc' = [pc EXCEPT ![b] = "err"]
      \/ pc' = [pc EXCEPT ![b] = "astray"]
  BY DEF Make, Finish, Goto
<1>3. Running(b)
  BY <1>1 DEF Running, Stopped, Artifacts, Files, Dirs
<1> QED
  BY <1>1, <1>2, <1>3, NothingShows, StopsShort DEF Shared!Next

\* The rename puts the artifact there, or finds that another build has; only the object's
\* rename on Windows fails a build.
LEMMA PublishShows ==
  ASSUME CacheInv, NEW b \in Builds, NEW a \in Artifacts, Publish(b, a)
  PROVE  [Shared!Next]_(Shared!vars)
<1>1. TypeOK /\ pc[b] = a /\ temp[b][a] = "whole"
  BY DEF CacheInv, TypeOK, Publish
<1>2. CASE Next1(b, a) /\ final' = [final EXCEPT ![a] = temp[b][a]]
  BY <1>1, <1>2, GoesOn DEF Shared!Next
<1>3. CASE RenameFails(a) /\ Next1(b, a) /\ final' = final
  <2>1. final[a] = "whole"
    BY <1>3, ThereIsWhole DEF CacheInv, RenameFails
  <2>2. final' = [final EXCEPT ![a] = "whole"]
    BY <1>1, <1>3, <2>1 DEF TypeOK
  <2> QED
    BY <1>1, <1>3, <2>2, GoesOn DEF Shared!Next
<1>4. CASE Goto(b, "lost", "look") /\ final' = final
  <2>1. Running(b)
    BY <1>1 DEF Running, Stopped, Artifacts, Files, Dirs
  <2> QED
    BY <1>1, <1>4, <2>1, StopsShort DEF Goto, Shared!Next
<1> QED
  BY <1>2, <1>3, <1>4 DEF Publish

\* The target spec is not among what is shared; a link ends a build well, a death does not.
LEMMA OthersShow ==
  ASSUME CacheInv, NEW b \in Builds,
         CompareSpec(b) \/ TruncateSpec(b) \/ WriteSpec(b) \/ ReadSpec(b) \/ Link(b) \/ Die(b)
  PROVE  [Shared!Next]_(Shared!vars)
<1>1. TypeOK /\ final' = final
  BY DEF CacheInv, CompareSpec, TruncateSpec, WriteSpec, ReadSpec, Link, Die
<1>2. CASE CompareSpec(b) \/ TruncateSpec(b) \/ WriteSpec(b) \/ ReadSpec(b)
  <2>1. PICK l \in {"spec", "read", "object", "astray"} : pc' = [pc EXCEPT ![b] = l]
    BY <1>2 DEF CompareSpec, TruncateSpec, WriteSpec, ReadSpec, Goto
  <2>2. pc[b] \in {"spec", "read"}
    BY <1>2 DEF CompareSpec, TruncateSpec, WriteSpec, ReadSpec
  <2>3. CASE l = "astray"
    <3>1. Running(b)
      BY <2>2 DEF Running, Stopped
    <3> QED
      BY <1>1, <2>1, <2>3, <3>1, StopsShort DEF Shared!Next
  <2>4. CASE l # "astray"
    <3>1. StateAt(l) = StateAt(pc[b]) /\ ReliesAt(l) = ReliesAt(pc[b])
      BY <2>1, <2>2, <2>4 DEF StateAt, ReliesAt, Stopped
    <3> QED
      BY <1>1, <2>1, <3>1, NothingShows
  <2> QED
    BY <2>3, <2>4
<1>3. CASE Link(b) /\ pc' = [pc EXCEPT ![b] = "done"]
  <2>1. pc[b] = "link" /\ pc' = [pc EXCEPT ![b] = "done"]
    BY <1>3 DEF Link
  <2>2. /\ StateAt("link") = "building" /\ StateAt("done") = "done"
        /\ ReliesAt("link") = Needed /\ ReliesAt("done") = Needed
    BY DEF StateAt, ReliesAt, Stopped
  <2>3. Relies' = Relies
    BY <1>1, <2>1, <2>2, ShownAt DEF Relies
  <2>5. /\ State' = [State EXCEPT ![b] = StateAt("done")] /\ State[b] = StateAt(pc[b])
        /\ Relies[b] = ReliesAt(pc[b])
    BY <1>1, <2>1, ShownAt
  <2>4. Shared!Succeed(b)
    BY <1>1, <2>1, <2>2, <2>3, <2>5 DEF Shared!Succeed
  <2> QED
    BY <2>4 DEF Shared!Next
<1>4. CASE Link(b) /\ ~(pc' = [pc EXCEPT ![b] = "done"])
  <2>1. pc' = [pc EXCEPT ![b] = "astray"] \/ pc' = [pc EXCEPT ![b] = "err"]
    BY <1>4 DEF Link, Goto
  <2>2. Running(b)
    BY <1>4 DEF Link, Running, Stopped
  <2> QED
    BY <1>1, <2>1, <2>2, StopsShort DEF Shared!Next
<1>5. CASE Die(b)
  BY <1>1, <1>5, StopsShort DEF Die, Goto, Shared!Next
<1> QED
  BY <1>2, <1>3, <1>4, <1>5

\* What is deleted, is deleted while nobody builds.
LEMMA DeleteShows ==
  ASSUME CacheInv, ~Damage, NEW a \in Artifacts, Delete(a)
  PROVE  Shared!Delete(a)
<1>1. final' = [final EXCEPT ![a] = "absent"] /\ pc' = [b \in Builds |-> "idle"]
  BY DEF Delete
<1>2. \A b \in Builds : State[b] # "building"
  BY DEF Delete, Running, State, StateAt, Stopped
<1>3. State' = [b \in Builds |-> "idle"] /\ Relies' = [b \in Builds |-> {}]
  <2>1. StateAt("idle") = "idle" /\ ReliesAt("idle") = {}
    BY DEF StateAt, ReliesAt, Stopped
  <2>2. \A b \in Builds : pc'[b] = "idle"
    BY <1>1
  <2>3. \A b \in Builds : StateAt(pc[b])' = StateAt(pc'[b]) /\ ReliesAt(pc[b])' = ReliesAt(pc'[b])
    BY DEF StateAt, ReliesAt
  <2> QED
    BY <2>1, <2>2, <2>3 DEF State, Relies
<1> QED
  BY <1>1, <1>2, <1>3 DEF Shared!Delete

\* Builds in any number that look, make, rename, fail and are killed with no lock between
\* them (cache.rs:71-218, inject.rs:24-101) implement a cache that only grows while anybody
\* builds, and gives whoever ends well all that his link reads.
THEOREM CacheRefinement == ~Damage => (Spec => ImplementsSharedCache)
<1> SUFFICES ASSUME ~Damage PROVE Spec => ImplementsSharedCache
  OBVIOUS
<1>1. Init => Shared!Init
  <2>1. StateAt("idle") = "idle" /\ ReliesAt("idle") = {}
    BY DEF StateAt, ReliesAt, Stopped
  <2> QED
    BY <2>1 DEF Init, Shared!Init, State, Relies
<1>2. CacheInv /\ [Next]_vars => [Shared!Next]_(Shared!vars)
  <2> SUFFICES ASSUME CacheInv, [Next]_vars PROVE [Shared!Next]_(Shared!vars)
    OBVIOUS
  <2>1. CASE UNCHANGED vars
    BY <2>1 DEF vars, Shared!vars, State, Relies, StateAt, ReliesAt
  <2>2. ASSUME NEW b \in Builds, Begin(b) PROVE Shared!Next
    BY <2>2, BeginShows DEF CacheInv, Shared!Next
  <2>3. ASSUME NEW b \in Builds, Step(b) \/ Die(b) PROVE [Shared!Next]_(Shared!vars)
    BY <2>3, LookShows, MakesShow, PublishShows, OthersShow DEF Step
  <2>4. ASSUME NEW a \in Artifacts, Delete(a) PROVE Shared!Next
    BY <2>4, DeleteShows DEF Shared!Next
  <2> QED
    BY <2>1, <2>2, <2>3, <2>4 DEF Next, Exhausted
<1> QED
  BY <1>1, <1>2, CacheInvariant, PTL DEF Spec, Shared!Spec, ImplementsSharedCache

==============================================================================
