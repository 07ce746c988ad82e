---------------------------- MODULE CosmoccProofs ----------------------------
(***************************************************************************)
(* The toolchain of Cosmocc is verified and whole, for any number of       *)
(* builds, of programs in the archive, and of runs one after the other.    *)
(***************************************************************************)
EXTENDS Cosmocc, TLAPS

\* Builds that come one after the other are never two at a time.
OneAtATime == \A b, o \in Builds : Running(b) /\ Running(o) => b = o

\* What a build has verified is what it unpacks, as long as nobody else is there.
Fetched(b) ==
  /\ pc[b] = "download" => b \in attached /\ got[b] = "none"
  /\ pc[b] = "verify" => part = got[b]
  /\ pc[b] = "open" => part = "pinned"
  /\ pc[b] \in {"unpack", "copy"} => part = "pinned" /\ got[b] = "pinned"

FetchInv ==
  ~overlapped =>
    /\ OneAtATime
    /\ \A b \in Builds : Fetched(b)
    /\ \A t \in Tools : file[t].bytes = "pinned"

\* A program that needs at most the patches.
Base(t) ==
  IF host = "linux" /\ t # "assimilate" THEN file[t].form = "native" ELSE IsApe(t)

\* A program as a build that goes on needs it.
Fit(t) == Base(t) /\ (host = "windows" => file[t].patched)

\* How far a build has come with the programs.
Unpacked(b) ==
  /\ pc[b] \in {"fetch", "download", "verify", "open"} => ~Exists("apelink")
  /\ pc[b] \in {"unpack", "copy"} =>
       \A t \in Tools : IsApe(t) \/ t \in todo[b] \/ (pc[b] = "copy" /\ t = entry[b])
  /\ pc[b] = "convert" =>
       /\ host = "linux" /\ "assimilate" \notin todo[b]
       /\ \A t \in Tools : IF t \in todo[b] \union {"assimilate"} THEN IsApe(t) ELSE Base(t)
  /\ pc[b] \in {"unpack", "copy", "convert", "check"} =>
       ~marker /\ \A o \in Builds : pc[o] # "ok"
  /\ pc[b] \in {"check", "marker", "patch"} => Exists("apelink")
  /\ pc[b] = "patch" =>
       host = "windows" /\ \A t \in Tools : t \in todo[b] \/ file[t].patched

\* bin/apelink stands for the whole toolchain, but while it is being made.
Whole ==
  /\ Exists("apelink") /\ (\A b \in Builds : pc[b] \notin {"unpack", "copy", "convert"}) =>
       \A t \in Tools : Base(t)
  /\ marker => host = "windows" /\ \A t \in Tools : Fit(t)
  /\ \A b \in Builds : pc[b] = "ok" => \A t \in Tools : Fit(t)

UnpackInv == ~overlapped /\ ~halfway => Whole /\ \A b \in Builds : Unpacked(b)

-------------------------------------------------------------------------------
(* Types *)

\* The disk and the builds are always in states the code can put them in.
LEMMA TypeInit == Init => TypeOK
<1>. SUFFICES ASSUME Init PROVE TypeOK
  OBVIOUS
<1>1. file \in [Tools -> [form : {"none", "short", "ape", "native"}, bytes : Bytes, patched : BOOLEAN]]
  BY DEF Init, Missing, Bytes
<1>2. entry \in [Builds -> Tools]
  BY ToolsAssumption DEF Init
<1>3. pc \in [Builds -> Steps \union Stopped] /\ todo \in [Builds -> SUBSET Tools]
  BY DEF Init, Stopped
<1>4. got \in [Builds -> Bytes \union {"none", "shared"}] /\ done \in [Builds -> BOOLEAN]
  BY DEF Init
<1>5. runs \in 0..MaxRuns
  BY RunsAssumption DEF Init
<1>. QED
  BY <1>1, <1>2, <1>3, <1>4, <1>5 DEF Init, TypeOK, Bytes

\* A step that fails keeps the types.
LEMMA FailsType == ASSUME TypeOK, NEW b \in Builds, UNCHANGED host, Fails(b) PROVE TypeOK'
BY DEF TypeOK, Fails, Stop, MidUnpack, Goto, Bytes, Stopped, Steps

\* A program is written over by a program.
LEMMA FileType ==
  ASSUME TypeOK, NEW t \in Tools, NEW r,
         r \in [form : {"none", "short", "ape", "native"}, bytes : Bytes, patched : BOOLEAN],
         file' = [file EXCEPT ![t] = r]
  PROVE  file' \in [Tools -> [form : {"none", "short", "ape", "native"}, bytes : Bytes,
                             patched : BOOLEAN]]
BY DEF TypeOK

LEMMA TypeNext == TypeOK /\ [Next]_vars => TypeOK'
<1>. SUFFICES ASSUME TypeOK, [Next]_vars PROVE TypeOK'
  OBVIOUS
<1>. USE RunsAssumption DEF TypeOK, Goto, Bytes, Stopped, Steps
<1>1. ASSUME NEW b \in Builds, UNCHANGED host, Look(b) PROVE TypeOK'
  BY <1>1 DEF Look, disk, history
<1>2. ASSUME NEW b \in Builds, UNCHANGED host, Fetch(b) PROVE TypeOK'
  BY <1>2, FailsType DEF Fetch, history
<1>3. ASSUME NEW b \in Builds, UNCHANGED host, Download(b) PROVE TypeOK'
  <2>1. CASE Fails(b)
    BY <2>1, <1>3, FailsType
  <2>2. CASE ~Fails(b)
    <3>1. PICK q \in Bytes :
            /\ got' = [got EXCEPT ![b] = q]
            /\ part' \in IF b \notin attached THEN {part}
                         ELSE IF got[b] = "shared" THEN {"short", q} ELSE {q}
            /\ attached' = attached \ {b}
            /\ Goto(b, "verify")
            /\ UNCHANGED <<entry, file, marker, todo, done, history>>
      BY <2>2, <1>3 DEF Download
    <3>2. part' \in Bytes \union {"none", "short"}
      BY <3>1
    <3>. QED BY <3>1, <3>2, <1>3 DEF history
  <2>. QED BY <2>1, <2>2
<1>4. ASSUME NEW b \in Builds, UNCHANGED host, Verify(b) PROVE TypeOK'
  BY <1>4 DEF Verify, disk, history
<1>5. ASSUME NEW b \in Builds, UNCHANGED host, Open(b) PROVE TypeOK'
  <2>1. CASE part \in Bytes
    <3>1. pc' = [pc EXCEPT ![b] = "unpack"] /\ attached' = attached \union {b}
      BY <2>1, <1>5 DEF Open
    <3>2. attached' \subseteq {o \in Builds : pc'[o] \in {"download", "unpack", "copy"}}
      BY <3>1
    <3>. QED BY <2>1, <3>1, <3>2, <1>5 DEF Open, history
  <2>2. CASE part \notin Bytes
    BY <2>2, <1>5 DEF Open, history
  <2>. QED BY <2>1, <2>2
<1>6. ASSUME NEW b \in Builds, UNCHANGED host, Unpack(b) PROVE TypeOK'
  <2>1. CASE Fails(b)
    BY <2>1, <1>6, FailsType
  <2>2. ASSUME NEW t \in todo[b],
               /\ file' = [file EXCEPT ![t] = Short]
               /\ todo' = [todo EXCEPT ![b] = @ \ {t}]
               /\ entry' = [entry EXCEPT ![b] = t]
               /\ Goto(b, "copy")
               /\ UNCHANGED <<part, attached, marker, got, done, history>>
        PROVE  TypeOK'
    <3>1. t \in Tools
      OBVIOUS
    <3>2. file' \in [Tools -> [form : {"none", "short", "ape", "native"}, bytes : Bytes,
                              patched : BOOLEAN]]
      BY <2>2, <3>1, FileType DEF Short
    <3>. QED BY <2>2, <3>1, <3>2, <1>6 DEF Unpack, history
  <2>. QED BY <2>1, <2>2, <1>6 DEF Unpack
<1>7. ASSUME NEW b \in Builds, UNCHANGED host, CopyEntry(b) PROVE TypeOK'
  <2>. DEFINE source == IF b \in attached THEN part ELSE got[b]
  <2>1. CASE Fails(b)
    BY <2>1, <1>7, FailsType
  <2>2. CASE source \in Bytes /\ file' = [file EXCEPT ![entry[b]] = Ape(source)] /\ ~Fails(b)
    <3>1. file' \in [Tools -> [form : {"none", "short", "ape", "native"}, bytes : Bytes,
                              patched : BOOLEAN]]
      BY <2>2, FileType DEF Ape
    <3>. QED BY <2>2, <3>1, <1>7, ZenonT(60) DEF CopyEntry, history
  <2>3. CASE source \notin Bytes /\ ~Fails(b)
    BY <2>3, <1>7 DEF CopyEntry, history
  <2>. QED BY <2>1, <2>2, <2>3, <1>7 DEF CopyEntry
<1>8. ASSUME NEW b \in Builds, UNCHANGED host, RemovePart(b) PROVE TypeOK'
  BY <1>8 DEF RemovePart, history
<1>9. ASSUME NEW b \in Builds, UNCHANGED host, Convert(b) PROVE TypeOK'
  <2>1. CASE Fails(b)
    BY <2>1, <1>9, FailsType
  <2>2. CASE ~Fails(b)
    <3>1. PICK t \in todo[b] :
            /\ todo' = [todo EXCEPT ![b] = @ \ {t}]
            /\ \/ /\ IsApe(t)
                  /\ file' = [file EXCEPT ![t].form = "native"]
                  /\ done' = [done EXCEPT ![b] = TRUE]
                  /\ UNCHANGED history
               \/ ~IsApe(t) /\ UNCHANGED <<file, done, history>>
               \/ IsApe(t) /\ Stop(b) /\ UNCHANGED <<file, done>>
            /\ UNCHANGED <<entry, part, attached, marker, pc, got>>
      BY <2>2, <1>9 DEF Convert
    <3>2. t \in Tools
      OBVIOUS
    <3>3. file' \in [Tools -> [form : {"none", "short", "ape", "native"}, bytes : Bytes,
                              patched : BOOLEAN]]
      BY <3>1, <3>2
    <3>4. done' \in [Builds -> BOOLEAN] /\ todo' \in [Builds -> SUBSET Tools]
      BY <3>1
    <3>5. runs' = runs /\ overlapped' = overlapped /\ halfway' \in BOOLEAN
      BY <3>1 DEF Stop, MidUnpack, history
    <3>. QED BY <3>1, <3>3, <3>4, <3>5, <1>9
  <2>. QED BY <2>1, <2>2
<1>10. ASSUME NEW b \in Builds, UNCHANGED host, Converted(b) PROVE TypeOK'
  BY <1>10 DEF Converted, disk, history
<1>11. ASSUME NEW b \in Builds, UNCHANGED host, Check(b) PROVE TypeOK'
  BY <1>11 DEF Check, disk, history
<1>12. ASSUME NEW b \in Builds, UNCHANGED host, LookMarker(b) PROVE TypeOK'
  <2>1. /\ UNCHANGED <<entry, disk, got, done, history>>
        /\ pc' \in [Builds -> Steps \union Stopped]
        /\ pc' = [pc EXCEPT ![b] = "ok"] \/ pc' = [pc EXCEPT ![b] = "patch"]
        /\ pc[b] = "marker"
    BY <1>12 DEF LookMarker
  <2>2. todo' \in [Builds -> SUBSET Tools]
    BY <1>12 DEF LookMarker
  <2>3. attached' \subseteq {o \in Builds : pc'[o] \in {"download", "unpack", "copy"}}
    BY <2>1 DEF disk
  <2>. QED BY <2>1, <2>2, <2>3, <1>12 DEF disk, history
<1>13. ASSUME NEW b \in Builds, UNCHANGED host, Patch(b) PROVE TypeOK'
  <2>1. CASE Fails(b)
    BY <2>1, <1>13, FailsType
  <2>2. CASE ~Fails(b)
    <3>1. PICK t \in todo[b] :
            /\ file' = IF IsApe(t) THEN [file EXCEPT ![t].patched = TRUE] ELSE file
            /\ todo' = [todo EXCEPT ![b] = @ \ {t}]
            /\ UNCHANGED <<entry, part, attached, marker, pc, got, done, history>>
      BY <2>2, <1>13 DEF Patch
    <3>2. t \in Tools
      OBVIOUS
    <3>3. file' \in [Tools -> [form : {"none", "short", "ape", "native"}, bytes : Bytes,
                              patched : BOOLEAN]]
      BY <3>1, <3>2, ZenonT(60)
    <3>. QED BY <3>1, <3>3, <1>13 DEF history
  <2>. QED BY <2>1, <2>2
<1>14. ASSUME NEW b \in Builds, UNCHANGED host, Mark(b) PROVE TypeOK'
  BY <1>14, FailsType DEF Mark, history
<1>15. ASSUME NEW b \in Builds, UNCHANGED host, Begin(b) PROVE TypeOK'
  BY <1>15 DEF Begin, Running, disk
<1>16. ASSUME NEW b \in Builds, UNCHANGED host, Die(b) PROVE TypeOK'
  BY <1>16 DEF Die, Running, Stop, MidUnpack
<1>17. CASE UNCHANGED vars
  BY <1>17 DEF vars, disk, history
<1>. QED
  BY <1>1, <1>2, <1>3, <1>4, <1>5, <1>6, <1>7, <1>8, <1>9, <1>10, <1>11, <1>12, <1>13, <1>14, <1>15, <1>16, <1>17 DEF Next, Step, Exhausted

\* TypeOK holds in every state.
THEOREM ToolsTypeCorrect == Spec => []TypeOK
BY TypeInit, TypeNext, PTL DEF Spec

-------------------------------------------------------------------------------
(* One build after the other *)

\* A step moves its own build only.
LEMMA OwnStep ==
  ASSUME TypeOK, NEW b \in Builds, Step(b) \/ Die(b)
  PROVE  Running(b) /\ overlapped' = overlapped /\ \A o \in Builds \ {b} : pc'[o] = pc[o]
<1>. USE DEF TypeOK, Goto, Running, Stopped, Fails, Stop, disk, history
<1>1. CASE Look(b)
  BY <1>1 DEF Look
<1>2. CASE Fetch(b)
  BY <1>2 DEF Fetch
<1>3. CASE Download(b)
  BY <1>3 DEF Download
<1>4. CASE Verify(b)
  BY <1>4 DEF Verify
<1>5. CASE Open(b)
  BY <1>5 DEF Open
<1>6. CASE Unpack(b)
  BY <1>6 DEF Unpack
<1>7. CASE CopyEntry(b)
  BY <1>7 DEF CopyEntry
<1>8. CASE RemovePart(b)
  BY <1>8 DEF RemovePart
<1>9. CASE Convert(b)
  BY <1>9 DEF Convert
<1>10. CASE Converted(b)
  BY <1>10 DEF Converted
<1>11. CASE Check(b)
  BY <1>11 DEF Check
<1>12. CASE LookMarker(b)
  BY <1>12 DEF LookMarker
<1>13. CASE Patch(b)
  BY <1>13 DEF Patch
<1>14. CASE Mark(b)
  BY <1>14 DEF Mark
<1>15. CASE Die(b)
  BY <1>15 DEF Die
<1>. QED
  BY <1>1, <1>2, <1>3, <1>4, <1>5, <1>6, <1>7, <1>8, <1>9, <1>10, <1>11, <1>12, <1>13, <1>14, <1>15 DEF Step

\* So it has the others at rest.
LEMMA AloneStep ==
  ASSUME TypeOK, OneAtATime, NEW b \in Builds, Step(b) \/ Die(b)
  PROVE  /\ OneAtATime'
         /\ \A o \in Builds \ {b} : pc[o] \in Stopped /\ pc'[o] = pc[o]
<1>1. Running(b) /\ \A o \in Builds \ {b} : pc'[o] = pc[o]
  BY OwnStep
<1>2. \A o \in Builds \ {b} : pc[o] \in Stopped
  BY <1>1 DEF OneAtATime, Running
<1>3. \A o \in Builds : Running(o)' => o = b
  BY <1>1, <1>2 DEF Running
<1>. QED BY <1>1, <1>2, <1>3 DEF OneAtATime

\* A build begins when no other is under way, or the two overlap.
LEMMA AloneBegin ==
  ASSUME TypeOK, NEW b \in Builds, Begin(b), ~overlapped'
  PROVE  /\ OneAtATime'
         /\ pc'[b] = "look"
         /\ \A o \in Builds : pc[o] \in Stopped
         /\ \A o \in Builds \ {b} : pc'[o] = pc[o]
<1>1. \A o \in Builds : pc[o] \in Stopped
  BY DEF Begin, Running
<1>2. pc'[b] = "look" /\ \A o \in Builds \ {b} : pc'[o] = pc[o]
  BY DEF Begin, Goto, TypeOK
<1>3. \A o \in Builds : Running(o)' => o = b
  BY <1>1, <1>2 DEF Running
<1>. QED BY <1>1, <1>2, <1>3 DEF OneAtATime

-------------------------------------------------------------------------------
(* The bytes *)

LEMMA FetchInit == Init => FetchInv
BY ToolsAssumption DEF Init, FetchInv, OneAtATime, Fetched, Running, Stopped, Missing

\* What a step of b must keep; the other builds rest.
LEMMA FetchStep ==
  ASSUME TypeOK, FetchInv, ~overlapped, NEW b \in Builds, Step(b)
  PROVE  Fetched(b)' /\ \A t \in Tools : file'[t].bytes = "pinned"
<1>. USE DEF TypeOK, Goto, Fetched
<1>. \A o \in Builds \ {b} : pc[o] \in Stopped /\ pc'[o] = pc[o]
  BY AloneStep DEF FetchInv
<1>. Fetched(b) /\ \A t \in Tools : file[t].bytes = "pinned"
  BY DEF FetchInv
<1>1. CASE Look(b)
  BY <1>1 DEF Look, disk
<1>2. CASE Fetch(b)
  <2>1. {o \in attached : pc[o] = "download"} = {}
    BY <1>2 DEF Fetch, Stopped
  <2>. QED BY <1>2, <2>1 DEF Fetch, Fails
<1>3. CASE Download(b)
  BY <1>3 DEF Download, Fails
<1>4. CASE Verify(b)
  BY <1>4 DEF Verify, disk
<1>5. CASE Open(b)
  BY <1>5 DEF Open
<1>6. CASE Unpack(b)
  BY <1>6, SMTT(30) DEF Unpack, Fails, Short
<1>7. CASE CopyEntry(b)
  BY <1>7 DEF CopyEntry, Fails, Ape, Bytes
<1>8. CASE RemovePart(b)
  BY <1>8 DEF RemovePart
<1>9. CASE Convert(b)
  BY <1>9 DEF Convert, Fails
<1>10. CASE Converted(b)
  BY <1>10 DEF Converted, disk
<1>11. CASE Check(b)
  BY <1>11 DEF Check, disk
<1>12. CASE LookMarker(b)
  BY <1>12 DEF LookMarker, disk
<1>13. CASE Patch(b)
  BY <1>13 DEF Patch, Fails
<1>14. CASE Mark(b)
  BY <1>14 DEF Mark, Fails
<1>. QED
  BY <1>1, <1>2, <1>3, <1>4, <1>5, <1>6, <1>7, <1>8, <1>9, <1>10, <1>11, <1>12, <1>13, <1>14 DEF Step

LEMMA FetchNext == TypeOK /\ FetchInv /\ [Next]_vars => FetchInv'
<1>. SUFFICES ASSUME TypeOK, FetchInv, [Next]_vars, ~overlapped'
              PROVE  /\ OneAtATime'
                     /\ \A o \in Builds : Fetched(o)'
                     /\ \A t \in Tools : file'[t].bytes = "pinned"
  BY DEF FetchInv
<1>1. ASSUME NEW b \in Builds, Step(b)
      PROVE  OneAtATime' /\ (\A o \in Builds : Fetched(o)')
             /\ \A t \in Tools : file'[t].bytes = "pinned"
  <2>1. ~overlapped /\ OneAtATime
    BY <1>1, OwnStep DEF FetchInv
  <2>2. OneAtATime' /\ \A o \in Builds \ {b} : pc'[o] \in Stopped
    BY <1>1, <2>1, AloneStep
  <2>3. \A o \in Builds \ {b} : Fetched(o)'
    BY <2>2 DEF Fetched, Stopped
  <2>. QED BY <1>1, <2>1, <2>2, <2>3, FetchStep
<1>2. ASSUME NEW b \in Builds, Begin(b)
      PROVE  OneAtATime' /\ (\A o \in Builds : Fetched(o)')
             /\ \A t \in Tools : file'[t].bytes = "pinned"
  <2>1. ~overlapped /\ file' = file
    BY <1>2 DEF Begin, disk
  <2>2. OneAtATime' /\ \A o \in Builds : pc'[o] \in Stopped \union {"look"}
    BY <1>2, AloneBegin
  <2>3. \A o \in Builds : Fetched(o)'
    BY <2>2 DEF Fetched, Stopped
  <2>. QED BY <2>1, <2>2, <2>3 DEF FetchInv
<1>3. ASSUME NEW b \in Builds, Die(b)
      PROVE  OneAtATime' /\ (\A o \in Builds : Fetched(o)')
             /\ \A t \in Tools : file'[t].bytes = "pinned"
  <2>1. ~overlapped /\ OneAtATime /\ file' = file /\ pc'[b] = "dead"
    BY <1>3, OwnStep DEF FetchInv, Die, Goto, TypeOK
  <2>2. OneAtATime' /\ \A o \in Builds : pc'[o] \in Stopped
    BY <1>3, <2>1, AloneStep DEF Stopped
  <2>3. \A o \in Builds : Fetched(o)'
    BY <2>2 DEF Fetched, Stopped
  <2>. QED BY <2>1, <2>2, <2>3 DEF FetchInv
<1>4. CASE UNCHANGED vars
  BY <1>4 DEF vars, disk, history, FetchInv, OneAtATime, Running, Fetched
<1>. QED
  BY <1>1, <1>2, <1>3, <1>4 DEF Next, Exhausted

\* As long as builds come one after the other, no program of the toolchain has bytes but
\* the pinned archive's: what is hashed is what this build wrote and what unzip opens.
THEOREM VerifiedOnlyHolds == Spec => []VerifiedOnly
<1>1. FetchInv => VerifiedOnly
  BY DEF FetchInv, VerifiedOnly
<1>. QED
  BY <1>1, FetchInit, FetchNext, ToolsTypeCorrect, PTL DEF Spec

-------------------------------------------------------------------------------
(* The programs *)

LEMMA UnpackInit == Init => UnpackInv
BY ToolsAssumption DEF Init, UnpackInv, Unpacked, Whole, Exists, Missing

\* A program that is fit is ready, whatever the host.
LEMMA FitIsReady ==
  ASSUME TypeOK, NEW t \in Tools, Fit(t)
  PROVE  Ready(t)
<1>1. CASE host = "linux"
  BY <1>1 DEF Ready, Fit, Base
<1>2. CASE host = "macos"
  BY <1>2 DEF Ready, Fit, Base
<1>3. CASE host = "windows"
  BY <1>3 DEF Ready, Fit, Base
<1>. QED BY <1>1, <1>2, <1>3, HostsAssumption DEF TypeOK

\* What a step of b must keep while the other builds rest.
LEMMA UnpackStep ==
  ASSUME TypeOK, TypeOK', FetchInv, UnpackInv, ~overlapped, ~halfway', NEW b \in Builds, Step(b)
  PROVE  Unpacked(b)' /\ Whole'
<1>. USE ToolsAssumption, HostsAssumption
     DEF TypeOK, Goto, Unpacked, Whole, Fit, Base, IsApe, Exists
<1>. host' = host /\ ~halfway
  BY DEF Step, Look, Fetch, Download, Verify, Open, Unpack, CopyEntry, RemovePart, Convert, Converted,
         Check, LookMarker, Patch, Mark, Fails, Stop, history
<1>. \A o \in Builds \ {b} : pc[o] \in Stopped /\ pc'[o] = pc[o]
  BY AloneStep DEF FetchInv
<1>. Unpacked(b) /\ Whole
  BY DEF UnpackInv
<1>. Fetched(b)
  BY DEF FetchInv
<1>1. CASE Look(b)
  BY <1>1 DEF Look, disk, history, Stopped, Fetched
<1>2. CASE Fetch(b)
  BY <1>2 DEF Fetch, Fails, Stop, history, Stopped, Fetched
<1>3. CASE Download(b)
  BY <1>3 DEF Download, Fails, Stop, history, Stopped, Fetched
<1>4. CASE Verify(b)
  BY <1>4 DEF Verify, disk, history, Stopped, Fetched
<1>5. CASE Open(b)
  BY <1>5 DEF Open, history, Stopped, Fetched
<1>6. CASE Unpack(b)
  BY <1>6 DEF Unpack, Fails, Stop, Short, history, MidUnpack, Stopped, Fetched
<1>7. CASE CopyEntry(b)
  BY <1>7 DEF CopyEntry, Fails, Stop, Ape, history, MidUnpack, Bytes, Stopped, Fetched
<1>8. CASE RemovePart(b)
  BY <1>8 DEF RemovePart, history, Stopped, Fetched
<1>9. CASE Convert(b)
  <2>1. Exists("apelink") /\ pc[b] = "convert" /\ ~Stop(b)
    BY <1>9 DEF Convert, Stop, MidUnpack
  <2>2. PICK t \in todo[b] :
          /\ todo' = [todo EXCEPT ![b] = @ \ {t}]
          /\ file' = [file EXCEPT ![t].form = "native"]
          /\ UNCHANGED <<entry, part, attached, marker, pc, got>>
    BY <1>9, <2>1 DEF Convert, Fails
  <2>3. t \in Tools
    OBVIOUS
  <2>4. \A u \in Tools : u # t => file'[u] = file[u]
    BY <2>2
  <2>5. file'[t].form = "native" /\ todo'[b] = todo[b] \ {t}
    BY <2>2, <2>3
  <2>6. t # "assimilate" /\ "assimilate" \notin todo'[b]
    BY <2>1, <2>5
  <2>7. Unpacked(b)'
    BY <2>1, <2>2, <2>4, <2>5, <2>6
  <2>. QED BY <2>1, <2>2, <2>7
<1>10. CASE Converted(b)
  BY <1>10 DEF Converted, disk, history, Stopped, Fetched
<1>11. CASE Check(b)
  BY <1>11 DEF Check, disk, history, Stopped, Fetched
<1>12. CASE LookMarker(b)
  <2>1. (\A t \in Tools : Base(t) /\ Exists(t)) /\ (marker => \A t \in Tools : file[t].patched)
    BY <1>12 DEF LookMarker, Stopped
  <2>2. CASE host # "windows" \/ marker
    BY <1>12, <2>1, <2>2 DEF LookMarker, disk, Stopped
  <2>3. CASE ~(host # "windows" \/ marker)
    <3>1. /\ pc' = [pc EXCEPT ![b] = "patch"] /\ file' = file /\ marker' = marker
          /\ todo' = [todo EXCEPT ![b] = {t \in Tools : Exists(t)}]
      BY <1>12, <2>3 DEF LookMarker, disk
    <3>2. todo'[b] = Tools
      BY <2>1, <3>1
    <3>3. pc'[b] = "patch" /\ pc[b] = "marker" /\ host = "windows"
      BY <1>12, <2>3, <3>1 DEF LookMarker
    <3>4. Unpacked(b)'
      BY <3>1, <3>2, <3>3, <2>3
    <3>. QED BY <2>1, <2>3, <3>1, <3>3, <3>4, <1>12
  <2>. QED BY <2>2, <2>3
<1>13. CASE Patch(b)
  <2>1. CASE Fails(b)
    BY <1>13, <2>1 DEF Patch, Fails, Stop, Stopped
  <2>2. ASSUME NEW t \in todo[b],
               /\ file' = IF IsApe(t) THEN [file EXCEPT ![t].patched = TRUE] ELSE file
               /\ todo' = [todo EXCEPT ![b] = @ \ {t}]
               /\ UNCHANGED <<entry, part, attached, marker, pc, got, done, history>>
        PROVE  Unpacked(b)' /\ Whole'
    <3>1. t \in Tools /\ pc[b] = "patch" /\ host = "windows" /\ IsApe(t)
      BY <1>13 DEF Patch, Stopped
    <3>2. \A u \in Tools : /\ file'[u].form = file[u].form
                           /\ u # t => file'[u] = file[u]
      BY <2>2, <3>1
    <3>3. file'[t].patched = TRUE
      BY <2>2, <3>1
    <3>4. \A u \in Tools : file[u].patched => file'[u].patched
      BY <3>2, <3>3
    <3>5. todo'[b] = todo[b] \ {t} /\ \A u \in Tools : u \in todo'[b] \/ file'[u].patched
      BY <2>2, <3>1, <3>3, <3>4
    <3>6. Unpacked(b)'
      BY <2>2, <3>1, <3>2, <3>5
    <3>. QED BY <2>2, <3>1, <3>2, <3>4, <3>6
  <2>. QED BY <2>1, <2>2, <1>13 DEF Patch
<1>14. CASE Mark(b)
  BY <1>14 DEF Mark, Fails, Stop, history, Stopped, Fetched
<1>. QED
  BY <1>1, <1>2, <1>3, <1>4, <1>5, <1>6, <1>7, <1>8, <1>9, <1>10, <1>11, <1>12, <1>13, <1>14 DEF Step

LEMMA UnpackNext == TypeOK /\ TypeOK' /\ FetchInv /\ UnpackInv /\ [Next]_vars => UnpackInv'
<1>. SUFFICES ASSUME TypeOK, TypeOK', FetchInv, UnpackInv, [Next]_vars, ~overlapped', ~halfway'
              PROVE  Whole' /\ \A b \in Builds : Unpacked(b)'
  BY DEF UnpackInv
<1>1. ASSUME NEW b \in Builds, Step(b)
      PROVE  Whole' /\ \A o \in Builds : Unpacked(o)'
  <2>1. ~overlapped /\ OneAtATime
    BY <1>1, OwnStep DEF FetchInv
  <2>2. \A o \in Builds \ {b} : pc'[o] \in Stopped
    BY <1>1, <2>1, AloneStep
  <2>3. \A o \in Builds \ {b} : Unpacked(o)'
    BY <2>2 DEF Unpacked, Stopped
  <2>. QED BY <1>1, <2>1, <2>3, UnpackStep
<1>2. ASSUME NEW b \in Builds, Begin(b), UNCHANGED host
      PROVE  Whole' /\ \A o \in Builds : Unpacked(o)'
  <2>1. /\ ~overlapped /\ ~halfway
        /\ file' = file /\ marker' = marker
    BY <1>2 DEF Begin, disk
  <2>2. /\ pc'[b] = "look"
        /\ \A o \in Builds : pc[o] \in Stopped
        /\ \A o \in Builds \ {b} : pc'[o] = pc[o]
    BY <1>2, AloneBegin
  <2>3. \A o \in Builds : Unpacked(o)'
    BY <2>2 DEF Unpacked, Stopped
  <2>4. Whole
    BY <2>1 DEF UnpackInv
  <2>5. Whole'
    BY <1>2, <2>1, <2>2, <2>4 DEF Whole, Fit, Base, IsApe, Exists, Stopped
  <2>. QED BY <2>3, <2>5
<1>3. ASSUME NEW b \in Builds, Die(b), UNCHANGED host
      PROVE  Whole' /\ \A o \in Builds : Unpacked(o)'
  <2>1. /\ ~overlapped /\ OneAtATime /\ ~halfway /\ ~MidUnpack(b)
        /\ file' = file /\ marker' = marker /\ pc'[b] = "dead"
    BY <1>3, OwnStep DEF FetchInv, Die, Stop, Goto, TypeOK
  <2>2. \A o \in Builds \ {b} : pc[o] \in Stopped /\ pc'[o] = pc[o]
    BY <1>3, <2>1, AloneStep
  <2>3. \A o \in Builds : Unpacked(o)'
    BY <2>1, <2>2 DEF Unpacked, Stopped
  <2>4. Whole /\ Unpacked(b)
    BY <2>1 DEF UnpackInv
  <2>5. Exists("apelink") => \A o \in Builds : pc[o] \notin {"unpack", "copy", "convert"}
    BY <2>1, <2>2 DEF MidUnpack, Stopped
  <2>6. Whole'
    BY <1>3, <2>1, <2>2, <2>4, <2>5 DEF Whole, Fit, Base, IsApe, Exists, Stopped
  <2>. QED BY <2>3, <2>6
<1>4. CASE UNCHANGED vars
  BY <1>4 DEF vars, disk, history, UnpackInv, Unpacked, Whole, Fit, Base, IsApe, Exists
<1>. QED
  BY <1>1, <1>2, <1>3, <1>4 DEF Next, Exhausted

\* A build that goes on has a toolchain whose programs all run, as long as builds come one
\* after the other and none is stopped between bin/apelink and the last program: then what
\* ensure_cosmocc asks of bin/apelink and of .patched is true of every program.
THEOREM OkMeansReadyHolds == Spec => []OkMeansReady
<1>1. TypeOK /\ UnpackInv => OkMeansReady
  BY FitIsReady DEF UnpackInv, Whole, OkMeansReady, AllReady
<1>. QED
  BY <1>1, UnpackInit, UnpackNext, FetchInit, FetchNext, TypeInit, TypeNext, PTL DEF Spec

==============================================================================
