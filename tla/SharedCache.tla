------------------------------ MODULE SharedCache ----------------------------
(***************************************************************************)
(* What the user's cache promises the builds that share it, with none of   *)
(* the files it is made through: an artifact is in its place whole or not  *)
(* at all, it is put there in one instant by whoever comes first, and as   *)
(* long as anybody builds none goes away.  A build ends well when it has   *)
(* relied on all a link needs.  BuildCache is shown to implement this.     *)
(***************************************************************************)

CONSTANTS
  Builds,     \* build scripts
  Artifacts,  \* what they share
  Needed      \* what a link reads

VARIABLES
  place,      \* place[a]: "whole" or "absent"
  state,      \* "idle", "building", "done" or "failed"
  relies      \* relies[b]: what b has found or put in its place

vars == <<place, state, relies>>

Init ==
  /\ place = [a \in Artifacts |-> "absent"]
  /\ state = [b \in Builds |-> "idle"]
  /\ relies = [b \in Builds |-> {}]

Begin(b) ==
  /\ state[b] # "building"
  /\ state' = [state EXCEPT ![b] = "building"]
  /\ relies' = [relies EXCEPT ![b] = {}]
  /\ UNCHANGED place

\* b has found a in its place, or has put it there.
Have(b, a) ==
  /\ state[b] = "building"
  /\ place' = [place EXCEPT ![a] = "whole"]
  /\ relies' = [relies EXCEPT ![b] = @ \union ({a} \intersect Needed)]
  /\ UNCHANGED state

Succeed(b) ==
  /\ state[b] = "building"
  /\ relies[b] = Needed
  /\ state' = [state EXCEPT ![b] = "done"]
  /\ UNCHANGED <<place, relies>>

\* A tool has failed, or the build was killed.
Fail(b) ==
  /\ state[b] = "building"
  /\ state' = [state EXCEPT ![b] = "failed"]
  /\ relies' = [relies EXCEPT ![b] = {}]
  /\ UNCHANGED place

Delete(a) ==
  /\ \A b \in Builds : state[b] # "building"
  /\ place' = [place EXCEPT ![a] = "absent"]
  /\ state' = [b \in Builds |-> "idle"]
  /\ relies' = [b \in Builds |-> {}]

Next ==
  \/ \E b \in Builds : Begin(b) \/ Succeed(b) \/ Fail(b)
  \/ \E b \in Builds, a \in Artifacts : Have(b, a)
  \/ \E a \in Artifacts : Delete(a)

Spec == Init /\ [][Next]_vars

==============================================================================
