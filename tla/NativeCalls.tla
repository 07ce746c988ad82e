----------------------------- MODULE NativeCalls -----------------------------
(***************************************************************************)
(* What the wrappers promise: a program that was compiled with Linux's     *)
(* numbers says to the host, and is told by it, what a C program built     *)
(* with cosmocc would, whose numbers are the host's own by their names.    *)
(***************************************************************************)
CONSTANTS
  Hosts,      \* the hosts
  Things,     \* what calls are about: a file's flags, a child's signal
              \* and for each host and thing:
  Asked,      \* the numbers programs use
  Meant,      \* of each of those, the host's numbers by the same names
  Had,        \* Linux's numbers for names the host has
  Reported,   \* the numbers the host uses of its own accord
  Heard,      \* of each of those, Linux's numbers by the same names
  TurnedDown  \* the numbers that are refused before the host is asked

VARIABLES
  host,    \* the host the program runs on
  thing,   \* what is spoken of
  kept,    \* <<the number the host holds of it>>, or <<>>
  told,    \* <<what the program takes it for, or asked for, as Linux's number>>
  by,      \* who set it: "none", "program" or "host"
  answer   \* how the last call ended: "none", "given", "told" or "refused"

vars == <<host, thing, kept, told, by, answer>>

Init ==
  /\ host \in Hosts
  /\ thing \in Things
  /\ kept = <<>> /\ told = <<>>
  /\ by = "none" /\ answer = "none"

-------------------------------------------------------------------------------

\* The program says something, and the host is given its own number for it.
Put ==
  \E v \in Asked[host][thing] :
    /\ told' = <<v>> /\ by' = "program" /\ answer' = "given"
    /\ v \notin TurnedDown[host][thing]
    /\ \E k \in Meant[host][thing][v] : kept' = <<k>>
    /\ UNCHANGED <<host, thing>>

\* An option the host lacks is refused, never passed on.
Refuse ==
  /\ \E v \in TurnedDown[host][thing] : told' = <<v>>
  /\ answer' = "refused"
  /\ UNCHANGED <<host, thing, kept, by>>

\* The host comes to hold something of its own accord.
HostSets ==
  /\ kept = <<>>
  /\ \E k \in Reported[host][thing] : kept' = <<k>>
  /\ told' = <<>> /\ by' = "host" /\ answer' = "none"
  /\ UNCHANGED <<host, thing>>

\* The program is told what the host holds, by names that say just that; what
\* it said itself, if the host has it all, comes back as it said it.
Get ==
  /\ kept # <<>> /\ kept[1] \in Reported[host][thing]
  /\ \E v \in Heard[host][thing][kept[1]] : told' = <<v>>
  /\ by = "program" /\ told[1] \in Had[host][thing] => told' = told
  /\ answer' = "told"
  /\ UNCHANGED <<host, thing, kept, by>>

Next == Put \/ Refuse \/ HostSets \/ Get

Spec == Init /\ [][Next]_vars

==============================================================================
