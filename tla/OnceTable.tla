------------------------------ MODULE OnceTable ------------------------------
(***************************************************************************)
(* What cosmo-compat's constant tables promise a wrapped call, with none   *)
(* of the machinery that keeps the promise: in each process a group of     *)
(* constants is either published or not, publication happens once and is   *)
(* never undone, and one consult answers in one instant -- with the whole  *)
(* host column when the group is published, with the Linux column (the     *)
(* identity) when it is not.  HostTables is shown to implement this.       *)
(***************************************************************************)

CONSTANTS
  Procs,      \* the processes that may ever exist
  Root,       \* the one that exists from the start
  Frames,     \* stack frames that call wrappers: threads and signal handlers
  ProcOf,     \* the process each frame belongs to
  Groups,     \* the generated groups of constants: errno, open, so, ...
  LinuxCol,   \* LinuxCol[g][r]: row r of group g as std knows it
  HostCol     \* HostCol[g][r]: the same row in the host's numbering

VARIABLES
  born,       \* the processes that exist
  published,  \* published[p]: the groups whose host column p's calls may use
  got         \* got[f]: the answers the current call of frame f has had

vars == <<born, published, got>>

LinuxView(g) == [grp |-> g, static |-> FALSE, rows |-> LinuxCol[g]]
HostView(g) == [grp |-> g, static |-> TRUE, rows |-> HostCol[g]]

Init ==
  /\ born = {Root}
  /\ published = [p \in Procs |-> {}]
  /\ got = [f \in Frames |-> {}]

Begin(f) ==
  /\ got' = [got EXCEPT ![f] = {}]
  /\ UNCHANGED <<born, published>>

Consult(f, g) ==
  /\ got' = [got EXCEPT ![f] = @ \union
               {IF g \in published[ProcOf[f]] THEN HostView(g) ELSE LinuxView(g)}]
  /\ UNCHANGED <<born, published>>

Publish(p, g) ==
  /\ published' = [published EXCEPT ![p] = @ \union {g}]
  /\ UNCHANGED <<born, got>>

\* The child starts with what its parent had published.
Fork(p, q) ==
  /\ p \in born
  /\ q \notin born
  /\ born' = born \union {q}
  /\ published' = [published EXCEPT ![q] = published[p]]
  /\ UNCHANGED got

Next ==
  \/ \E f \in Frames : Begin(f)
  \/ \E f \in Frames, g \in Groups : Consult(f, g)
  \/ \E p \in Procs, g \in Groups : Publish(p, g)
  \/ \E p, q \in Procs : Fork(p, q)

Spec == Init /\ [][Next]_vars

==============================================================================
