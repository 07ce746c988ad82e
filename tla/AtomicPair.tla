------------------------------ MODULE AtomicPair -----------------------------
(***************************************************************************)
(* What socketpair promises a program, with none of the calls it is built  *)
(* of: in one instant it gives two descriptors that were not open, the     *)
(* ends of one connection nobody else has, or it fails and nothing has     *)
(* changed.  The rest of the program opens and closes files of its own.    *)
(* SocketPair is shown to implement this.                                  *)
(***************************************************************************)

CONSTANTS
  Callers,    \* threads that call socketpair
  Fds,        \* the descriptor numbers of the process
  Unset       \* what the caller's two ints held before the call

VARIABLES
  files,      \* the numbers the rest of the program has open
  ends,       \* the ends of pairs that are open: a function from numbers
  ask,        \* the SOCK_* bits each caller asks with
  sv,         \* its two ints
  answer      \* "idle", "waiting", "given", or the error socketpair failed with

vars == <<files, ends, ask, sv, answer>>

End(c) ==
  [conn |-> c, nodelay |-> TRUE, nonblock |-> ask[c].nonblock, cloexec |-> ask[c].cloexec]

Unused == Fds \ (files \union DOMAIN ends)

Init ==
  /\ files = {}
  /\ ends = [n \in {} |-> {}]
  /\ ask = [c \in Callers |-> [nonblock |-> FALSE, cloexec |-> FALSE]]
  /\ sv = [c \in Callers |-> <<Unset, Unset>>]
  /\ answer = [c \in Callers |-> "idle"]

\* Null ints are an error at once.
Ask(c) ==
  /\ answer[c] = "idle"
  /\ \E a \in [nonblock : BOOLEAN, cloexec : BOOLEAN] : ask' = [ask EXCEPT ![c] = a]
  /\ \E r \in {"waiting", "EFAULT"} : answer' = [answer EXCEPT ![c] = r]
  /\ UNCHANGED <<files, ends, sv>>

Give(c) ==
  /\ answer[c] = "waiting"
  /\ \E m, n \in Unused :
       /\ m # n
       /\ sv' = [sv EXCEPT ![c] = <<m, n>>]
       /\ ends' = [k \in DOMAIN ends \union {m, n} |-> IF k \in {m, n} THEN End(c) ELSE ends[k]]
  /\ answer' = [answer EXCEPT ![c] = "given"]
  /\ UNCHANGED <<files, ask>>

Fail(c) ==
  /\ answer[c] = "waiting"
  /\ answer' = [answer EXCEPT ![c] = "setup"]
  /\ UNCHANGED <<files, ends, ask, sv>>

\* The program is through with the pair, or with the error.
Finish(c) ==
  /\ answer[c] \in {"given", "EFAULT", "setup"}
  /\ ends' = [k \in DOMAIN ends \ {sv[c][1], sv[c][2]} |-> ends[k]]
  /\ ask' = [ask EXCEPT ![c] = [nonblock |-> FALSE, cloexec |-> FALSE]]
  /\ sv' = [sv EXCEPT ![c] = <<Unset, Unset>>]
  /\ answer' = [answer EXCEPT ![c] = "idle"]
  /\ UNCHANGED files

OpenFile(n) ==
  /\ n \in Unused
  /\ files' = files \union {n}
  /\ UNCHANGED <<ends, ask, sv, answer>>

CloseFile(n) ==
  /\ n \in files
  /\ files' = files \ {n}
  /\ UNCHANGED <<ends, ask, sv, answer>>

Next ==
  \/ \E c \in Callers : Ask(c) \/ Give(c) \/ Fail(c) \/ Finish(c)
  \/ \E n \in Fds : OpenFile(n) \/ CloseFile(n)

Spec == Init /\ [][Next]_vars

==============================================================================
