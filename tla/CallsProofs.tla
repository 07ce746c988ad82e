----------------------------- MODULE CallsProofs -----------------------------
(***************************************************************************)
(* Proofs about Calls, for any tables, any control messages and any number *)
(* of signals: the program finds each error translated once and as one     *)
(* that std knows, no call but a failing one touches errno, control        *)
(* messages cross with all the descriptors they carry, and poll's events   *)
(* come back as they were.                                                 *)
(***************************************************************************)
EXTENDS Calls, FoldProofs, FiniteSetTheorems

\* What errno is to frame f: a handler over the thread has put it aside.
Err(f) == IF f = "handler" \/ pc["handler"] = "away" THEN errno ELSE saved

\* Where frame f stands once its call has come back.
EndOf(f) == IF f = "thread" THEN "idle" ELSE "leave"

Linux(n) == ErrnoToLinux(Tables[host], n)

IsOnFrames(fun) == fun = [f \in Frames |-> fun[f]]

Shape ==
  /\ pc \in [Frames -> Labels] /\ pc["thread"] \notin {"away", "leave"}
  /\ IsOnFrames(kind) /\ IsOnFrames(res) /\ IsOnFrames(code)
  /\ IsOnFrames(hosterr) /\ IsOnFrames(read) /\ IsOnFrames(before)

\* The number of a failed call, from where it fails to where the program finds
\* it: untranslated up to fix_errno, and in read between its two steps.
OneTranslation(f) ==
  /\ pc["handler"] \in {"away", "idle"} => res["handler"] = "ok"
  /\ pc[f] \in {"back", "fix", "write"} => res[f] # "refused"
  /\ pc[f] = "back" /\ res[f] = "failed" =>
       (IF kind[f] = "number" THEN code[f] ELSE Err(f)) = hosterr[f]
  /\ pc[f] \in {"fix", "write"} => kind[f] # "number"
  /\ pc[f] = "fix" /\ res[f] = "failed" => Err(f) = hosterr[f]
  /\ pc[f] = "write" /\ res[f] = "failed" => read[f] = hosterr[f]
  /\ pc[f] = EndOf(f) /\ res[f] = "refused" => Err(f) = hosterr[f]
  /\ pc[f] = EndOf(f) /\ res[f] = "failed" =>
       (IF kind[f] = "number" THEN code[f] ELSE Err(f)) = Linux(hosterr[f])

\* errno is as the call found it, until one fails; a directory's end goes through
\* fix_errno with a 0.
Untouched(f) ==
  /\ pc[f] = "real" => Err(f) = before[f]
  /\ pc[f] = "back" /\ (res[f] # "failed" \/ kind[f] = "number") => Err(f) = before[f]
  /\ pc[f] = "fix" /\ res[f] # "failed" => Err(f) = before[f]
  /\ pc[f] = "write" /\ res[f] # "failed" => Err(f) = before[f] /\ read[f] = before[f]
  /\ pc[f] \in {"fix", "write"} => res[f] \in {"failed", "unset"}
  /\ pc[f] = "back" => res[f] \in {"failed", "unset", "ok"}
  /\ pc[f] \in {"real", "back", "fix", "write"} /\ kind[f] = "readdir" => before[f] = 0
  /\ pc[f] \in {"back", "fix", "write"} /\ res[f] = "unset" => kind[f] = "readdir"
  /\ pc[f] = EndOf(f) /\ (res[f] \in {"ok", "unset"} \/ kind[f] = "number") => Err(f) = before[f]

IInv == Shape /\ \A f \in Frames : OneTranslation(f) /\ (~Stale => Untouched(f))

-------------------------------------------------------------------------------

\* 0 is "no error" on every host (xlate.rs:148).
LEMMA ZeroIsNoError == \A t : ErrnoToLinux(t, 0) = 0
BY DEF ErrnoToLinux

LEMMA InitInv == Init => IInv
BY DEF Init, IInv, Shape, IsOnFrames, Frames, Labels, OneTranslation, Untouched, Err, EndOf

USE DEF Frames

\* A call begins in one of the frames.
LEMMA BeginInv ==
  ASSUME IInv, NEW f \in Frames, Idle(f), NEW k, NEW STATE e, Begin(f, k, e),
         k = "readdir" => e = 0
  PROVE  IInv'
<1>1. Shape'
  BY DEF IInv, Shape, IsOnFrames, Labels, Begin, Idle, Runs, Goto
<1>2. ASSUME NEW g \in Frames
      PROVE  OneTranslation(g)'
  BY DEF IInv, Shape, IsOnFrames, Labels, OneTranslation, Err, EndOf, Linux, Begin, Idle, Runs, Goto
<1>3. ASSUME NEW g \in Frames, ~Stale
      PROVE  Untouched(g)'
  BY <1>3, ZenonT(60) DEF IInv, Shape, IsOnFrames, Labels, Untouched, Err, EndOf, Begin, Idle, Runs, Goto
<1> QED
  BY <1>1, <1>2, <1>3 DEF IInv

\* A wrapper refuses; only the thread's do.
LEMMA RefuseInv ==
  ASSUME IInv, Idle("thread"), NEW STATE e, Refuse(e), NEW k, k # "number",
         kind' = [kind EXCEPT !["thread"] = k]
  PROVE  IInv'
<1>1. Shape'
  BY DEF IInv, Shape, IsOnFrames, Labels, Refuse, Idle, Runs
<1>2. ASSUME NEW g \in Frames
      PROVE  OneTranslation(g)'
  BY DEF IInv, Shape, IsOnFrames, Labels, OneTranslation, Err, EndOf, Linux, Refuse, Idle, Runs
<1>3. ASSUME NEW g \in Frames, ~Stale
      PROVE  Untouched(g)'
  BY <1>3 DEF IInv, Shape, IsOnFrames, Labels, Untouched, Err, EndOf, Refuse, Idle, Runs
<1> QED
  BY <1>1, <1>2, <1>3 DEF IInv

\* The host gives its number, in errno or as the result.
LEMMA RealFailsInv ==
  ASSUME IInv, NEW f \in Frames, RealFails(f)
  PROVE  IInv'
<1>0. PICK n :
        /\ hosterr' = [hosterr EXCEPT ![f] = n]
        /\ \/ kind[f] = "number" /\ code' = [code EXCEPT ![f] = n] /\ errno' = errno
           \/ kind[f] # "number" /\ errno' = n /\ code' = code
  BY DEF RealFails
<1>a. /\ pc[f] = "real" /\ (f = "thread" => pc["handler"] = "away")
      /\ pc' = [pc EXCEPT ![f] = "back"] /\ res' = [res EXCEPT ![f] = "failed"]
      /\ UNCHANGED <<host, kind, read, before, saved>>
  BY DEF RealFails, At, Runs, Goto
<1>1. Shape'
  BY <1>0, <1>a DEF IInv, Shape, IsOnFrames, Labels
<1>2. ASSUME NEW g \in Frames
      PROVE  OneTranslation(g)'
  BY <1>0, <1>a, ZenonT(60) DEF IInv, Shape, IsOnFrames, Labels, OneTranslation, Err, EndOf, Linux
<1>3. ASSUME NEW g \in Frames, ~Stale
      PROVE  Untouched(g)'
  <2>1. CASE kind[f] = "number"
    <3>1. errno' = errno
      BY <1>0, <2>1
    <3> QED
      BY <3>1, <1>a, <1>3, <2>1 DEF IInv, Shape, IsOnFrames, Labels, Untouched, Err, EndOf
  <2>2. CASE kind[f] # "number" /\ g = f
    BY <1>a, <1>3, <2>2 DEF IInv, Shape, IsOnFrames, Labels, Untouched, EndOf
  <2>3. CASE kind[f] # "number" /\ g # f
    BY <1>a, <1>3, <2>3 DEF IInv, Shape, IsOnFrames, Labels, OneTranslation, Untouched, Err, EndOf
  <2> QED
    BY <2>1, <2>2, <2>3
<1> QED
  BY <1>1, <1>2, <1>3 DEF IInv

\* A directory ends, or errno is left alone.
LEMMA RealLeavesErrnoInv ==
  ASSUME IInv, NEW f \in Frames, RealLeavesErrno(f)
  PROVE  IInv'
<1>1. Shape'
  BY DEF IInv, Shape, IsOnFrames, Labels, RealLeavesErrno, At, Runs, Goto, errs
<1>2. ASSUME NEW g \in Frames
      PROVE  OneTranslation(g)'
  BY DEF IInv, Shape, IsOnFrames, Labels, OneTranslation, Err, EndOf, Linux, RealLeavesErrno, At, Runs, Goto, errs
<1>3. ASSUME NEW g \in Frames, ~Stale
      PROVE  Untouched(g)'
  BY <1>3 DEF IInv, Shape, IsOnFrames, Labels, Untouched, Err, EndOf, Linux, RealLeavesErrno, At, Runs, Goto, errs
<1> QED
  BY <1>1, <1>2, <1>3 DEF IInv

\* The real function succeeds.
LEMMA RealSucceedsInv ==
  ASSUME IInv, NEW f \in Frames, RealSucceeds(f)
  PROVE  IInv'
<1>1. Shape'
  BY DEF IInv, Shape, IsOnFrames, Labels, RealSucceeds, At, Runs, Goto, errs
<1>2. ASSUME NEW g \in Frames
      PROVE  OneTranslation(g)'
  BY DEF IInv, Shape, IsOnFrames, Labels, OneTranslation, Err, EndOf, Linux, RealSucceeds, At, Runs, Goto, errs
<1>3. ASSUME NEW g \in Frames, ~Stale
      PROVE  Untouched(g)'
  BY <1>3 DEF IInv, Shape, IsOnFrames, Labels, Untouched, Err, EndOf, Linux, RealSucceeds, At, Runs, Goto, errs
<1> QED
  BY <1>1, <1>2, <1>3 DEF IInv

\* poll returns.
LEMMA RealPollInv ==
  ASSUME IInv, RealPoll
  PROVE  IInv'
<1>1. Shape'
  BY DEF IInv, Shape, IsOnFrames, Labels, RealPoll, At, Runs, Goto, errs
<1>2. ASSUME NEW g \in Frames
      PROVE  OneTranslation(g)'
  BY DEF IInv, Shape, IsOnFrames, Labels, OneTranslation, Err, EndOf, Linux, RealPoll, At, Runs, Goto, errs
<1>3. ASSUME NEW g \in Frames, ~Stale
      PROVE  Untouched(g)'
  BY <1>3 DEF IInv, Shape, IsOnFrames, Labels, Untouched, Err, EndOf, Linux, RealPoll, At, Runs, Goto, errs
<1> QED
  BY <1>1, <1>2, <1>3 DEF IInv

\* recvmsg returns.
LEMMA RealRecvmsgInv ==
  ASSUME IInv, RealRecvmsg
  PROVE  IInv'
<1>1. Shape'
  BY DEF IInv, Shape, IsOnFrames, Labels, RealRecvmsg, At, Runs, Goto, errs
<1>2. ASSUME NEW g \in Frames
      PROVE  OneTranslation(g)'
  BY DEF IInv, Shape, IsOnFrames, Labels, OneTranslation, Err, EndOf, Linux, RealRecvmsg, At, Runs, Goto, errs
<1>3. ASSUME NEW g \in Frames, ~Stale
      PROVE  Untouched(g)'
  BY <1>3 DEF IInv, Shape, IsOnFrames, Labels, Untouched, Err, EndOf, Linux, RealRecvmsg, At, Runs, Goto, errs
<1> QED
  BY <1>1, <1>2, <1>3 DEF IInv

\* A result in errno goes to fix_errno, a number is translated on the spot.
LEMMA BackInv ==
  ASSUME IInv, NEW f \in Frames, Back(f)
  PROVE  IInv'
<1>0. \/ AsksForFix(f) /\ pc' = [pc EXCEPT ![f] = "fix"]
      \/ ~AsksForFix(f) /\ pc' = [pc EXCEPT ![f] = EndOf(f)]
  BY DEF Back, Return, Goto, EndOf
<1>a. /\ pc[f] = "back" /\ (f = "thread" => pc["handler"] = "away")
      /\ code' = [code EXCEPT ![f] = IF kind[f] = "number" THEN Linux(code[f]) ELSE code[f]]
      /\ UNCHANGED <<host, kind, res, errno, hosterr, read, before, saved>>
  BY DEF Back, CodeBack, At, Runs, Linux
<1>1. Shape'
  BY <1>0, <1>a, ZenonT(60) DEF IInv, Shape, IsOnFrames, Labels, EndOf
<1>2. ASSUME NEW g \in Frames
      PROVE  OneTranslation(g)'
  BY <1>0, <1>a DEF IInv, Shape, IsOnFrames, Labels, OneTranslation, Err, EndOf, Linux, AsksForFix
<1>3. ASSUME NEW g \in Frames, ~Stale
      PROVE  Untouched(g)'
  BY <1>0, <1>a, <1>3 DEF IInv, Shape, IsOnFrames, Labels, Untouched, Err, EndOf, AsksForFix
<1> QED
  BY <1>1, <1>2, <1>3 DEF IInv

\* fix_errno reads.
LEMMA FixReadInv ==
  ASSUME IInv, NEW f \in Frames, FixRead(f)
  PROVE  IInv'
<1>1. Shape'
  BY DEF IInv, Shape, IsOnFrames, Labels, FixRead, At, Runs, Goto
<1>2. ASSUME NEW g \in Frames
      PROVE  OneTranslation(g)'
  BY DEF IInv, Shape, IsOnFrames, Labels, OneTranslation, Err, EndOf, Linux, FixRead, At, Runs, Goto
<1>3. ASSUME NEW g \in Frames, ~Stale
      PROVE  Untouched(g)'
  BY <1>3 DEF IInv, Shape, IsOnFrames, Labels, Untouched, Err, EndOf, Linux, FixRead, At, Runs, Goto
<1> QED
  BY <1>1, <1>2, <1>3 DEF IInv

\* fix_errno writes, the 0 of a directory's end included.
LEMMA FixWriteInv ==
  ASSUME IInv, NEW f \in Frames, FixWrite(f)
  PROVE  IInv'
<1>a. /\ pc[f] = "write" /\ (f = "thread" => pc["handler"] = "away")
      /\ pc' = [pc EXCEPT ![f] = EndOf(f)]
      /\ errno' = Linux(read[f]) /\ read' = [read EXCEPT ![f] = 0]
      /\ UNCHANGED <<host, kind, res, code, hosterr, before, saved>>
  BY DEF FixWrite, At, Runs, Return, Goto, EndOf, Linux
<1>1. Shape'
  BY <1>a DEF IInv, Shape, IsOnFrames, Labels, EndOf
<1>2. ASSUME NEW g \in Frames
      PROVE  OneTranslation(g)'
  BY <1>a DEF IInv, Shape, IsOnFrames, Labels, OneTranslation, Err, EndOf, Linux
<1>3. ASSUME NEW g \in Frames, ~Stale
      PROVE  Untouched(g)'
  <2>1. res[f] = "unset" => errno' = before[f]
    BY <1>a, <1>3, ZeroIsNoError DEF IInv, Untouched, Linux, EndOf
  <2>2. kind[f] # "number" /\ res[f] \in {"failed", "unset"}
    BY <1>a, <1>3 DEF IInv, Untouched, OneTranslation
  <2> QED
    BY <1>a, <1>3, <2>1, <2>2 DEF IInv, Shape, IsOnFrames, Labels, Untouched, Err, EndOf
<1> QED
  BY <1>1, <1>2, <1>3 DEF IInv

\* A handler starts over the thread.
LEMMA DeliverInv ==
  ASSUME IInv, Deliver
  PROVE  IInv'
<1>1. Shape'
  BY DEF IInv, Shape, IsOnFrames, Labels, Deliver, Goto, errs
<1>2. ASSUME NEW g \in Frames
      PROVE  OneTranslation(g)'
  BY DEF IInv, Shape, IsOnFrames, Labels, OneTranslation, Err, EndOf, Linux, Deliver, Goto, errs
<1>3. ASSUME NEW g \in Frames, ~Stale
      PROVE  Untouched(g)'
  BY <1>3 DEF IInv, Shape, IsOnFrames, Labels, Untouched, Err, EndOf, Linux, Deliver, Goto, errs
<1> QED
  BY <1>1, <1>2, <1>3 DEF IInv

\* The handler ends, and errno is the thread's again.
LEMMA LeaveInv ==
  ASSUME IInv, Leave
  PROVE  IInv'
<1>1. Shape'
  BY DEF IInv, Shape, IsOnFrames, Labels, Leave, Forget, Goto
<1>2. ASSUME NEW g \in Frames
      PROVE  OneTranslation(g)'
  BY DEF IInv, Shape, IsOnFrames, Labels, OneTranslation, Err, EndOf, Linux, Leave, Forget, Goto
<1>3. ASSUME NEW g \in Frames, ~Stale
      PROVE  Untouched(g)'
  BY <1>3 DEF IInv, Shape, IsOnFrames, Labels, Untouched, Err, EndOf, Linux, Leave, Forget, Goto
<1> QED
  BY <1>1, <1>2, <1>3 DEF IInv

-------------------------------------------------------------------------------

\* errno is translated once, by the wrapper of the call that failed (shim.rs:88-90).
THEOREM InvHolds == Spec => []IInv
<1>1. IInv /\ [Next]_vars => IInv'
  <2> SUFFICES ASSUME IInv, [Next]_vars
               PROVE  IInv'
    OBVIOUS
  <2>1. CASE UNCHANGED vars
    BY <2>1 DEF vars, errs, IInv, Shape, IsOnFrames, OneTranslation, Untouched, Err, EndOf, Linux
  <2>2. ASSUME NEW f \in Frames, Call(f)
        PROVE  IInv'
    <3>1. PICK k : Begin(f, k, IF k = "readdir" THEN 0 ELSE errno)
      BY <2>2 DEF Call
    <3>2. Idle(f) /\ (k = "readdir" => (IF k = "readdir" THEN 0 ELSE errno) = 0)
      BY <2>2 DEF Call
    <3> QED
      BY <3>1, <3>2, BeginInv
  <2>3. CASE CallRefused
    <3>1. PICK e \in OwnErrors : Refuse(e)
      BY <2>3 DEF CallRefused
    <3> QED
      BY <2>3, <3>1, RefuseInv DEF CallRefused
  <2>4. CASE CallPoll
    BY <2>4, BeginInv DEF CallPoll
  <2>5. CASE CallSendmsg
    <3>1. \/ Begin("thread", "sendmsg", errno)
          \/ kind' = [kind EXCEPT !["thread"] = "sendmsg"] /\ Refuse(EINVAL_LINUX)
      BY <2>5 DEF CallSendmsg
    <3>2. Idle("thread")
      BY <2>5 DEF CallSendmsg
    <3> QED
      BY <3>1, <3>2, BeginInv, RefuseInv
  <2>6. CASE CallRecvmsg
    BY <2>6, BeginInv DEF CallRecvmsg
  <2> QED
    BY <2>1, <2>2, <2>3, <2>4, <2>5, <2>6, RealFailsInv, RealLeavesErrnoInv, RealSucceedsInv,
       RealPollInv, RealRecvmsgInv, BackInv, FixReadInv, FixWriteInv, DeliverInv, LeaveInv
    DEF Next
<1> QED
  BY InitInv, <1>1, PTL DEF Spec

\* Whatever the tables, the program finds the host's number translated once, for
\* handlers that arrive between any two steps of a call and of fix_errno
\* (shim.rs:88-95).
THEOREM ErrnoTranslatedOnceHolds == Spec => []ErrnoTranslatedOnce
<1>1. IInv => ErrnoTranslatedOnce
  BY DEF IInv, Shape, OneTranslation, ErrnoTranslatedOnce, Ended, Err, EndOf, Linux
<1> QED
  BY <1>1, InvHolds, PTL

\* If no call fails without setting errno but readdir at a directory's end, no
\* call but a failing one changes errno (shim.rs:94-95).
THEOREM ErrnoOnlyByFailureHolds == ~Stale => (Spec => []ErrnoOnlyByFailure)
<1> SUFFICES ASSUME ~Stale PROVE Spec => []ErrnoOnlyByFailure
  OBVIOUS
<1>1. IInv => ErrnoOnlyByFailure
  BY DEF IInv, Shape, Untouched, ErrnoOnlyByFailure, Ended, Err, EndOf
<1> QED
  BY <1>1, InvHolds, PTL

-------------------------------------------------------------------------------
(* errno_to_linux over its tables.                                            *)

\* A set of numbers has its least in it.
LEMMA MinInSet ==
  ASSUME NEW T \in SUBSET Nat, T # {}
  PROVE  Min(T) \in T
<1>1. \E m \in T : \A k \in T : m <= k
  BY LeastNumber
<1> QED
  BY <1>1 DEF Min

\* The first row of a column that holds v.
LEMMA FirstHolds ==
  ASSUME NEW col, DOMAIN col \in SUBSET Nat, NEW v, Holds(col, v) # {}
  PROVE  First(col, v) \in DOMAIN col /\ col[First(col, v)] = v
<1>1. Holds(col, v) \in SUBSET Nat
  BY DEF Holds
<1>2. First(col, v) \in Holds(col, v)
  BY <1>1, MinInSet DEF First
<1> QED
  BY <1>2 DEF Holds

\* Three groups are asked in turn.
LEMMA ChainOfThree ==
  ASSUME NEW a, NEW b, NEW c, NEW v
  PROVE  LET x == ToLinux(a, v)
             y == IF x = v THEN ToLinux(b, v) ELSE x
         IN  Chain(<<a, b, c>>, v) = IF y = v THEN ToLinux(c, v) ELSE y
<1> DEFINE groups == <<a, b, c>>
           D == {v, ToLinux(a, v), ToLinux(b, v), ToLinux(c, v)}
           ask(n, g) == IF n = v THEN ToLinux(g, v) ELSE n
           step == [k \in 1..3 |-> [n \in D |-> ask(n, groups[k])]]
           Is(iter) == iter = [s \in SUBSET (DOMAIN groups) |->
                                 IF s = {} THEN v ELSE ask(iter[s \ {Max(s)}], groups[Max(s)])]
           walk == CHOOSE iter : Is(iter)
<1>1. DOMAIN groups = 1..3 /\ groups[1] = a /\ groups[2] = b /\ groups[3] = c
  OBVIOUS
<1>2. Chain(groups, v) = walk[DOMAIN groups]
  BY DEF Chain, FoldLeft, MapThenFoldSet
<1> HIDE DEF groups
<1>3. \A k \in 1..3 : \A n \in D : ask(n, groups[k]) \in D
  <2>1. \A k \in 1..3 : k = 1 \/ k = 2 \/ k = 3
    OBVIOUS
  <2> QED
    BY <1>1, <2>1
<1> HIDE DEF D, ask
<1>4. v \in D
  BY DEF D
<1>5. step \in [1..3 -> [D -> D]]
  BY <1>3
<1>6. \A k \in 1..3 : \A n \in D : step[k][n] = ask(n, groups[k])
  OBVIOUS
<1> HIDE DEF step
<1>7. Is(walk)
  <2>1. PICK iter : Walked(iter, 3, D, v, step)
    BY <1>4, <1>5, WalkExists, Zenon
  <2>2. ASSUME NEW s \in SUBSET (1..3), s # {}
        PROVE  iter[s] = ask(iter[s \ {Max(s)}], groups[Max(s)])
    <3>1. Max(s) \in 1..3
      BY <2>2, LargestInRange
    <3>2. iter[s \ {Max(s)}] \in D
      BY <2>1 DEF Walked
    <3> QED
      BY <1>6, <2>1, <2>2, <3>1, <3>2 DEF Walked
  <2>3. Is(iter)
    BY <1>1, <2>1, <2>2 DEF Walked
  <2> HIDE DEF Is
  <2> QED
    BY <2>3
<1> HIDE DEF walk
<1>8. walk[{}] = v
  BY <1>7
<1>9. ASSUME NEW s \in SUBSET (1..3), s # {}, walk[s \ {Max(s)}] \in D
      PROVE  walk[s] = step[Max(s)][walk[s \ {Max(s)}]]
  <2>1. Max(s) \in 1..3
    BY <1>9, LargestInRange
  <2>2. walk[s] = ask(walk[s \ {Max(s)}], groups[Max(s)])
    BY <1>1, <1>7, <1>9
  <2> HIDE DEF Is
  <2> QED
    BY <1>6, <1>9, <2>1, <2>2
<1>10. PICK g : Row(g, 3, D, v, step, walk[1..3])
  <2> HIDE DEF Is
  <2> QED
    BY <1>4, <1>5, <1>8, <1>9, WalkedRow, Zenon
<1>11. \A k \in 1..3 : g[k] = ask(g[k - 1], groups[k])
  <2>1. \A k \in 1..3 : g[k - 1] \in D
    BY <1>10 DEF Row
  <2> QED
    BY <1>6, <1>10, <2>1 DEF Row
<1>12. g[0] = v /\ g[1] = ask(g[0], a) /\ g[2] = ask(g[1], b) /\ g[3] = ask(g[2], c)
  BY <1>1, <1>10, <1>11 DEF Row
<1>13. Chain(groups, v) = g[3]
  BY <1>1, <1>2, <1>10 DEF Row
<1> QED
  BY <1>12, <1>13 DEF ask, groups

\* A group of integers gives integers.
LEMMA ToLinuxInt ==
  ASSUME NEW g, IntGroup(g), NEW v \in Int
  PROVE  ToLinux(g, v) \in Int
<1>1. DOMAIN g.names \in SUBSET Nat
  BY LenProperties DEF IntGroup
<1>2. CASE Identity(g) \/ v \in {0, -1} \/ Holds(g.host, v) = {}
  BY <1>2 DEF ToLinux, EnumToLinux, IntGroup
<1>3. CASE ~Identity(g) /\ v \notin {0, -1} /\ Holds(g.host, v) # {}
  <2>1. First(g.host, v) \in DOMAIN g.names
    BY <1>1, <1>3, FirstHolds DEF IntGroup
  <2>2. ToLinux(g, v) = g.linux[First(g.host, v)]
    BY <1>3 DEF ToLinux, EnumToLinux, IntGroup
  <2> QED
    BY <2>1, <2>2 DEF IntGroup
<1> QED
  BY <1>2, <1>3

\* The row of the name that std prefers for v.
LEMMA PreferredRowIs ==
  ASSUME NEW t, ErrnoTables(t), NEW v, IsPreferred(t.errno, t.preferred, v)
  PROVE  LET i == PreferredRow(t.errno, t.preferred, v) IN
         /\ i \in DOMAIN t.errno.names /\ t.errno.host[i] = v
         /\ \E k \in DOMAIN t.preferred : t.preferred[k] = t.errno.names[i]
<1> DEFINE knows(k) == \E i \in DOMAIN t.errno.names : t.errno.names[i] = t.preferred[k] /\ t.errno.host[i] = v
           known == {k \in DOMAIN t.preferred : knows(k)}
           best == Min(known)
<1>1. DOMAIN t.errno.names \in SUBSET Nat /\ DOMAIN t.preferred \in SUBSET Nat
  BY LenProperties DEF ErrnoTables, IntGroup
<1>2. known # {}
  BY DEF IsPreferred
<1>3. best \in known
  <2>1. known \in SUBSET Nat
    BY <1>1
  <2> HIDE DEF known
  <2> QED
    BY <1>2, <2>1, MinInSet
<1>4. PICK i \in DOMAIN t.errno.names : t.errno.names[i] = t.preferred[best] /\ t.errno.host[i] = v
  BY <1>3
<1>5. best \in DOMAIN t.preferred
  BY <1>3
<1>6. PreferredRow(t.errno, t.preferred, v) = First(t.errno.names, t.preferred[best])
  BY DEF PreferredRow
<1> HIDE DEF best, known
<1>7. LET r == First(t.errno.names, t.preferred[best]) IN
      r \in DOMAIN t.errno.names /\ t.errno.names[r] = t.preferred[best]
  <2>1. Holds(t.errno.names, t.preferred[best]) # {}
    BY <1>4 DEF Holds
  <2> QED
    BY <1>1, <2>1, FirstHolds
<1>8. First(t.errno.names, t.preferred[best]) = i
  BY <1>4, <1>7 DEF ErrnoTables
<1> QED
  BY <1>4, <1>5, <1>6, <1>8

\* Every error number has one of Linux's.
LEMMA ErrnoToLinuxInt ==
  ASSUME NEW t, ErrnoTables(t), NEW v \in Int
  PROVE  ErrnoToLinux(t, v) \in Int
<1>1. CASE v = 0 \/ Identity(t.errno)
  BY <1>1 DEF ErrnoToLinux
<1>2. CASE v # 0 /\ ~Identity(t.errno) /\ IsPreferred(t.errno, t.preferred, v)
  <2>1. ErrnoToLinux(t, v) = t.errno.linux[PreferredRow(t.errno, t.preferred, v)]
    BY <1>2 DEF ErrnoToLinux
  <2>2. PreferredRow(t.errno, t.preferred, v) \in DOMAIN t.errno.names
    BY <1>2, PreferredRowIs
  <2> QED
    BY <2>1, <2>2 DEF ErrnoTables, IntGroup
<1>3. CASE v # 0 /\ ~Identity(t.errno) /\ ~IsPreferred(t.errno, t.preferred, v)
  <2>1. ErrnoToLinux(t, v) = Chain(<<t.errno, t.compat, t.junkerr>>, v)
    BY <1>3 DEF ErrnoToLinux
  <2>2. ToLinux(t.errno, v) \in Int /\ ToLinux(t.compat, v) \in Int /\ ToLinux(t.junkerr, v) \in Int
    BY ToLinuxInt DEF ErrnoTables
  <2> QED
    BY <2>1, <2>2, ChainOfThree
<1> QED
  BY <1>1, <1>2, <1>3

\* The number a program is told for a host's error is one of those that share it, and one
\* that std knows, if there is one.
LEMMA ErrnoToldIsStds ==
  ASSUME NEW t, ErrnoTables(t), NEW v \in ErrorsOf(t.errno)
  PROVE  LET names == {i \in DOMAIN t.errno.host : t.errno.host[i] = v}
             known == {i \in names : \E k \in DOMAIN t.preferred : t.preferred[k] = t.errno.names[i]}
         IN  \E i \in IF known = {} THEN names ELSE known : t.errno.linux[i] = ErrnoToLinux(t, v)
<1> DEFINE names == {i \in DOMAIN t.errno.host : t.errno.host[i] = v}
           known == {i \in names : \E k \in DOMAIN t.preferred : t.preferred[k] = t.errno.names[i]}
           may == IF known = {} THEN names ELSE known
<1>1. v \notin {0, -1} /\ names # {}
  BY DEF ErrorsOf
<1>2. DOMAIN t.errno.host = DOMAIN t.errno.names /\ DOMAIN t.errno.linux = DOMAIN t.errno.names
      /\ DOMAIN t.errno.host \in SUBSET Nat /\ t.errno.kind = "enum"
  BY LenProperties DEF ErrnoTables, IntGroup
<1>3. CASE Identity(t.errno)
  <2>1. ErrnoToLinux(t, v) = v
    BY <1>1, <1>3 DEF ErrnoToLinux
  <2>2. \A i \in names : t.errno.linux[i] = v
    BY <1>3 DEF Identity
  <2>3. \E i \in may : i \in names
    BY <1>1
  <2> QED
    BY <2>1, <2>2, <2>3
<1>4. CASE ~Identity(t.errno) /\ IsPreferred(t.errno, t.preferred, v)
  <2>1. ErrnoToLinux(t, v) = t.errno.linux[PreferredRow(t.errno, t.preferred, v)]
    BY <1>1, <1>4 DEF ErrnoToLinux
  <2>2. PreferredRow(t.errno, t.preferred, v) \in known
    BY <1>2, <1>4, PreferredRowIs
  <2> QED
    BY <2>1, <2>2
<1>5. CASE ~Identity(t.errno) /\ ~IsPreferred(t.errno, t.preferred, v)
  <2>1. known = {}
    BY <1>2, <1>5 DEF IsPreferred
  <2> DEFINE i == First(t.errno.host, v)
  <2>2. Holds(t.errno.host, v) # {}
    BY <1>1 DEF Holds
  <2>3. i \in names
    BY <1>2, <2>2, FirstHolds
  <2>4. ToLinux(t.errno, v) = t.errno.linux[i]
    BY <1>1, <1>2, <1>5, <2>2 DEF ToLinux, EnumToLinux
  <2>5. ErrnoToLinux(t, v) = Chain(<<t.errno, t.compat, t.junkerr>>, v)
    BY <1>1, <1>5 DEF ErrnoToLinux
  <2>6. Chain(<<t.errno, t.compat, t.junkerr>>, v) = ToLinux(t.errno, v)
    <3>1. ToLinux(t.errno, v) = v => ToLinux(t.compat, v) = v /\ ToLinux(t.junkerr, v) = v
      BY <1>5 DEF ErrnoTables
    <3> QED
      BY <3>1, ChainOfThree
  <2> HIDE DEF i
  <2> QED
    BY <2>1, <2>3, <2>4, <2>5, <2>6
<1> QED
  BY <1>3, <1>4, <1>5

-------------------------------------------------------------------------------
(* The variables' types, and the errors that a program is told of.            *)

\* The types that do not hang on what a buffer holds.
TypeInv ==
  /\ host \in Hosts
  /\ errno \in Int /\ saved \in Int
  /\ pc \in [Frames -> Labels] /\ pc["thread"] \notin {"away", "leave"}
  /\ kind \in [Frames -> Kinds]
  /\ res \in [Frames -> {"none", "ok", "failed", "unset", "refused"}]
  /\ code \in [Frames -> Int] /\ hosterr \in [Frames -> Int]
  /\ read \in [Frames -> Int] /\ before \in [Frames -> Int]
  /\ signals \in 0..MaxSignals
  /\ pollfd \in [asked : PollAsked \union {{}}, events : SUBSET AllBits, revents : SUBSET AllBits]

LEMMA TablesTyped ==
  ASSUME host \in Hosts
  PROVE  /\ ErrnoTables(Tables[host])
         /\ HostErrors \subseteq Int
         /\ \A n \in Int : ErrnoToLinux(Tables[host], n) \in Int
         /\ \A names : Bits(Poll, Poll.host, names) \subseteq AllBits
<1>1. ErrnoTables(Tables[host])
  BY TablesAssumption
<1>2. HostErrors \subseteq Int
  BY <1>1 DEF ErrnoTables, IntGroup, HostErrors, ErrorsOf
<1>3. \A n \in Int : ErrnoToLinux(Tables[host], n) \in Int
  BY <1>1, ErrnoToLinuxInt
<1>4. ASSUME NEW names
      PROVE  Bits(Poll, Poll.host, names) \subseteq AllBits
  BY TablesAssumption DEF Bits, BitsOf, NamedRows, Poll
<1> QED
  BY <1>1, <1>2, <1>3, <1>4

LEMMA TypeStep ==
  ASSUME TypeInv, [Next]_vars
  PROVE  TypeInv'
<1> USE DEF TypeInv, Labels, Kinds, PlainKinds, Goto
<1>0. /\ HostErrors \subseteq Int
      /\ \A n \in Int : ErrnoToLinux(Tables[host], n) \in Int
      /\ \A names : Bits(Poll, Poll.host, names) \subseteq AllBits
  BY TablesTyped
<1>1. CASE UNCHANGED vars
  BY <1>1 DEF vars, errs, io
<1>2. ASSUME NEW f \in Frames, Call(f)
      PROVE  TypeInv'
  BY <1>2 DEF Call, Begin, KindsOf, NoIO, NoPoll, AllBits, io, Idle
<1>3. CASE CallRefused
  BY <1>3 DEF CallRefused, OwnErrors, EFAULT_LINUX, EINVAL_LINUX, ENOPROTOOPT_LINUX, Refuse, NoIO, NoPoll
<1>4. CASE CallPoll
  <2>1. \A m : Bits16(m) \subseteq AllBits
    BY DEF Bits16, AllBits
  <2> QED
    BY <1>4, <2>1 DEF CallPoll, Begin
<1>5. CASE CallSendmsg
  <2>1. \/ Begin("thread", "sendmsg", errno)
        \/ kind' = [kind EXCEPT !["thread"] = "sendmsg"] /\ Refuse(EINVAL_LINUX)
    BY <1>5 DEF CallSendmsg
  <2>2. pollfd' = NoPoll
    BY <1>5 DEF CallSendmsg
  <2> QED
    BY <2>1, <2>2 DEF Begin, Refuse, EINVAL_LINUX, NoPoll
<1>6. CASE CallRecvmsg
  BY <1>6 DEF CallRecvmsg, Begin, NoPoll
<1>7. CASE RealPoll
  BY <1>0, <1>7 DEF RealPoll, errs
<1>8. CASE RealRecvmsg
  BY <1>8 DEF RealRecvmsg, errs
<1>9. ASSUME NEW f \in Frames, RealFails(f)
      PROVE  TypeInv'
  BY <1>0, <1>9 DEF RealFails, io
<1>10. ASSUME NEW f \in Frames, RealLeavesErrno(f) \/ RealSucceeds(f)
       PROVE  TypeInv'
  BY <1>10 DEF RealLeavesErrno, RealSucceeds, errs, io
<1>11. ASSUME NEW f \in Frames, Back(f)
       PROVE  TypeInv'
  <2>1. CodeBack(f) \in Int
    BY <1>0 DEF CodeBack
  <2>2. PollBack \in [asked : PollAsked \union {{}}, events : SUBSET AllBits, revents : SUBSET AllBits]
    <3>1. \A m : Bits16(m) \in SUBSET AllBits
      BY DEF Bits16, AllBits
    <3> QED
      BY <3>1 DEF PollBack
  <2> QED
    BY <1>11, <2>1, <2>2 DEF Back, Return
<1>12. ASSUME NEW f \in Frames, FixRead(f) \/ FixWrite(f)
       PROVE  TypeInv'
  BY <1>0, <1>12 DEF FixRead, FixWrite, Return, io
<1>13. CASE Deliver
  BY <1>13, BoundAssumption DEF Deliver, errs, io
<1>14. CASE Leave
  BY <1>14 DEF Leave, Forget, io
<1> QED
  BY <1>1, <1>2, <1>3, <1>4, <1>5, <1>6, <1>7, <1>8, <1>9, <1>10, <1>11, <1>12, <1>13, <1>14 DEF Next

\* A host's error is one of its errors, and a frame that has failed was told of it.
FailedInv == \A f \in Frames : res[f] = "failed" => hosterr[f] \in HostErrors

LEMMA FailedStep ==
  ASSUME TypeInv, FailedInv, [Next]_vars
  PROVE  FailedInv'
<1> USE DEF TypeInv, FailedInv
<1>0. HostErrors' = HostErrors \/ host' # host
  BY DEF HostErrors
<1>1. CASE UNCHANGED vars
  BY <1>0, <1>1 DEF vars, errs, io
<1>2. ASSUME NEW f \in Frames, Call(f)
      PROVE  FailedInv'
  BY <1>0, <1>2 DEF Call, Begin
<1>3. CASE CallRefused
  BY <1>0, <1>3 DEF CallRefused, Refuse
<1>4. CASE CallPoll \/ CallRecvmsg
  BY <1>0, <1>4 DEF CallPoll, CallRecvmsg, Begin
<1>5. CASE CallSendmsg
  <2>1. Begin("thread", "sendmsg", errno) \/ Refuse(EINVAL_LINUX)
    BY <1>5 DEF CallSendmsg
  <2> QED
    BY <1>0, <2>1 DEF Begin, Refuse
<1>6. CASE RealPoll \/ RealRecvmsg
  BY <1>0, <1>6 DEF RealPoll, RealRecvmsg, errs
<1>7. ASSUME NEW f \in Frames, RealFails(f)
      PROVE  FailedInv'
  BY <1>0, <1>7 DEF RealFails
<1>8. ASSUME NEW f \in Frames, RealLeavesErrno(f) \/ RealSucceeds(f)
      PROVE  FailedInv'
  BY <1>0, <1>8 DEF RealLeavesErrno, RealSucceeds, errs
<1>9. ASSUME NEW f \in Frames, Back(f) \/ FixRead(f) \/ FixWrite(f)
      PROVE  FailedInv'
  BY <1>0, <1>9 DEF Back, FixRead, FixWrite
<1>10. CASE Deliver \/ Leave
  BY <1>0, <1>10 DEF Deliver, Leave, Forget, errs
<1> QED
  BY <1>1, <1>2, <1>3, <1>4, <1>5, <1>6, <1>7, <1>8, <1>9, <1>10 DEF Next

-------------------------------------------------------------------------------
(* Bytes.                                                                     *)

LEMMA AlignBy4 ==
  ASSUME NEW n \in Nat
  PROVE  Align(n, 4) \in Nat /\ n <= Align(n, 4) /\ Align(n, 4) <= n + 3
BY DEF Align

LEMMA AlignBy8 ==
  ASSUME NEW n \in Nat
  PROVE  Align(n, 8) \in Nat /\ n <= Align(n, 8) /\ Align(n, 8) <= n + 7
BY DEF Align

\* A header is whole words of the layout it is of.
LEMMA AlignBehindHeader ==
  ASSUME NEW n \in Nat
  PROVE  Align(BsdHdr + n, 4) = BsdHdr + Align(n, 4) /\ Align(LinuxHdr + n, 8) = LinuxHdr + Align(n, 8)
BY DEF Align, BsdHdr, LinuxHdr

\* A message takes no more of XNU's buffer than of Linux's.
LEMMA XnuIsShorter ==
  ASSUME NEW n \in Nat
  PROVE  BsdHdr + Align(n, 4) <= LinuxHdr + n /\ BsdHdr + Align(n, 4) <= Align(LinuxHdr + n, 8)
BY AlignBy4, AlignBy8, AlignBehindHeader DEF BsdHdr, LinuxHdr

-------------------------------------------------------------------------------
(* The walk of xnu_to_linux.                                                  *)

XnuAcc ==
  [msgs : Seq(Message), out : Nat, off : Nat, cut : BOOLEAN, trunc : BOOLEAN, closed : SUBSET Nat]

LEMMA MessagePlaced ==
  ASSUME NEW m \in Message, NEW len \in Nat, NEW at \in Nat
  PROVE  LET r == Placed(m, len, at) IN
         r \in Message /\ r.type = m.type /\ r.len = len /\ r.fds = m.fds /\ r.at = at
BY DEF Message, Placed

XnuAccKeeping(acc, msgs, out, off) == [acc EXCEPT !.msgs = msgs, !.out = out, !.off = off]
XnuAccDropping(acc, closed, off) == [acc EXCEPT !.trunc = TRUE, !.closed = closed, !.off = off]

LEMMA XnuAccKept ==
  ASSUME NEW acc \in XnuAcc, NEW msgs \in Seq(Message), NEW out \in Nat, NEW off \in Nat
  PROVE  LET r == XnuAccKeeping(acc, msgs, out, off) IN
         /\ r \in XnuAcc /\ r.msgs = msgs /\ r.out = out /\ r.off = off
         /\ r.cut = acc.cut /\ r.trunc = acc.trunc /\ r.closed = acc.closed
BY DEF XnuAcc, XnuAccKeeping

LEMMA XnuAccDropped ==
  ASSUME NEW acc \in XnuAcc, NEW closed \in SUBSET Nat, NEW off \in Nat
  PROVE  LET r == XnuAccDropping(acc, closed, off) IN
         /\ r \in XnuAcc /\ r.msgs = acc.msgs /\ r.out = acc.out /\ r.off = off
         /\ r.cut = acc.cut /\ r.trunc = TRUE /\ r.closed = closed
BY DEF XnuAcc, XnuAccDropping

\* What becomes of a message, and of what has been written so far.
XnuWhole(acc, m, srclen) == m.at = acc.off /\ m.len \in BsdHdr..(srclen - acc.off)
XnuFits(acc, m, dstcap) ==
  m.type \in FromXnuTypes /\ LinuxHdr + (m.len - BsdHdr) <= dstcap - acc.out
XnuOver(acc, srclen) == acc.cut \/ acc.off + BsdHdr > srclen

XnuCuts(acc, r) ==
  /\ r.msgs = acc.msgs /\ r.out = acc.out /\ r.off = acc.off
  /\ r.cut = TRUE /\ r.trunc = TRUE /\ r.closed = acc.closed

XnuKeeps(acc, m, dstcap, r) ==
  LET len == LinuxHdr + (m.len - BsdHdr) IN
  /\ \E put \in Message :
       /\ put.type = m.type /\ put.fds = m.fds /\ put.len = len /\ put.at = acc.out
       /\ r.msgs = Append(acc.msgs, put)
  /\ r.out = acc.out + Smaller(Align(len, 8), dstcap - acc.out)
  /\ r.off = acc.off + Align(m.len, 4)
  /\ r.cut = acc.cut /\ r.trunc = acc.trunc /\ r.closed = acc.closed

XnuDrops(acc, m, r) ==
  /\ r.msgs = acc.msgs /\ r.out = acc.out /\ r.off = acc.off + Align(m.len, 4)
  /\ r.cut = acc.cut /\ r.trunc = TRUE /\ r.closed = acc.closed \union DroppedFds(m)

LEMMA XnuMessageStep ==
  ASSUME NEW acc \in XnuAcc, NEW m \in Message, NEW srclen \in Nat, NEW dstcap \in Nat
  PROVE  LET r == XnuMessage(acc, m, srclen, dstcap) IN
         /\ r \in XnuAcc
         /\ XnuOver(acc, srclen) => r = acc
         /\ ~XnuOver(acc, srclen) /\ ~XnuWhole(acc, m, srclen) => XnuCuts(acc, r)
         /\ ~XnuOver(acc, srclen) /\ XnuWhole(acc, m, srclen) =>
              IF XnuFits(acc, m, dstcap) THEN XnuKeeps(acc, m, dstcap, r) ELSE XnuDrops(acc, m, r)
<1> DEFINE n == m.len - BsdHdr
           left == dstcap - acc.out
           put == Placed(m, LinuxHdr + n, acc.out)
           r == XnuMessage(acc, m, srclen, dstcap)
<1>1. /\ m.type \in STRING /\ m.len \in Nat /\ m.fds \in Seq(Nat) /\ m.at \in Nat
      /\ acc.msgs \in Seq(Message) /\ acc.out \in Nat /\ acc.off \in Nat
      /\ acc.cut \in BOOLEAN /\ acc.trunc \in BOOLEAN /\ acc.closed \in SUBSET Nat
  BY DEF Message, XnuAcc
<1>2. BsdAlign(m.len) \in Nat /\ BsdAlign(m.len) = Align(m.len, 4)
  BY <1>1, AlignBy4 DEF BsdAlign
<1>3. CASE XnuOver(acc, srclen)
  BY <1>3 DEF XnuMessage, XnuOver
<1>4. CASE ~XnuOver(acc, srclen) /\ ~XnuWhole(acc, m, srclen)
  <2>1. r = [acc EXCEPT !.cut = TRUE, !.trunc = TRUE]
    BY <1>4 DEF XnuMessage, XnuOver, XnuWhole
  <2>2. r \in XnuAcc /\ XnuCuts(acc, r)
    BY <2>1 DEF XnuAcc, XnuCuts
  <2> QED
    BY <1>4, <2>2
<1>5. CASE ~XnuOver(acc, srclen) /\ XnuWhole(acc, m, srclen) /\ XnuFits(acc, m, dstcap)
  <2>1. n \in Nat /\ left \in Nat /\ LinuxHdr + n \in Nat
    BY <1>1, <1>5, SMTT(30) DEF BsdHdr, LinuxHdr, XnuWhole, XnuFits
  <2>2. Room(n, left) = Smaller(Align(LinuxHdr + n, 8), left)
    BY <2>1, AlignBehindHeader DEF Room, LinuxAlign
  <2>3. Room(n, left) \in Nat
    BY <2>1, <2>2, AlignBy8 DEF Smaller
  <2>4. put \in Message /\ put.type = m.type /\ put.len = LinuxHdr + n /\ put.fds = m.fds /\ put.at = acc.out
    <3>1. acc.out \in Nat
      BY <1>1
    <3>2. PICK len \in Nat : len = LinuxHdr + n
      BY <2>1
    <3>3. LET p == Placed(m, len, acc.out) IN
          p \in Message /\ p.type = m.type /\ p.len = len /\ p.fds = m.fds /\ p.at = acc.out
      BY <3>1, MessagePlaced, ZenonT(60)
    <3> HIDE DEF n
    <3> QED
      BY <3>2, <3>3
  <2>5. r = XnuAccKeeping(acc, Append(acc.msgs, put), acc.out + Room(n, left), acc.off + BsdAlign(m.len))
    BY <1>5 DEF XnuMessage, XnuOver, XnuWhole, XnuFits, XnuAccKeeping
  <2> HIDE DEF n, left, put, r
  <2>6. Append(acc.msgs, put) \in Seq(Message) /\ acc.out + Room(n, left) \in Nat /\ acc.off + BsdAlign(m.len) \in Nat
    BY <1>1, <1>2, <2>3, <2>4, AppendProperties
  <2>7. /\ r \in XnuAcc /\ r.msgs = Append(acc.msgs, put) /\ r.out = acc.out + Room(n, left)
        /\ r.off = acc.off + BsdAlign(m.len)
        /\ r.cut = acc.cut /\ r.trunc = acc.trunc /\ r.closed = acc.closed
    <3>1. PICK msgs \in Seq(Message), out \in Nat, off \in Nat :
            msgs = Append(acc.msgs, put) /\ out = acc.out + Room(n, left) /\ off = acc.off + BsdAlign(m.len)
      BY <2>6
    <3>2. r = XnuAccKeeping(acc, msgs, out, off)
      BY <2>5, <3>1
    <3> DEFINE q == XnuAccKeeping(acc, msgs, out, off)
    <3>3. /\ q \in XnuAcc /\ q.msgs = msgs /\ q.out = out /\ q.off = off
          /\ q.cut = acc.cut /\ q.trunc = acc.trunc /\ q.closed = acc.closed
      BY XnuAccKept
    <3> HIDE DEF q
    <3> QED
      BY <3>1, <3>2, <3>3 DEF q
  <2>8. XnuKeeps(acc, m, dstcap, r)
    BY <1>2, <2>2, <2>4, <2>7 DEF XnuKeeps, n, left
  <2> QED
    BY <1>5, <2>7, <2>8 DEF r
<1>6. CASE ~XnuOver(acc, srclen) /\ XnuWhole(acc, m, srclen) /\ ~XnuFits(acc, m, dstcap)
  <2>1. acc.closed \union DroppedFds(m) \in SUBSET Nat /\ acc.off + BsdAlign(m.len) \in Nat
    BY <1>1, <1>2 DEF DroppedFds, Files
  <2>2. r = XnuAccDropping(acc, acc.closed \union DroppedFds(m), acc.off + BsdAlign(m.len))
    BY <1>6 DEF XnuMessage, XnuOver, XnuWhole, XnuFits, XnuAccDropping
  <2> HIDE DEF r
  <2>3. PICK closed \in SUBSET Nat, off \in Nat :
          closed = acc.closed \union DroppedFds(m) /\ off = acc.off + BsdAlign(m.len)
    BY <2>1
  <2>4. r = XnuAccDropping(acc, closed, off)
    BY <2>2, <2>3
  <2>5. r \in XnuAcc /\ XnuDrops(acc, m, r)
    <3> DEFINE q == XnuAccDropping(acc, closed, off)
    <3>1. /\ q \in XnuAcc /\ q.msgs = acc.msgs /\ q.out = acc.out /\ q.off = off
          /\ q.cut = acc.cut /\ q.trunc = TRUE /\ q.closed = closed
      BY XnuAccDropped
    <3> HIDE DEF q
    <3> QED
      BY <1>2, <2>3, <2>4, <3>1 DEF XnuDrops, q
  <2> QED
    BY <1>6, <2>5 DEF r
<1> QED
  BY <1>3, <1>4, <1>5, <1>6

\* The walk of xnu_to_linux, message by message.
XnuStart(srclen) ==
  [msgs |-> <<>>, out |-> 0, off |-> 0, cut |-> FALSE,
   trunc |-> srclen \in 1..(BsdHdr - 1), closed |-> {}]

XnuRun(g, src, srclen, dstcap) ==
  /\ g \in [0..Len(src) -> XnuAcc]
  /\ g[0] = XnuStart(srclen)
  /\ \A k \in 1..Len(src) : g[k] = XnuMessage(g[k - 1], src[k], srclen, dstcap)
  /\ XnuToLinux(src, srclen, dstcap) =
       [msgs |-> g[Len(src)].msgs, len |-> g[Len(src)].out,
        trunc |-> g[Len(src)].trunc, closed |-> g[Len(src)].closed]

LEMMA XnuWalk ==
  ASSUME NEW src \in Seq(Message), NEW srclen \in Nat, NEW dstcap \in Nat
  PROVE  \E g : XnuRun(g, src, srclen, dstcap)
<1>0. PICK n \in Nat : n = Len(src)
  BY LenProperties
<1> DEFINE start == XnuStart(srclen)
           step == [k \in 1..n |-> [acc \in XnuAcc |-> XnuMessage(acc, src[k], srclen, dstcap)]]
           Is(iter) == iter = [s \in SUBSET (DOMAIN src) |->
                                 IF s = {} THEN start
                                 ELSE XnuMessage(iter[s \ {Max(s)}], src[Max(s)], srclen, dstcap)]
           walk == CHOOSE iter : Is(iter)
<1>1. n \in Nat /\ DOMAIN src = 1..n /\ \A k \in 1..n : src[k] \in Message
  BY <1>0, LenProperties
<1>2. start \in XnuAcc
  <2>1. <<>> \in Seq(Message)
    BY EmptySeq
  <2> QED
    BY <2>1 DEF XnuStart, XnuAcc
<1>3. \A k \in 1..n : \A acc \in XnuAcc : XnuMessage(acc, src[k], srclen, dstcap) \in XnuAcc
  BY <1>1, XnuMessageStep
<1>4. step \in [1..n -> [XnuAcc -> XnuAcc]]
  BY <1>3
<1>5. \A k \in 1..n : \A acc \in XnuAcc : step[k][acc] = XnuMessage(acc, src[k], srclen, dstcap)
  BY <1>1
<1>6. XnuToLinux(src, srclen, dstcap) =
        [msgs |-> walk[DOMAIN src].msgs, len |-> walk[DOMAIN src].out,
         trunc |-> walk[DOMAIN src].trunc, closed |-> walk[DOMAIN src].closed]
  BY DEF XnuToLinux, FoldLeft, MapThenFoldSet, XnuStart
<1> HIDE DEF step, start
<1>7. Is(walk)
  <2>1. PICK iter : Walked(iter, n, XnuAcc, start, step)
    BY <1>1, <1>2, <1>4, WalkExists, Zenon
  <2>2. ASSUME NEW s \in SUBSET (1..n), s # {}
        PROVE  iter[s] = XnuMessage(iter[s \ {Max(s)}], src[Max(s)], srclen, dstcap)
    <3>1. Max(s) \in 1..n
      BY <2>2, LargestInRange, <1>1
    <3>2. iter[s \ {Max(s)}] \in XnuAcc
      BY <2>1 DEF Walked
    <3> QED
      BY <1>5, <2>1, <2>2, <3>1, <3>2 DEF Walked
  <2>3. Is(iter)
    BY <1>1, <2>1, <2>2 DEF Walked
  <2> HIDE DEF Is
  <2> QED
    BY <2>3
<1> HIDE DEF walk
<1>8. walk[{}] = start
  BY <1>7
<1>9. ASSUME NEW s \in SUBSET (1..n), s # {}, walk[s \ {Max(s)}] \in XnuAcc
      PROVE  walk[s] = step[Max(s)][walk[s \ {Max(s)}]]
  <2>1. Max(s) \in 1..n
    BY <1>9, LargestInRange, <1>1
  <2>2. walk[s] = XnuMessage(walk[s \ {Max(s)}], src[Max(s)], srclen, dstcap)
    BY <1>1, <1>7, <1>9
  <2> HIDE DEF Is
  <2> QED
    BY <1>5, <1>9, <2>1, <2>2
<1>10. PICK g : Row(g, n, XnuAcc, start, step, walk[1..n])
  <2> HIDE DEF Is
  <2> QED
    BY <1>1, <1>2, <1>4, <1>8, <1>9, WalkedRow, Zenon
<1>11. \A k \in 1..n : g[k - 1] \in XnuAcc
  BY <1>1, <1>10 DEF Row
<1>12. \A k \in 1..n : g[k] = XnuMessage(g[k - 1], src[k], srclen, dstcap)
  BY <1>5, <1>10, <1>11 DEF Row
<1>13. XnuRun(g, src, srclen, dstcap)
  BY <1>0, <1>1, <1>6, <1>10, <1>12 DEF XnuRun, Row, start
<1> QED
  BY <1>13

-------------------------------------------------------------------------------
(* Lists of messages, and one more behind them.                               *)

\* The message ends within the first len bytes.
EndsIn(m, len) == m.at + m.len <= len

\* A message put says what another does, behind another header.
Says(put, hdr, m, other) == put.type = m.type /\ put.fds = m.fds /\ put.len - hdr = m.len - other

LEMMA Appended ==
  ASSUME NEW msgs \in Seq(Message), NEW put \in Message
  PROVE  LET more == Append(msgs, put) IN
         /\ more \in Seq(Message) /\ Len(more) = Len(msgs) + 1 /\ DOMAIN more = 1..(Len(msgs) + 1)
         /\ DOMAIN msgs = 1..Len(msgs) /\ Len(msgs) \in Nat
         /\ more[Len(msgs) + 1] = put
         /\ \A i \in 1..Len(msgs) : more[i] = msgs[i]
BY AppendProperties, LenProperties

\* A message that begins where the walk goes is found by it.
LEMMA WalkableAppend ==
  ASSUME NEW to \in {4, 8}, NEW msgs \in Seq(Message), NEW put \in Message, Walkable(msgs, to),
         msgs = <<>> => put.at = 0,
         msgs # <<>> => put.at = msgs[Len(msgs)].at + Align(msgs[Len(msgs)].len, to)
  PROVE  Walkable(Append(msgs, put), to)
<1> DEFINE more == Append(msgs, put)
<1>0. PICK n \in Nat : n = Len(msgs)
  BY LenProperties
<1>1. DOMAIN more = 1..(n + 1) /\ DOMAIN msgs = 1..n /\ more[n + 1] = put
      /\ \A i \in 1..n : more[i] = msgs[i]
  BY <1>0, Appended
<1>2. msgs = <<>> <=> n = 0
  BY <1>0, EmptySeq
<1> HIDE DEF more
<1>3. ASSUME NEW i \in 1..n
      PROVE  more[i].at = IF i = 1 THEN 0 ELSE more[i - 1].at + Align(more[i - 1].len, to)
  <2>1. i = 1 \/ i - 1 \in 1..n
    OBVIOUS
  <2> QED
    BY <1>1, <2>1 DEF Walkable
<1>4. more[n + 1].at = IF n + 1 = 1 THEN 0 ELSE more[(n + 1) - 1].at + Align(more[(n + 1) - 1].len, to)
  <2>1. CASE n = 0
    BY <1>1, <1>2, <2>1
  <2>2. CASE n # 0
    <3>1. n \in 1..n /\ (n + 1) - 1 = n
      BY <2>2
    <3> QED
      BY <1>0, <1>1, <1>2, <2>2, <3>1
  <2> QED
    BY <2>1, <2>2
<1> QED
  BY <1>1, <1>3, <1>4 DEF Walkable, more

\* What the messages carry, with one more.
LEMMA FdsAppend ==
  ASSUME NEW msgs \in Seq(Message), NEW put \in Message
  PROVE  FdsOf(Append(msgs, put)) = FdsOf(msgs) \union Files(put)
<1> DEFINE more == Append(msgs, put)
<1>0. PICK n \in Nat : n = Len(msgs)
  BY LenProperties
<1>1. DOMAIN more = 1..(n + 1) /\ DOMAIN msgs = 1..n /\ more[n + 1] = put
      /\ \A i \in 1..n : more[i] = msgs[i]
  BY <1>0, Appended
<1> HIDE DEF more
<1>2. \A i \in 1..(n + 1) : i \in 1..n \/ i = n + 1
  OBVIOUS
<1>3. FdsAt(more, 1..(n + 1)) = FdsAt(msgs, 1..n) \union Files(put)
  BY <1>1, <1>2 DEF FdsAt
<1> QED
  BY <1>1, <1>3 DEF FdsOf, more

LEMMA FdsNext ==
  ASSUME NEW msgs, NEW k \in Nat
  PROVE  FdsAt(msgs, 1..(k + 1)) = FdsAt(msgs, 1..k) \union Files(msgs[k + 1])
<1>1. \A i \in 1..(k + 1) : i \in 1..k \/ i = k + 1
  OBVIOUS
<1> QED
  BY <1>1 DEF FdsAt

-------------------------------------------------------------------------------
(* What xnu_to_linux has made of the first k messages, all of them whole.     *)

\* Where it stands in the host's buffer.
XnuStands(a, k, src) ==
  /\ ~a.cut
  /\ a.off = IF k = 0 THEN 0 ELSE src[k].at + Align(src[k].len, 4)

\* The messages in the caller's, and the byte behind them.
XnuPlaces(msgs, out, dstcap) ==
  /\ out \in 0..dstcap
  /\ Walkable(msgs, 8)
  /\ \A i \in DOMAIN msgs : EndsIn(msgs[i], out)
  /\ msgs = <<>> => out = 0
  /\ msgs # <<>> => out = dstcap \/ out = msgs[Len(msgs)].at + Align(msgs[Len(msgs)].len, 8)

\* They are messages that came, in their order, and all of them if nobody is told.
XnuThins(msgs, trunc, k, src) ==
  /\ \E of \in [DOMAIN msgs -> 1..k] :
       /\ \A i, j \in DOMAIN msgs : i < j => of[i] < of[j]
       /\ \A i \in DOMAIN msgs : Says(msgs[i], LinuxHdr, src[of[i]], BsdHdr)
  /\ ~trunc => Len(msgs) = k /\ \A i \in 1..k : Says(msgs[i], LinuxHdr, src[i], BsdHdr)

\* The descriptors that have come are in them or closed.
XnuCloses(msgs, closed, k, src) ==
  /\ FdsOf(msgs) \intersect closed = {}
  /\ FdsOf(msgs) \union closed = FdsAt(src, 1..k)

XnuCame(a, k, src, dstcap) ==
  /\ XnuStands(a, k, src)
  /\ XnuPlaces(a.msgs, a.out, dstcap)
  /\ XnuThins(a.msgs, a.trunc, k, src)
  /\ XnuCloses(a.msgs, a.closed, k, src)

LEMMA XnuPlacesKeeps ==
  ASSUME NEW msgs \in Seq(Message), NEW out \in Nat, NEW dstcap \in Nat, XnuPlaces(msgs, out, dstcap),
         NEW put \in Message, put.at = out, put.len >= LinuxHdr, put.len <= dstcap - out
  PROVE  XnuPlaces(Append(msgs, put), out + Smaller(Align(put.len, 8), dstcap - out), dstcap)
<1> DEFINE more == Append(msgs, put)
           end == out + Smaller(Align(put.len, 8), dstcap - out)
<1>0. PICK n \in Nat : n = Len(msgs)
  BY LenProperties
<1>1. /\ DOMAIN more = 1..(n + 1) /\ DOMAIN msgs = 1..n /\ more[n + 1] = put /\ Len(more) = n + 1
      /\ \A i \in 1..n : more[i] = msgs[i]
  BY <1>0, Appended
<1>2. put.len \in Nat /\ put.at \in Nat /\ \A i \in 1..n : msgs[i].at \in Nat /\ msgs[i].len \in Nat
  <2>1. \A i \in 1..n : msgs[i] \in Message
    BY <1>0, LenProperties
  <2>2. \A m \in Message : m.len \in Nat /\ m.at \in Nat
    BY DEF Message
  <2> QED
    BY <2>1, <2>2
<1>3. Align(put.len, 8) \in Nat /\ put.len <= Align(put.len, 8)
  BY <1>2, AlignBy8
<1>4. end \in 0..dstcap /\ put.len <= end - out /\ (end = dstcap \/ end = put.at + Align(put.len, 8))
  BY <1>2, <1>3 DEF Smaller
<1>5. out < dstcap
  BY <1>2 DEF LinuxHdr
<1>6. Walkable(more, 8)
  <2>1. msgs # <<>> => put.at = msgs[Len(msgs)].at + Align(msgs[Len(msgs)].len, 8)
    BY <1>5 DEF XnuPlaces
  <2> QED
    BY <2>1, WalkableAppend DEF XnuPlaces
<1> HIDE DEF more, end
<1>7. ASSUME NEW i \in 1..(n + 1)
      PROVE  EndsIn(more[i], end)
  <2>1. CASE i \in 1..n
    <3>1. msgs[i].at + msgs[i].len <= out
      BY <1>1, <2>1 DEF XnuPlaces, EndsIn
    <3> QED
      BY <1>1, <1>2, <1>4, <2>1, <3>1, SMTT(30) DEF EndsIn
  <2>2. CASE i = n + 1
    BY <1>1, <1>2, <1>4, <2>2 DEF EndsIn
  <2> QED
    BY <2>1, <2>2
<1>8. more # <<>>
  BY <1>1, <1>0
<1> QED
  BY <1>1, <1>4, <1>6, <1>7, <1>8 DEF XnuPlaces, more, end

LEMMA XnuThinsKeeps ==
  ASSUME NEW src \in Seq(Message), NEW k \in Nat, k + 1 <= Len(src),
         NEW msgs \in Seq(Message), NEW trunc \in BOOLEAN, XnuThins(msgs, trunc, k, src),
         NEW put \in Message, Says(put, LinuxHdr, src[k + 1], BsdHdr)
  PROVE  XnuThins(Append(msgs, put), trunc, k + 1, src)
<1> DEFINE more == Append(msgs, put)
<1>0. PICK n \in Nat : n = Len(msgs)
  BY LenProperties
<1>1. /\ DOMAIN more = 1..(n + 1) /\ DOMAIN msgs = 1..n /\ more[n + 1] = put /\ Len(more) = n + 1
      /\ \A i \in 1..n : more[i] = msgs[i]
  BY <1>0, Appended
<1>2. PICK of \in [1..n -> 1..k] :
        /\ \A i, j \in 1..n : i < j => of[i] < of[j]
        /\ \A i \in 1..n : Says(msgs[i], LinuxHdr, src[of[i]], BsdHdr)
  BY <1>1 DEF XnuThins
<1> HIDE DEF more
<1> DEFINE new == [i \in 1..(n + 1) |-> IF i = n + 1 THEN k + 1 ELSE of[i]]
<1>3. new \in [1..(n + 1) -> 1..(k + 1)]
  OBVIOUS
<1>4. \A i, j \in 1..(n + 1) : i < j => new[i] < new[j]
  <2> SUFFICES ASSUME NEW i \in 1..(n + 1), NEW j \in 1..(n + 1), i < j PROVE new[i] < new[j]
    OBVIOUS
  <2>1. i \in 1..n /\ of[i] \in 1..k
    OBVIOUS
  <2>2. CASE j = n + 1
    BY <2>1, <2>2
  <2>3. CASE j # n + 1
    <3>1. j \in 1..n
      BY <2>3
    <3> QED
      BY <1>2, <2>1, <2>3, <3>1
  <2> QED
    BY <2>2, <2>3
<1>5. \A i \in 1..(n + 1) : Says(more[i], LinuxHdr, src[new[i]], BsdHdr)
  <2> SUFFICES ASSUME NEW i \in 1..(n + 1) PROVE Says(more[i], LinuxHdr, src[new[i]], BsdHdr)
    OBVIOUS
  <2>1. CASE i = n + 1
    BY <1>1, <2>1
  <2>2. CASE i # n + 1
    <3>1. i \in 1..n
      BY <2>2
    <3> QED
      BY <1>1, <1>2, <2>2, <3>1
  <2> QED
    BY <2>1, <2>2
<1>6. ~trunc => Len(more) = k + 1 /\ \A i \in 1..(k + 1) : Says(more[i], LinuxHdr, src[i], BsdHdr)
  <2> SUFFICES ASSUME ~trunc PROVE Len(more) = k + 1 /\ \A i \in 1..(k + 1) : Says(more[i], LinuxHdr, src[i], BsdHdr)
    OBVIOUS
  <2>1. n = k /\ \A i \in 1..k : Says(msgs[i], LinuxHdr, src[i], BsdHdr)
    BY <1>0 DEF XnuThins
  <2>2. \A i \in 1..(k + 1) : i \in 1..k \/ i = k + 1
    OBVIOUS
  <2> QED
    BY <1>1, <2>1, <2>2
<1> HIDE DEF new
<1> QED
  BY <1>1, <1>3, <1>4, <1>5, <1>6 DEF XnuThins, more

LEMMA XnuThinsDrops ==
  ASSUME NEW src, NEW k \in Nat, NEW msgs, NEW trunc, XnuThins(msgs, trunc, k, src)
  PROVE  XnuThins(msgs, TRUE, k + 1, src)
<1>1. PICK of \in [DOMAIN msgs -> 1..k] :
        /\ \A i, j \in DOMAIN msgs : i < j => of[i] < of[j]
        /\ \A i \in DOMAIN msgs : Says(msgs[i], LinuxHdr, src[of[i]], BsdHdr)
  BY DEF XnuThins
<1>2. of \in [DOMAIN msgs -> 1..(k + 1)]
  <2>1. 1..k \subseteq 1..(k + 1)
    OBVIOUS
  <2> QED
    BY <2>1
<1> QED
  BY <1>1, <1>2 DEF XnuThins

\* Descriptors that have not come before are not among those that have.
LEMMA XnuClosesKeeps ==
  ASSUME NEW src, NEW k \in Nat, NEW msgs \in Seq(Message), NEW closed, XnuCloses(msgs, closed, k, src),
         NEW put \in Message, Files(put) = Files(src[k + 1]),
         Files(src[k + 1]) \intersect FdsAt(src, 1..k) = {}
  PROVE  XnuCloses(Append(msgs, put), closed, k + 1, src)
BY FdsAppend, FdsNext DEF XnuCloses

LEMMA XnuClosesDrops ==
  ASSUME NEW src, NEW k \in Nat, NEW msgs, NEW closed, XnuCloses(msgs, closed, k, src),
         Files(src[k + 1]) \intersect FdsAt(src, 1..k) = {}
  PROVE  XnuCloses(msgs, closed \union Files(src[k + 1]), k + 1, src)
BY FdsNext DEF XnuCloses

\* What the kernel has sent: only rights carry descriptors, and each message its own.
Honest(list) ==
  /\ \A i \in DOMAIN list : list[i].len >= BsdHdr /\ (list[i].type # "rights" => list[i].fds = <<>>)
  /\ \A i, j \in DOMAIN list : Files(list[i]) \intersect Files(list[j]) # {} => i = j

LEMMA HonestFiles ==
  ASSUME NEW list \in Seq(Message), Honest(list), NEW k \in Nat, k + 1 <= Len(list)
  PROVE  /\ DroppedFds(list[k + 1]) = Files(list[k + 1])
         /\ Files(list[k + 1]) \intersect FdsAt(list, 1..k) = {}
<1>1. k + 1 \in DOMAIN list /\ 1..k \subseteq DOMAIN list /\ k + 1 \notin 1..k
  BY LenProperties
<1>2. list[k + 1].type # "rights" => Files(list[k + 1]) = {}
  BY <1>1 DEF Honest, Files
<1>3. DroppedFds(list[k + 1]) = Files(list[k + 1])
  BY <1>2 DEF DroppedFds
<1>4. \A i \in 1..k : Files(list[k + 1]) \intersect Files(list[i]) = {}
  BY <1>1 DEF Honest
<1> QED
  BY <1>3, <1>4 DEF FdsAt

\* A whole message more.
LEMMA XnuCameStep ==
  ASSUME NEW src \in Seq(Message), Honest(src), Walkable(src, 4), NEW srclen \in Nat, NEW dstcap \in Nat,
         NEW k \in Nat, k + 1 <= Len(src), EndsIn(src[k + 1], srclen),
         NEW a \in XnuAcc, XnuCame(a, k, src, dstcap)
  PROVE  XnuCame(XnuMessage(a, src[k + 1], srclen, dstcap), k + 1, src, dstcap)
<1> DEFINE m == src[k + 1]
           r == XnuMessage(a, m, srclen, dstcap)
<1>1. k + 1 \in DOMAIN src /\ m \in Message /\ (k # 0 => k \in DOMAIN src)
  BY LenProperties
<1>2. m.len \in Nat /\ m.at \in Nat /\ m.len >= BsdHdr /\ a.off \in Nat /\ a.out \in Nat
      /\ a.msgs \in Seq(Message) /\ a.trunc \in BOOLEAN
  BY <1>1 DEF Message, XnuAcc, Honest
<1>3. m.at = a.off
  BY <1>1, SMTT(30) DEF XnuCame, XnuStands, Walkable
<1>4. ~XnuOver(a, srclen) /\ XnuWhole(a, m, srclen)
  <2>1. a.cut = FALSE
    BY DEF XnuCame, XnuStands, XnuAcc
  <2>2. m.at + m.len <= srclen
    BY DEF EndsIn
  <2> HIDE DEF m
  <2> QED
    BY <1>2, <1>3, <2>1, <2>2, SMTT(30) DEF XnuOver, XnuWhole, BsdHdr
<1>5. IF XnuFits(a, m, dstcap) THEN XnuKeeps(a, m, dstcap, r) ELSE XnuDrops(a, m, r)
  <2> HIDE DEF m
  <2> QED
    BY <1>1, <1>4, XnuMessageStep
<1>6. DroppedFds(m) = Files(m) /\ Files(m) \intersect FdsAt(src, 1..k) = {}
  BY HonestFiles
<1> HIDE DEF r
<1>7. XnuStands(r, k + 1, src)
  <2>1. r.cut = a.cut /\ r.off = a.off + Align(m.len, 4)
    BY <1>5 DEF XnuKeeps, XnuDrops
  <2> QED
    BY <1>3, <2>1 DEF XnuCame, XnuStands
<1>8. CASE XnuFits(a, m, dstcap)
  <2> DEFINE len == LinuxHdr + (m.len - BsdHdr)
  <2>1. /\ r.out = a.out + Smaller(Align(len, 8), dstcap - a.out)
        /\ r.trunc = a.trunc /\ r.closed = a.closed
    BY <1>5, <1>8 DEF XnuKeeps
  <2>2. PICK put \in Message :
          /\ put.type = m.type /\ put.fds = m.fds /\ put.len = len /\ put.at = a.out
          /\ r.msgs = Append(a.msgs, put)
    BY <1>5, <1>8 DEF XnuKeeps
  <2>3. len \in Nat /\ len >= LinuxHdr /\ len <= dstcap - a.out /\ len - LinuxHdr = m.len - BsdHdr
    <3>1. m.len \in Nat /\ m.len >= BsdHdr
      BY <1>2
    <3>2. len <= dstcap - a.out
      BY <1>8 DEF XnuFits
    <3> HIDE DEF m
    <3>3. len \in Nat /\ len >= LinuxHdr /\ len - LinuxHdr = m.len - BsdHdr
      BY <3>1, SMTT(30) DEF LinuxHdr, BsdHdr
    <3> HIDE DEF len
    <3> QED
      BY <3>2, <3>3
  <2> HIDE DEF len
  <2>4. XnuPlaces(r.msgs, r.out, dstcap)
    BY <1>2, <2>1, <2>2, <2>3, XnuPlacesKeeps DEF XnuCame
  <2>5. Says(put, LinuxHdr, m, BsdHdr)
    BY <2>2, <2>3 DEF Says
  <2>6. XnuThins(r.msgs, r.trunc, k + 1, src)
    BY <1>2, <2>1, <2>2, <2>5, XnuThinsKeeps DEF XnuCame
  <2>7. Files(put) = Files(m)
    BY <2>2 DEF Files
  <2>8. XnuCloses(r.msgs, r.closed, k + 1, src)
    BY <1>2, <1>6, <2>1, <2>2, <2>7, XnuClosesKeeps DEF XnuCame
  <2> QED
    BY <1>7, <2>4, <2>6, <2>8 DEF XnuCame, r
<1>9. CASE ~XnuFits(a, m, dstcap)
  <2>1. r.msgs = a.msgs /\ r.out = a.out /\ r.trunc = TRUE /\ r.closed = a.closed \union Files(m)
    BY <1>5, <1>6, <1>9 DEF XnuDrops
  <2>2. XnuThins(r.msgs, r.trunc, k + 1, src)
    BY <2>1, XnuThinsDrops DEF XnuCame
  <2>3. XnuCloses(r.msgs, r.closed, k + 1, src)
    BY <1>6, <2>1, XnuClosesDrops DEF XnuCame
  <2>4. XnuPlaces(r.msgs, r.out, dstcap)
    BY <2>1 DEF XnuCame
  <2> QED
    BY <1>7, <2>2, <2>3, <2>4 DEF XnuCame, r
<1> QED
  BY <1>8, <1>9

-------------------------------------------------------------------------------
(* xnu_to_linux over the whole of what the host has put into a buffer.        *)

\* A buffer of the host's: messages one after the other, all of them whole but the
\* last of a list that had to be cut.
HostHas(c) ==
  /\ c.msgs \in Seq(Message) /\ c.cap \in Nat /\ c.len \in 0..c.cap /\ c.cut \in BOOLEAN
  /\ Honest(c.msgs)
  /\ Walkable(c.msgs, 4)
  /\ \A i \in DOMAIN c.msgs : ~c.cut \/ i # Len(c.msgs) => EndsIn(c.msgs[i], c.len)

\* What the caller gets of it.
XnuGives(msgs, len, closed, c, dstcap) ==
  /\ len \in 0..dstcap
  /\ msgs \in Seq(Message)
  /\ Walkable(msgs, 8)
  /\ \A i \in DOMAIN msgs : EndsIn(msgs[i], len)
  /\ FdsOf(msgs) \intersect closed = {}
  /\ FdsAt(c.msgs, {i \in DOMAIN c.msgs : EndsIn(c.msgs[i], c.len)}) \subseteq FdsOf(msgs) \union closed
  /\ \E of \in [DOMAIN msgs -> DOMAIN c.msgs] :
       /\ \A i, j \in DOMAIN msgs : i < j => of[i] < of[j]
       /\ \A i \in DOMAIN msgs : Says(msgs[i], LinuxHdr, c.msgs[of[i]], BsdHdr)

\* All of it.
XnuGivesAll(msgs, c) ==
  Len(msgs) = Len(c.msgs) /\ \A i \in DOMAIN c.msgs : Says(msgs[i], LinuxHdr, c.msgs[i], BsdHdr)

LEMMA XnuCameFirst ==
  ASSUME NEW src \in Seq(Message), NEW srclen \in Nat, NEW dstcap \in Nat
  PROVE  XnuCame(XnuStart(srclen), 0, src, dstcap)
<1> DEFINE a == XnuStart(srclen)
<1>1. a.msgs = <<>> /\ a.out = 0 /\ a.off = 0 /\ a.cut = FALSE /\ a.closed = {}
  BY DEF XnuStart
<1> HIDE DEF a
<1>2. DOMAIN a.msgs = {} /\ Len(a.msgs) = 0 /\ 1..0 = {}
  BY <1>1
<1>3. XnuStands(a, 0, src)
  BY <1>1 DEF XnuStands
<1>4. XnuPlaces(a.msgs, a.out, dstcap)
  BY <1>1, <1>2 DEF XnuPlaces, Walkable
<1>5. XnuThins(a.msgs, a.trunc, 0, src)
  <2> DEFINE of == [i \in {} |-> 0]
  <2>1. of \in [{} -> {}]
    OBVIOUS
  <2> QED
    BY <1>2, <2>1 DEF XnuThins
<1>6. XnuCloses(a.msgs, a.closed, 0, src)
  BY <1>1, <1>2 DEF XnuCloses, FdsOf, FdsAt
<1> QED
  BY <1>3, <1>4, <1>5, <1>6 DEF XnuCame, a

LEMMA XnuToLinuxGives ==
  ASSUME NEW c, HostHas(c), NEW dstcap \in Nat
  PROVE  LET x == XnuToLinux(c.msgs, c.len, dstcap) IN
         /\ XnuGives(x.msgs, x.len, x.closed, c, dstcap)
         /\ x.trunc \in BOOLEAN
         /\ ~x.trunc /\ ~c.cut => XnuGivesAll(x.msgs, c)
<1>0. PICK src \in Seq(Message), srclen \in Nat, n \in Nat : src = c.msgs /\ srclen = c.len /\ n = Len(src)
  <2>1. c.len \in Nat /\ c.msgs \in Seq(Message)
    BY DEF HostHas
  <2> QED
    BY <2>1, LenProperties
<1>1. PICK g : XnuRun(g, src, srclen, dstcap)
  BY XnuWalk
<1>2. /\ g \in [0..n -> XnuAcc] /\ g[0] = XnuStart(srclen)
      /\ \A k \in 1..n : g[k] = XnuMessage(g[k - 1], src[k], srclen, dstcap)
  BY <1>0, <1>1 DEF XnuRun
<1>3. DOMAIN src = 1..n /\ \A i \in 1..n : src[i] \in Message
  BY <1>0, LenProperties
<1>4. Honest(src) /\ Walkable(src, 4) /\ \A i \in 1..n : ~c.cut \/ i # n => EndsIn(src[i], srclen)
  BY <1>0, <1>3 DEF HostHas
<1> DEFINE S == {k \in Nat : k <= n /\ (\A i \in 1..k : EndsIn(src[i], srclen)) => XnuCame(g[k], k, src, dstcap)}
<1>5. 0 \in S
  BY <1>2, XnuCameFirst
<1>6. ASSUME NEW k \in Nat, k \in S
      PROVE  k + 1 \in S
  <2> SUFFICES ASSUME k + 1 <= n, \A i \in 1..(k + 1) : EndsIn(src[i], srclen)
               PROVE  XnuCame(g[k + 1], k + 1, src, dstcap)
    OBVIOUS
  <2>1. k <= n /\ (\A i \in 1..k : EndsIn(src[i], srclen)) /\ k + 1 \in 1..(k + 1) /\ k + 1 \in 1..n /\ k \in 0..n
    OBVIOUS
  <2>2. XnuCame(g[k], k, src, dstcap) /\ EndsIn(src[k + 1], srclen)
    BY <1>6, <2>1
  <2>3. g[k + 1] = XnuMessage(g[k], src[k + 1], srclen, dstcap) /\ g[k] \in XnuAcc
    <3>1. (k + 1) - 1 = k
      OBVIOUS
    <3> QED
      BY <1>2, <2>1, <3>1
  <2> HIDE DEF S
  <2>4. k + 1 <= Len(src)
    BY <1>0
  <2> QED
    BY <1>4, <2>2, <2>3, <2>4, XnuCameStep
<1>7. \A k \in 0..n : (\A i \in 1..k : EndsIn(src[i], srclen)) => XnuCame(g[k], k, src, dstcap)
  <2>1. Nat \subseteq S
    <3> HIDE DEF S
    <3> QED
      BY <1>5, <1>6, Induction
  <2> QED
    BY <2>1
<1> DEFINE x == XnuToLinux(c.msgs, c.len, dstcap)
<1>8. n \in 0..n /\ g[n] \in XnuAcc
  BY <1>2
<1>9. /\ x.msgs = g[n].msgs /\ x.len = g[n].out /\ x.trunc = g[n].trunc /\ x.closed = g[n].closed
      /\ g[n].msgs \in Seq(Message) /\ g[n].trunc \in BOOLEAN
  <2>1. x = [msgs |-> g[n].msgs, len |-> g[n].out, trunc |-> g[n].trunc, closed |-> g[n].closed]
    BY <1>0, <1>1 DEF XnuRun
  <2> HIDE DEF x
  <2>2. g[n].msgs \in Seq(Message) /\ g[n].trunc \in BOOLEAN
    BY <1>8 DEF XnuAcc
  <2> QED
    BY <2>1, <2>2
<1> HIDE DEF x, S
<1>10. CASE \A i \in 1..n : EndsIn(src[i], srclen)
  <2>1. XnuCame(g[n], n, src, dstcap)
    BY <1>7, <1>8, <1>10
  <2>2. FdsAt(src, {i \in DOMAIN src : EndsIn(src[i], srclen)}) = FdsAt(src, 1..n)
    BY <1>3, <1>10 DEF FdsAt
  <2>3. XnuGives(x.msgs, x.len, x.closed, c, dstcap)
    BY <1>0, <1>3, <1>9, <2>1, <2>2, ZenonT(60) DEF XnuGives, XnuCame, XnuPlaces, XnuThins, XnuCloses
  <2>4. ~x.trunc => XnuGivesAll(x.msgs, c)
    BY <1>0, <1>3, <1>9, <2>1 DEF XnuGivesAll, XnuCame, XnuThins
  <2> QED
    BY <1>9, <2>3, <2>4 DEF x
<1>11. CASE ~\A i \in 1..n : EndsIn(src[i], srclen)
  <2>1. c.cut /\ n # 0 /\ ~EndsIn(src[n], srclen) /\ \A i \in 1..(n - 1) : EndsIn(src[i], srclen)
    <3>1. PICK i \in 1..n : ~EndsIn(src[i], srclen)
      BY <1>11
    <3>2. i = n /\ c.cut
      BY <1>4, <3>1 DEF HostHas
    <3>3. \A j \in 1..(n - 1) : j \in 1..n /\ j # n
      OBVIOUS
    <3> QED
      BY <1>4, <3>1, <3>2, <3>3
  <2> DEFINE a == g[n - 1]
  <2>2. n - 1 \in 0..n /\ n \in 1..n
    BY <2>1
  <2>3. XnuCame(a, n - 1, src, dstcap) /\ a \in XnuAcc
    BY <1>2, <1>7, <2>1, <2>2
  <2>4. g[n] = XnuMessage(a, src[n], srclen, dstcap) /\ src[n] \in Message
    BY <1>2, <1>3, <2>2
  <2> HIDE DEF a
  <2>5. ~XnuWhole(a, src[n], srclen)
    <3>1. src[n].at \in Nat /\ src[n].len \in Nat /\ a.off \in Nat
      BY <2>3, <2>4 DEF Message, XnuAcc
    <3> QED
      BY <2>1, <3>1 DEF XnuWhole, EndsIn, BsdHdr
  <2>6. g[n].msgs = a.msgs /\ g[n].out = a.out /\ g[n].closed = a.closed
    <3>1. g[n] = a \/ XnuCuts(a, g[n])
      BY <2>3, <2>4, <2>5, XnuMessageStep
    <3> QED
      BY <3>1 DEF XnuCuts
  <2>7. FdsAt(src, {i \in DOMAIN src : EndsIn(src[i], srclen)}) \subseteq FdsAt(src, 1..(n - 1))
    <3>1. \A i \in 1..n : EndsIn(src[i], srclen) => i \in 1..(n - 1)
      <4>1. \A i \in 1..n : i # n => i \in 1..(n - 1)
        OBVIOUS
      <4> QED
        BY <2>1, <4>1
    <3> QED
      BY <1>3, <3>1 DEF FdsAt
  <2>8. \E of \in [DOMAIN a.msgs -> DOMAIN src] :
          /\ \A i, j \in DOMAIN a.msgs : i < j => of[i] < of[j]
          /\ \A i \in DOMAIN a.msgs : Says(a.msgs[i], LinuxHdr, src[of[i]], BsdHdr)
    <3>1. PICK of \in [DOMAIN a.msgs -> 1..(n - 1)] :
            /\ \A i, j \in DOMAIN a.msgs : i < j => of[i] < of[j]
            /\ \A i \in DOMAIN a.msgs : Says(a.msgs[i], LinuxHdr, src[of[i]], BsdHdr)
      BY <2>3 DEF XnuCame, XnuThins
    <3>2. of \in [DOMAIN a.msgs -> 1..n]
      <4>1. 1..(n - 1) \subseteq 1..n
        OBVIOUS
      <4> QED
        BY <4>1
    <3> QED
      BY <1>3, <3>1, <3>2
  <2>9. XnuGives(x.msgs, x.len, x.closed, c, dstcap)
    BY <1>0, <1>9, <2>3, <2>6, <2>7, <2>8 DEF XnuGives, XnuCame, XnuPlaces, XnuCloses
  <2> QED
    BY <1>9, <2>1, <2>9 DEF x
<1> QED
  BY <1>10, <1>11

-------------------------------------------------------------------------------
(* The walk of linux_to_xnu.                                                  *)

LinuxAcc == [ok : BOOLEAN, msgs : Seq(Message), out : Nat, off : Nat]

LinuxAccTaking(acc, msgs, out, off) == [acc EXCEPT !.msgs = msgs, !.out = out, !.off = off]

LEMMA LinuxAccTaken ==
  ASSUME NEW acc \in LinuxAcc, NEW msgs \in Seq(Message), NEW out \in Nat, NEW off \in Nat
  PROVE  LET r == LinuxAccTaking(acc, msgs, out, off) IN
         r \in LinuxAcc /\ r.ok = acc.ok /\ r.msgs = msgs /\ r.out = out /\ r.off = off
BY DEF LinuxAcc, LinuxAccTaking

\* What becomes of a message, and of what has been written so far.
LinuxOver(acc, srclen) == ~acc.ok \/ acc.off + LinuxHdr > srclen
LinuxGood(acc, m, srclen, dstcap) ==
  /\ m.at = acc.off
  /\ m.len \in LinuxHdr..(srclen - acc.off)
  /\ m.type \in ToXnuTypes
  /\ BsdHdr + Align(m.len - LinuxHdr, 4) <= dstcap - acc.out

LinuxRefuses(acc, r) == ~r.ok /\ r.msgs = acc.msgs /\ r.out = acc.out /\ r.off = acc.off

LinuxTakes(acc, m, r) ==
  LET len == BsdHdr + (m.len - LinuxHdr) IN
  /\ \E put \in Message :
       /\ put.type = m.type /\ put.fds = m.fds /\ put.len = len /\ put.at = acc.out
       /\ r.msgs = Append(acc.msgs, put)
  /\ r.out = acc.out + Align(len, 4)
  /\ r.off = acc.off + Align(m.len, 8)
  /\ r.ok = acc.ok

LEMMA LinuxMessageStep ==
  ASSUME NEW acc \in LinuxAcc, NEW m \in Message, NEW srclen \in Nat, NEW dstcap \in Nat
  PROVE  LET r == LinuxMessage(acc, m, srclen, dstcap) IN
         /\ r \in LinuxAcc
         /\ LinuxOver(acc, srclen) => r = acc
         /\ ~LinuxOver(acc, srclen) =>
              IF LinuxGood(acc, m, srclen, dstcap) THEN LinuxTakes(acc, m, r) ELSE LinuxRefuses(acc, r)
<1> DEFINE n == m.len - LinuxHdr
           put == Placed(m, BsdHdr + n, acc.out)
           r == LinuxMessage(acc, m, srclen, dstcap)
<1>1. /\ m.type \in STRING /\ m.len \in Nat /\ m.fds \in Seq(Nat) /\ m.at \in Nat
      /\ acc.ok \in BOOLEAN /\ acc.msgs \in Seq(Message) /\ acc.out \in Nat /\ acc.off \in Nat
  BY DEF Message, LinuxAcc
<1>2. CASE LinuxOver(acc, srclen)
  BY <1>2 DEF LinuxMessage, LinuxOver
<1>3. CASE ~LinuxOver(acc, srclen) /\ ~LinuxGood(acc, m, srclen, dstcap)
  <2>1. r = [acc EXCEPT !.ok = FALSE]
    BY <1>3 DEF LinuxMessage, LinuxOver, LinuxGood, BsdAlign
  <2>2. r \in LinuxAcc /\ LinuxRefuses(acc, r)
    BY <2>1 DEF LinuxAcc, LinuxRefuses
  <2> QED
    BY <1>3, <2>2
<1>4. CASE ~LinuxOver(acc, srclen) /\ LinuxGood(acc, m, srclen, dstcap)
  <2>1. n \in Nat /\ BsdHdr + n \in Nat
    BY <1>1, <1>4, SMTT(30) DEF BsdHdr, LinuxHdr, LinuxGood
  <2>2. BsdHdr + BsdAlign(n) = Align(BsdHdr + n, 4) /\ LinuxAlign(m.len) = Align(m.len, 8)
    BY <2>1, AlignBehindHeader DEF BsdAlign, LinuxAlign
  <2>3. Align(BsdHdr + n, 4) \in Nat /\ Align(m.len, 8) \in Nat
    BY <1>1, <2>1, AlignBy4, AlignBy8
  <2>4. put \in Message /\ put.type = m.type /\ put.len = BsdHdr + n /\ put.fds = m.fds /\ put.at = acc.out
    <3>1. acc.out \in Nat
      BY <1>1
    <3>2. PICK len \in Nat : len = BsdHdr + n
      BY <2>1
    <3>3. LET p == Placed(m, len, acc.out) IN
          p \in Message /\ p.type = m.type /\ p.len = len /\ p.fds = m.fds /\ p.at = acc.out
      BY <3>1, MessagePlaced, ZenonT(60)
    <3> HIDE DEF n
    <3> QED
      BY <3>2, <3>3
  <2>5. r = LinuxAccTaking(acc, Append(acc.msgs, put), acc.out + (BsdHdr + BsdAlign(n)), acc.off + LinuxAlign(m.len))
    BY <1>4 DEF LinuxMessage, LinuxOver, LinuxGood, LinuxAccTaking, BsdAlign
  <2> HIDE DEF n, put, r
  <2>6. PICK msgs \in Seq(Message), out \in Nat, off \in Nat :
          msgs = Append(acc.msgs, put) /\ out = acc.out + Align(BsdHdr + n, 4) /\ off = acc.off + Align(m.len, 8)
    <3>1. Append(acc.msgs, put) \in Seq(Message)
      BY <1>1, <2>4, AppendProperties
    <3>2. acc.out + Align(BsdHdr + n, 4) \in Nat /\ acc.off + Align(m.len, 8) \in Nat
      BY <1>1, <2>3
    <3> QED
      BY <3>1, <3>2
  <2>7. r = LinuxAccTaking(acc, msgs, out, off)
    BY <2>2, <2>5, <2>6
  <2>8. r \in LinuxAcc /\ r.ok = acc.ok /\ r.msgs = msgs /\ r.out = out /\ r.off = off
    <3> DEFINE q == LinuxAccTaking(acc, msgs, out, off)
    <3>1. q \in LinuxAcc /\ q.ok = acc.ok /\ q.msgs = msgs /\ q.out = out /\ q.off = off
      BY LinuxAccTaken
    <3> HIDE DEF q
    <3> QED
      BY <2>7, <3>1 DEF q
  <2>9. LinuxTakes(acc, m, r)
    BY <2>4, <2>6, <2>8 DEF LinuxTakes, n
  <2> QED
    BY <1>4, <2>8, <2>9 DEF r
<1> QED
  BY <1>2, <1>3, <1>4

\* The walk of linux_to_xnu, message by message.
LinuxStart(srclen) == [ok |-> srclen = 0 \/ srclen >= LinuxHdr, msgs |-> <<>>, out |-> 0, off |-> 0]

LinuxRun(g, src, srclen, dstcap) ==
  /\ g \in [0..Len(src) -> LinuxAcc]
  /\ g[0] = LinuxStart(srclen)
  /\ \A k \in 1..Len(src) : g[k] = LinuxMessage(g[k - 1], src[k], srclen, dstcap)
  /\ LinuxToXnu(src, srclen, dstcap) =
       [ok |-> g[Len(src)].ok, msgs |-> g[Len(src)].msgs, len |-> g[Len(src)].out]

LEMMA LinuxWalk ==
  ASSUME NEW src \in Seq(Message), NEW srclen \in Nat, NEW dstcap \in Nat
  PROVE  \E g : LinuxRun(g, src, srclen, dstcap)
<1>0. PICK n \in Nat : n = Len(src)
  BY LenProperties
<1> DEFINE start == LinuxStart(srclen)
           step == [k \in 1..n |-> [acc \in LinuxAcc |-> LinuxMessage(acc, src[k], srclen, dstcap)]]
           Is(iter) == iter = [s \in SUBSET (DOMAIN src) |->
                                 IF s = {} THEN start
                                 ELSE LinuxMessage(iter[s \ {Max(s)}], src[Max(s)], srclen, dstcap)]
           walk == CHOOSE iter : Is(iter)
<1>1. n \in Nat /\ DOMAIN src = 1..n /\ \A k \in 1..n : src[k] \in Message
  BY <1>0, LenProperties
<1>2. start \in LinuxAcc
  <2>1. <<>> \in Seq(Message)
    BY EmptySeq
  <2> QED
    BY <2>1 DEF LinuxStart, LinuxAcc
<1>3. \A k \in 1..n : \A acc \in LinuxAcc : LinuxMessage(acc, src[k], srclen, dstcap) \in LinuxAcc
  BY <1>1, LinuxMessageStep
<1>4. step \in [1..n -> [LinuxAcc -> LinuxAcc]]
  BY <1>3
<1>5. \A k \in 1..n : \A acc \in LinuxAcc : step[k][acc] = LinuxMessage(acc, src[k], srclen, dstcap)
  BY <1>1
<1>6. LinuxToXnu(src, srclen, dstcap) =
        [ok |-> walk[DOMAIN src].ok, msgs |-> walk[DOMAIN src].msgs, len |-> walk[DOMAIN src].out]
  BY DEF LinuxToXnu, FoldLeft, MapThenFoldSet, LinuxStart
<1> HIDE DEF step, start
<1>7. Is(walk)
  <2>1. PICK iter : Walked(iter, n, LinuxAcc, start, step)
    BY <1>1, <1>2, <1>4, WalkExists, Zenon
  <2>2. ASSUME NEW s \in SUBSET (1..n), s # {}
        PROVE  iter[s] = LinuxMessage(iter[s \ {Max(s)}], src[Max(s)], srclen, dstcap)
    <3>1. Max(s) \in 1..n
      BY <2>2, LargestInRange, <1>1
    <3>2. iter[s \ {Max(s)}] \in LinuxAcc
      BY <2>1 DEF Walked
    <3> QED
      BY <1>5, <2>1, <2>2, <3>1, <3>2 DEF Walked
  <2>3. Is(iter)
    BY <1>1, <2>1, <2>2 DEF Walked
  <2> HIDE DEF Is
  <2> QED
    BY <2>3
<1> HIDE DEF walk
<1>8. walk[{}] = start
  BY <1>7
<1>9. ASSUME NEW s \in SUBSET (1..n), s # {}, walk[s \ {Max(s)}] \in LinuxAcc
      PROVE  walk[s] = step[Max(s)][walk[s \ {Max(s)}]]
  <2>1. Max(s) \in 1..n
    BY <1>9, LargestInRange, <1>1
  <2>2. walk[s] = LinuxMessage(walk[s \ {Max(s)}], src[Max(s)], srclen, dstcap)
    BY <1>1, <1>7, <1>9
  <2> HIDE DEF Is
  <2> QED
    BY <1>5, <1>9, <2>1, <2>2
<1>10. PICK g : Row(g, n, LinuxAcc, start, step, walk[1..n])
  <2> HIDE DEF Is
  <2> QED
    BY <1>1, <1>2, <1>4, <1>8, <1>9, WalkedRow, Zenon
<1>11. \A k \in 1..n : g[k - 1] \in LinuxAcc
  BY <1>1, <1>10 DEF Row
<1>12. \A k \in 1..n : g[k] = LinuxMessage(g[k - 1], src[k], srclen, dstcap)
  BY <1>5, <1>10, <1>11 DEF Row
<1>13. LinuxRun(g, src, srclen, dstcap)
  BY <1>0, <1>1, <1>6, <1>10, <1>12 DEF LinuxRun, Row, start
<1> QED
  BY <1>13

-------------------------------------------------------------------------------
(* What linux_to_xnu has made of the first k messages.                        *)

\* A message that begins in the buffer, and one XNU can express.
Begins(m, len) == m.at + LinuxHdr <= len
Passable(m, len) == m.len \in LinuxHdr..(len - m.at) /\ m.type \in ToXnuTypes

\* A buffer XNU can express.
Passes(src, srclen) ==
  /\ srclen = 0 \/ srclen >= LinuxHdr
  /\ \A i \in DOMAIN src : Begins(src[i], srclen) => Passable(src[i], srclen)

\* Messages of XNU's, the bytes they take and those behind which they were found.
LinuxTook(msgs, out, off, k, src, srclen) ==
  LET n == Len(msgs) IN
  /\ srclen = 0 \/ srclen >= LinuxHdr
  /\ n <= k /\ out <= off
  /\ Walkable(msgs, 4)
  /\ off = IF n = 0 THEN 0 ELSE src[n].at + Align(src[n].len, 8)
  /\ n # 0 => out = msgs[n].at + Align(msgs[n].len, 4)
  /\ n = 0 => out = 0
  /\ \A i \in 1..n : Begins(src[i], srclen) /\ Passable(src[i], srclen) /\ Says(msgs[i], BsdHdr, src[i], LinuxHdr)
  /\ \A i \in (n + 1)..k : ~Begins(src[i], srclen)

LinuxCame(a, k, src, srclen, dstcap) ==
  /\ a.out <= dstcap
  /\ a.ok => LinuxTook(a.msgs, a.out, a.off, k, src, srclen)
  /\ ~a.ok => ~Passes(src, srclen) \/ srclen > dstcap

\* A message more that XNU can express.
LEMMA LinuxTookTakes ==
  ASSUME NEW src \in Seq(Message), NEW srclen \in Nat, NEW k \in Nat, k + 1 <= Len(src),
         NEW msgs \in Seq(Message), Len(msgs) = k, NEW out \in Nat, NEW off \in Nat,
         LinuxTook(msgs, out, off, k, src, srclen),
         Begins(src[k + 1], srclen), Passable(src[k + 1], srclen), src[k + 1].at = off,
         NEW put \in Message, put.at = out, Says(put, BsdHdr, src[k + 1], LinuxHdr)
  PROVE  LinuxTook(Append(msgs, put), out + Align(put.len, 4), off + Align(src[k + 1].len, 8), k + 1, src, srclen)
<1> DEFINE more == Append(msgs, put)
           m == src[k + 1]
<1>1. /\ DOMAIN more = 1..(k + 1) /\ DOMAIN msgs = 1..k /\ more[k + 1] = put /\ Len(more) = k + 1
      /\ \A i \in 1..k : more[i] = msgs[i]
  BY Appended
<1>2. msgs = <<>> <=> k = 0
  BY EmptySeq
<1>3. m \in Message
  BY LenProperties
<1>4. m.len \in Nat /\ m.len >= LinuxHdr /\ put.len - BsdHdr = m.len - LinuxHdr /\ put.len \in Nat
  BY <1>3, SMTT(30) DEF Message, Passable, Says
<1> HIDE DEF m
<1>5. PICK n \in Nat : m.len = LinuxHdr + n /\ put.len = BsdHdr + n
  <2>1. m.len - LinuxHdr \in Nat /\ m.len = LinuxHdr + (m.len - LinuxHdr) /\ put.len = BsdHdr + (m.len - LinuxHdr)
    BY <1>4, SMTT(30) DEF LinuxHdr, BsdHdr
  <2> QED
    BY <2>1
<1>6. Align(put.len, 4) <= Align(m.len, 8) /\ Align(put.len, 4) \in Nat /\ Align(m.len, 8) \in Nat
  <2>1. Align(put.len, 4) = BsdHdr + Align(n, 4) /\ Align(put.len, 4) \in Nat /\ Align(m.len, 8) \in Nat
    BY <1>4, <1>5, AlignBehindHeader, AlignBy4, AlignBy8
  <2> QED
    BY <1>5, <2>1, XnuIsShorter
<1>7. Walkable(more, 4)
  <2>1. msgs # <<>> => put.at = msgs[Len(msgs)].at + Align(msgs[Len(msgs)].len, 4)
    BY <1>2 DEF LinuxTook
  <2>2. msgs = <<>> => put.at = 0
    BY <1>2 DEF LinuxTook
  <2> QED
    BY <2>1, <2>2, WalkableAppend DEF LinuxTook
<1>8. out <= off /\ (srclen = 0 \/ srclen >= LinuxHdr)
  BY DEF LinuxTook
<1> HIDE DEF more
<1>9. ASSUME NEW i \in 1..(k + 1)
      PROVE  Begins(src[i], srclen) /\ Passable(src[i], srclen) /\ Says(more[i], BsdHdr, src[i], LinuxHdr)
  <2>1. CASE i \in 1..k
    BY <1>1, <2>1 DEF LinuxTook
  <2>2. CASE i = k + 1
    BY <1>1, <2>2
  <2> QED
    BY <2>1, <2>2
<1>10. ((k + 1) + 1)..(k + 1) = {} /\ k + 1 # 0 /\ k + 1 <= k + 1
  OBVIOUS
<1>11. out + Align(put.len, 4) <= off + Align(m.len, 8)
  BY <1>6, <1>8
<1>12. off + Align(m.len, 8) = src[k + 1].at + Align(src[k + 1].len, 8)
  BY DEF m
<1>13. out + Align(put.len, 4) = more[k + 1].at + Align(more[k + 1].len, 4)
  BY <1>1
<1> QED
  BY <1>1, <1>7, <1>8, <1>9, <1>10, <1>11, <1>12, <1>13 DEF LinuxTook, more, m

LEMMA LinuxCameStep ==
  ASSUME NEW src \in Seq(Message), Walkable(src, 8), NEW srclen \in Nat, NEW dstcap \in Nat,
         NEW k \in Nat, k + 1 <= Len(src),
         NEW a \in LinuxAcc, LinuxCame(a, k, src, srclen, dstcap)
  PROVE  LinuxCame(LinuxMessage(a, src[k + 1], srclen, dstcap), k + 1, src, srclen, dstcap)
<1> DEFINE m == src[k + 1]
           r == LinuxMessage(a, m, srclen, dstcap)
<1>0. PICK n \in Nat : n = Len(a.msgs)
  BY LenProperties DEF LinuxAcc
<1>1. k + 1 \in DOMAIN src /\ m \in Message /\ \A i \in 1..(k + 1) : i \in DOMAIN src /\ src[i] \in Message
  BY LenProperties
<1>2. /\ m.len \in Nat /\ m.at \in Nat /\ a.off \in Nat /\ a.out \in Nat /\ a.msgs \in Seq(Message)
      /\ \A i \in 1..(k + 1) : src[i].at \in Nat /\ src[i].len \in Nat
  <2>1. \A p \in Message : p.len \in Nat /\ p.at \in Nat
    BY DEF Message
  <2>2. a.off \in Nat /\ a.out \in Nat /\ a.msgs \in Seq(Message)
    BY DEF LinuxAcc
  <2> HIDE DEF m
  <2> QED
    BY <1>1, <2>1, <2>2
<1>3. LinuxOver(a, srclen) => r = a
  BY <1>1, LinuxMessageStep
<1>4. ~LinuxOver(a, srclen) => IF LinuxGood(a, m, srclen, dstcap) THEN LinuxTakes(a, m, r) ELSE LinuxRefuses(a, r)
  <2> HIDE DEF m
  <2> QED
    BY <1>1, LinuxMessageStep
<1>5. m.at = IF k = 0 THEN 0 ELSE src[k].at + Align(src[k].len, 8)
  <2>1. k + 1 \in DOMAIN src /\ (k + 1) - 1 = k /\ (k + 1 = 1 <=> k = 0)
    BY <1>1
  <2> QED
    BY <2>1 DEF Walkable
<1> HIDE DEF r
<1>6. a.ok => n <= k /\ (n < k => src[n + 1].at = a.off /\ ~Begins(src[n + 1], srclen)) /\ (n = k => m.at = a.off)
  <2> SUFFICES ASSUME a.ok PROVE n <= k /\ (n < k => src[n + 1].at = a.off /\ ~Begins(src[n + 1], srclen)) /\ (n = k => m.at = a.off)
    OBVIOUS
  <2>1. LinuxTook(a.msgs, a.out, a.off, k, src, srclen)
    BY DEF LinuxCame
  <2>2. n <= k /\ a.off = (IF n = 0 THEN 0 ELSE src[n].at + Align(src[n].len, 8)) /\ \A i \in (n + 1)..k : ~Begins(src[i], srclen)
    BY <1>0, <2>1 DEF LinuxTook
  <2>3. n < k => src[n + 1].at = a.off
    <3> SUFFICES ASSUME n < k PROVE src[n + 1].at = a.off
      OBVIOUS
    <3>1. n + 1 \in 1..(k + 1) /\ (n + 1) - 1 = n /\ (n + 1 = 1 <=> n = 0)
      OBVIOUS
    <3>2. n + 1 \in DOMAIN src
      BY <1>1, <3>1
    <3>3. src[n + 1].at = IF n + 1 = 1 THEN 0 ELSE src[(n + 1) - 1].at + Align(src[(n + 1) - 1].len, 8)
      BY <3>2 DEF Walkable
    <3> QED
      BY <2>2, <3>1, <3>3
  <2> QED
    BY <1>5, <2>2, <2>3
<1>7. CASE ~a.ok
  BY <1>3, <1>7 DEF LinuxOver, LinuxCame, r
<1>8. CASE a.ok /\ a.off + LinuxHdr > srclen
  <2>1. r = a
    BY <1>3, <1>8 DEF LinuxOver
  <2>2. ~Begins(m, srclen)
    <3>1. CASE n = k
      <4>1. m.at = a.off /\ a.off \in Nat
        BY <1>2, <1>6, <1>8, <3>1
      <4> HIDE DEF m
      <4> QED
        BY <1>8, <4>1 DEF Begins, LinuxHdr
    <3>2. CASE n < k
      <4>1. k \in (n + 1)..k /\ k \in 1..(k + 1)
        BY <3>2
      <4>2. ~Begins(src[k], srclen)
        BY <1>0, <1>8, <4>1 DEF LinuxCame, LinuxTook
      <4>3. Align(src[k].len, 8) \in Nat
        BY <1>2, <4>1, AlignBy8
      <4> HIDE DEF m
      <4> QED
        BY <1>2, <1>5, <3>2, <4>1, <4>2, <4>3, SMTT(30) DEF Begins, LinuxHdr
    <3> QED
      BY <1>6, <1>8, <3>1, <3>2
  <2>3. \A i \in (n + 1)..(k + 1) : ~Begins(src[i], srclen)
    <3>1. \A i \in (n + 1)..(k + 1) : i \in (n + 1)..k \/ i = k + 1
      OBVIOUS
    <3> QED
      BY <1>0, <1>8, <2>2, <3>1 DEF LinuxCame, LinuxTook
  <2>4. LinuxTook(a.msgs, a.out, a.off, k + 1, src, srclen)
    <3>1. LinuxTook(a.msgs, a.out, a.off, k, src, srclen) /\ n <= k + 1
      BY <1>6, <1>8 DEF LinuxCame
    <3> QED
      BY <1>0, <2>3, <3>1 DEF LinuxTook
  <2> QED
    BY <1>8, <2>1, <2>4 DEF LinuxCame, r
<1>9. CASE a.ok /\ a.off + LinuxHdr <= srclen
  <2>1. ~LinuxOver(a, srclen)
    BY <1>2, <1>9 DEF LinuxOver, LinuxHdr
  <2>2. n = k /\ m.at = a.off
    BY <1>0, <1>6, <1>9 DEF Begins
  <2>3. Begins(m, srclen) /\ LinuxTook(a.msgs, a.out, a.off, k, src, srclen)
    BY <1>9, <2>2 DEF Begins, LinuxCame
  <2>4. CASE LinuxGood(a, m, srclen, dstcap)
    <3> DEFINE len == BsdHdr + (m.len - LinuxHdr)
    <3>1. r.out = a.out + Align(len, 4) /\ r.off = a.off + Align(m.len, 8) /\ r.ok
      BY <1>4, <1>9, <2>1, <2>4 DEF LinuxTakes
    <3>2. PICK put \in Message :
            /\ put.type = m.type /\ put.fds = m.fds /\ put.len = len /\ put.at = a.out
            /\ r.msgs = Append(a.msgs, put)
      BY <1>4, <2>1, <2>4 DEF LinuxTakes
    <3>3. Passable(m, srclen)
      BY <2>2, <2>4 DEF LinuxGood, Passable
    <3>4. Says(put, BsdHdr, m, LinuxHdr)
      <4>1. len - BsdHdr = m.len - LinuxHdr
        <5> HIDE DEF m
        <5> QED
          BY <1>2 DEF BsdHdr, LinuxHdr
      <4> HIDE DEF len
      <4> QED
        BY <3>2, <4>1 DEF Says
    <3>5. LinuxTook(r.msgs, r.out, r.off, k + 1, src, srclen)
      <4>1. a.msgs \in Seq(Message) /\ Len(a.msgs) = k /\ a.out \in Nat /\ a.off \in Nat
        BY <1>0, <1>2, <2>2
      <4>2. LinuxTook(Append(a.msgs, put), a.out + Align(put.len, 4), a.off + Align(m.len, 8), k + 1, src, srclen)
        BY <2>2, <2>3, <3>2, <3>3, <3>4, <4>1, LinuxTookTakes
      <4> HIDE DEF len, m
      <4> QED
        BY <3>1, <3>2, <4>2
    <3>6. r.out <= dstcap
      <4>1. m.len - LinuxHdr \in Nat
        <5> HIDE DEF m
        <5> QED
          BY <1>2, <2>4, SMTT(30) DEF LinuxGood, LinuxHdr
      <4>2. Align(len, 4) = BsdHdr + Align(m.len - LinuxHdr, 4) /\ Align(m.len - LinuxHdr, 4) \in Nat
        BY <4>1, AlignBehindHeader, AlignBy4
      <4>3. BsdHdr + Align(m.len - LinuxHdr, 4) <= dstcap - a.out
        BY <2>4 DEF LinuxGood
      <4> HIDE DEF len, m
      <4> QED
        BY <1>2, <3>1, <4>2, <4>3 DEF BsdHdr
    <3> QED
      BY <3>1, <3>5, <3>6 DEF LinuxCame, r
  <2>5. CASE ~LinuxGood(a, m, srclen, dstcap)
    <3>1. ~r.ok /\ r.out = a.out
      BY <1>4, <2>1, <2>5 DEF LinuxRefuses
    <3>2. CASE ~Passable(m, srclen)
      <4>1. ~Passes(src, srclen)
        BY <1>1, <2>3, <3>2 DEF Passes
      <4> QED
        BY <3>1, <4>1 DEF LinuxCame, r
    <3>3. CASE Passable(m, srclen)
      <4>1. PICK room \in Nat : room = m.len - LinuxHdr
        <5> HIDE DEF m
        <5> QED
          BY <1>2, <3>3 DEF Passable, LinuxHdr
      <4>2. ~(BsdHdr + Align(room, 4) <= dstcap - a.out)
        BY <2>2, <2>5, <3>3, <4>1 DEF LinuxGood, Passable
      <4>3. m.len <= srclen - a.off /\ m.len = LinuxHdr + room
        <5>1. m.len = LinuxHdr + room
          <6> HIDE DEF m
          <6> QED
            BY <1>2, <4>1 DEF LinuxHdr
        <5> QED
          BY <2>2, <3>3, <5>1 DEF Passable
      <4>4. BsdHdr + Align(room, 4) <= LinuxHdr + room /\ Align(room, 4) \in Nat
        BY XnuIsShorter, AlignBy4
      <4>5. a.out <= a.off
        BY <2>3 DEF LinuxTook
      <4>6. srclen > dstcap
        <5> HIDE DEF m
        <5> QED
          BY <1>2, <4>2, <4>3, <4>4, <4>5, SMTT(30) DEF LinuxHdr, BsdHdr
      <4> QED
        BY <3>1, <4>6 DEF LinuxCame, r
    <3> QED
      BY <3>2, <3>3
  <2> QED
    BY <2>4, <2>5
<1> QED
  BY <1>2, <1>7, <1>8, <1>9 DEF LinuxHdr

\* What reaches XNU of a buffer it can express.
LinuxPassed(msgs, src, srclen) ==
  /\ Passes(src, srclen)
  /\ msgs \in Seq(Message)
  /\ Walkable(msgs, 4)
  /\ DOMAIN msgs = {i \in DOMAIN src : Begins(src[i], srclen)}
  /\ \A i \in DOMAIN msgs : Says(msgs[i], BsdHdr, src[i], LinuxHdr)

LEMMA LinuxToXnuPasses ==
  ASSUME NEW src \in Seq(Message), Walkable(src, 8), NEW srclen \in Nat, NEW dstcap \in Nat
  PROVE  LET x == LinuxToXnu(src, srclen, dstcap) IN
         /\ x.len \in 0..dstcap
         /\ x.ok => LinuxPassed(x.msgs, src, srclen)
         /\ ~x.ok => ~Passes(src, srclen) \/ srclen > dstcap
         /\ srclen = 0 => x.ok
<1>0. PICK n \in Nat : n = Len(src)
  BY LenProperties
<1>1. PICK g : LinuxRun(g, src, srclen, dstcap)
  BY LinuxWalk
<1>2. /\ g \in [0..n -> LinuxAcc] /\ g[0] = LinuxStart(srclen)
      /\ \A k \in 1..n : g[k] = LinuxMessage(g[k - 1], src[k], srclen, dstcap)
  BY <1>0, <1>1 DEF LinuxRun
<1>3. DOMAIN src = 1..n /\ \A i \in 1..n : src[i] \in Message
  BY <1>0, LenProperties
<1> DEFINE S == {k \in Nat : k <= n => LinuxCame(g[k], k, src, srclen, dstcap)}
<1>4. 0 \in S
  <2> DEFINE a == LinuxStart(srclen)
  <2>1. a.msgs = <<>> /\ a.out = 0 /\ a.off = 0 /\ (a.ok <=> (srclen = 0 \/ srclen >= LinuxHdr))
    BY DEF LinuxStart
  <2> HIDE DEF a
  <2>2. Len(a.msgs) = 0 /\ DOMAIN a.msgs = {} /\ 1..0 = {} /\ (0 + 1)..0 = {}
    BY <2>1
  <2>3. LinuxCame(a, 0, src, srclen, dstcap)
    BY <2>1, <2>2 DEF LinuxCame, LinuxTook, Passes, Walkable
  <2> QED
    BY <1>2, <2>3 DEF a
<1>5. ASSUME NEW k \in Nat, k \in S
      PROVE  k + 1 \in S
  <2> SUFFICES ASSUME k + 1 <= n
               PROVE  LinuxCame(g[k + 1], k + 1, src, srclen, dstcap)
    OBVIOUS
  <2>1. k + 1 \in 1..n /\ k \in 0..n /\ (k + 1) - 1 = k /\ k <= n
    OBVIOUS
  <2>2. LinuxCame(g[k], k, src, srclen, dstcap)
    BY <1>5, <2>1
  <2>3. g[k + 1] = LinuxMessage(g[k], src[k + 1], srclen, dstcap) /\ g[k] \in LinuxAcc
    BY <1>2, <2>1
  <2> HIDE DEF S
  <2>4. k + 1 <= Len(src)
    BY <1>0
  <2> QED
    BY <2>2, <2>3, <2>4, LinuxCameStep
<1>6. LinuxCame(g[n], n, src, srclen, dstcap) /\ g[n] \in LinuxAcc
  <2>1. Nat \subseteq S
    <3> HIDE DEF S
    <3> QED
      BY <1>4, <1>5, Induction
  <2> QED
    BY <1>2, <2>1
<1> DEFINE x == LinuxToXnu(src, srclen, dstcap)
<1>7. x.ok = g[n].ok /\ x.msgs = g[n].msgs /\ x.len = g[n].out
  <2>1. x = [ok |-> g[n].ok, msgs |-> g[n].msgs, len |-> g[n].out]
    BY <1>0, <1>1 DEF LinuxRun
  <2> HIDE DEF x
  <2> QED
    BY <2>1
<1>8. g[n].msgs \in Seq(Message) /\ g[n].out \in Nat
  BY <1>6 DEF LinuxAcc
<1> HIDE DEF x, S
<1>9. x.len \in 0..dstcap
  BY <1>6, <1>7, <1>8 DEF LinuxCame
<1>10. ~x.ok => ~Passes(src, srclen) \/ srclen > dstcap
  BY <1>6, <1>7 DEF LinuxCame
<1>11. ASSUME srclen = 0
       PROVE  x.ok
  <2>1. \A i \in 1..n : ~Begins(src[i], srclen)
    <3>1. \A i \in 1..n : src[i].at \in Nat
      BY <1>3 DEF Message
    <3> QED
      BY <1>11, <3>1 DEF Begins, LinuxHdr
  <2>2. Passes(src, srclen)
    BY <1>3, <1>11, <2>1 DEF Passes
  <2> QED
    BY <1>10, <1>11, <2>2
<1>12. ASSUME x.ok
       PROVE  LinuxPassed(x.msgs, src, srclen)
  <2> DEFINE msgs == g[n].msgs
  <2>1. LinuxTook(msgs, g[n].out, g[n].off, n, src, srclen)
    BY <1>6, <1>7, <1>12 DEF LinuxCame
  <2>2. PICK j \in Nat : j = Len(msgs)
    BY <1>8, LenProperties
  <2>3. DOMAIN msgs = 1..j
    BY <1>8, <2>2, LenProperties
  <2> HIDE DEF msgs
  <2>4. /\ srclen = 0 \/ srclen >= LinuxHdr
        /\ j <= n /\ Walkable(msgs, 4)
        /\ \A i \in 1..j : Begins(src[i], srclen) /\ Passable(src[i], srclen) /\ Says(msgs[i], BsdHdr, src[i], LinuxHdr)
        /\ \A i \in (j + 1)..n : ~Begins(src[i], srclen)
    BY <2>1, <2>2 DEF LinuxTook
  <2>5. \A i \in 1..n : i \in 1..j \/ i \in (j + 1)..n
    OBVIOUS
  <2>6. Passes(src, srclen)
    BY <1>3, <2>4, <2>5 DEF Passes
  <2>7. 1..j = {i \in 1..n : Begins(src[i], srclen)}
    <3>1. \A i \in 1..j : i \in 1..n
      BY <2>4
    <3> QED
      BY <2>4, <2>5, <3>1
  <2>8. msgs \in Seq(Message)
    BY <1>8 DEF msgs
  <2>9. LinuxPassed(msgs, src, srclen)
    BY <1>3, <2>3, <2>4, <2>6, <2>7, <2>8 DEF LinuxPassed
  <2> QED
    BY <1>7, <2>9 DEF msgs
<1> QED
  BY <1>9, <1>10, <1>11, <1>12 DEF x

-------------------------------------------------------------------------------
(* The host fills a buffer.                                                   *)

HostAcc == [msgs : Seq(Message), len : Nat, cap : Nat, cut : BOOLEAN]

HostAccPut(acc, msgs, len) == [acc EXCEPT !.msgs = msgs, !.len = len]
HostAccCut(acc, msgs, len) == [acc EXCEPT !.cut = TRUE, !.len = len, !.msgs = msgs]

LEMMA HostAccIs ==
  ASSUME NEW acc \in HostAcc, NEW msgs \in Seq(Message), NEW len \in Nat
  PROVE  /\ LET r == HostAccPut(acc, msgs, len) IN
            r \in HostAcc /\ r.msgs = msgs /\ r.len = len /\ r.cap = acc.cap /\ r.cut = acc.cut
         /\ LET r == HostAccCut(acc, msgs, len) IN
            r \in HostAcc /\ r.msgs = msgs /\ r.len = len /\ r.cap = acc.cap /\ r.cut
<1>1. LET r == HostAccPut(acc, msgs, len) IN
      r \in HostAcc /\ r.msgs = msgs /\ r.len = len /\ r.cap = acc.cap /\ r.cut = acc.cut
  BY DEF HostAcc, HostAccPut
<1>2. LET r == HostAccCut(acc, msgs, len) IN
      r \in HostAcc /\ r.msgs = msgs /\ r.len = len /\ r.cap = acc.cap /\ r.cut
  BY DEF HostAcc, HostAccCut
<1> QED
  BY <1>1, <1>2

\* The message m where byte at is.
IsPlaced(put, m, at) == put \in Message /\ put.type = m.type /\ put.fds = m.fds /\ put.len = m.len /\ put.at = at

HostPutsWhole(acc, m, cap, r) ==
  /\ \E put : IsPlaced(put, m, acc.len) /\ r.msgs = Append(acc.msgs, put)
  /\ r.len = Smaller(acc.len + Align(m.len, 4), cap)
  /\ r.cap = acc.cap /\ r.cut = acc.cut

HostCuts(acc, m, cap, r) ==
  /\ \/ r.msgs = acc.msgs
     \/ acc.len < cap /\ \E put : IsPlaced(put, m, acc.len) /\ r.msgs = Append(acc.msgs, put)
  /\ r.len = cap /\ r.cap = acc.cap /\ r.cut

LEMMA HostPutsStep ==
  ASSUME NEW acc \in HostAcc, NEW m \in Message, NEW cap \in Nat
  PROVE  LET r == HostPuts(acc, m, cap) IN
         /\ r \in HostAcc
         /\ acc.cut => r = acc
         /\ ~acc.cut => IF acc.len + m.len <= cap THEN HostPutsWhole(acc, m, cap, r) ELSE HostCuts(acc, m, cap, r)
<1> DEFINE put == Placed(m, m.len, acc.len)
           r == HostPuts(acc, m, cap)
<1>1. m.len \in Nat /\ acc.msgs \in Seq(Message) /\ acc.len \in Nat /\ acc.cut \in BOOLEAN
  BY DEF Message, HostAcc
<1>2. IsPlaced(put, m, acc.len)
  <2>1. m.len \in Nat /\ acc.len \in Nat
    BY <1>1
  <2>2. put \in Message /\ put.type = m.type /\ put.len = m.len /\ put.fds = m.fds /\ put.at = acc.len
    BY <2>1, MessagePlaced
  <2> HIDE DEF put
  <2> QED
    BY <2>2 DEF IsPlaced
<1>3. Align(m.len, 4) \in Nat /\ BsdAlign(m.len) = Align(m.len, 4)
  BY <1>1, AlignBy4 DEF BsdAlign
<1>4. CASE acc.cut
  BY <1>4 DEF HostPuts
<1>5. CASE ~acc.cut /\ acc.len + m.len <= cap
  <2>1. r = HostAccPut(acc, Append(acc.msgs, put), Smaller(acc.len + BsdAlign(m.len), cap))
    BY <1>1, <1>5 DEF HostPuts, HostAccPut
  <2> HIDE DEF put, r
  <2>2. PICK msgs \in Seq(Message), len \in Nat :
          msgs = Append(acc.msgs, put) /\ len = Smaller(acc.len + Align(m.len, 4), cap)
    <3>1. Append(acc.msgs, put) \in Seq(Message)
      BY <1>1, <1>2, AppendProperties DEF IsPlaced
    <3>2. Smaller(acc.len + Align(m.len, 4), cap) \in Nat
      BY <1>1, <1>3 DEF Smaller
    <3> QED
      BY <3>1, <3>2
  <2>3. r = HostAccPut(acc, msgs, len)
    BY <1>3, <2>1, <2>2
  <2>4. r \in HostAcc /\ r.msgs = msgs /\ r.len = len /\ r.cap = acc.cap /\ r.cut = acc.cut
    <3> DEFINE q == HostAccPut(acc, msgs, len)
    <3>1. q \in HostAcc /\ q.msgs = msgs /\ q.len = len /\ q.cap = acc.cap /\ q.cut = acc.cut
      BY HostAccIs
    <3> HIDE DEF q
    <3> QED
      BY <2>3, <3>1 DEF q
  <2>5. HostPutsWhole(acc, m, cap, r)
    BY <1>2, <2>2, <2>4 DEF HostPutsWhole
  <2> QED
    BY <1>5, <2>4, <2>5 DEF r
<1>6. CASE ~acc.cut /\ ~(acc.len + m.len <= cap)
  <2>1. r = HostAccCut(acc, IF acc.len < cap THEN Append(acc.msgs, put) ELSE acc.msgs, cap)
    BY <1>1, <1>6 DEF HostPuts, HostAccCut
  <2> HIDE DEF put, r
  <2>2. PICK msgs \in Seq(Message) : msgs = IF acc.len < cap THEN Append(acc.msgs, put) ELSE acc.msgs
    <3>1. Append(acc.msgs, put) \in Seq(Message)
      BY <1>1, <1>2, AppendProperties DEF IsPlaced
    <3> QED
      BY <1>1, <3>1
  <2>3. r = HostAccCut(acc, msgs, cap)
    BY <2>1, <2>2
  <2>4. r \in HostAcc /\ r.msgs = msgs /\ r.len = cap /\ r.cap = acc.cap /\ r.cut
    <3> DEFINE q == HostAccCut(acc, msgs, cap)
    <3>1. q \in HostAcc /\ q.msgs = msgs /\ q.len = cap /\ q.cap = acc.cap /\ q.cut
      BY HostAccIs
    <3> HIDE DEF q
    <3> QED
      BY <2>3, <3>1 DEF q
  <2>5. HostCuts(acc, m, cap, r)
    BY <1>2, <2>2, <2>4 DEF HostCuts
  <2> QED
    BY <1>6, <2>4, <2>5 DEF r
<1> QED
  BY <1>4, <1>5, <1>6

\* The host, message by message.
HostStart(cap) == [NoControl EXCEPT !.cap = cap]

HostRun(g, list, cap) ==
  /\ g \in [0..Len(list) -> HostAcc]
  /\ g[0] = HostStart(cap)
  /\ \A k \in 1..Len(list) : g[k] = HostPuts(g[k - 1], list[k], cap)
  /\ HostFills(list, cap) = g[Len(list)]

LEMMA HostWalk ==
  ASSUME NEW list \in Seq(Message), NEW cap \in Nat
  PROVE  \E g : HostRun(g, list, cap)
<1>0. PICK n \in Nat : n = Len(list)
  BY LenProperties
<1> DEFINE start == HostStart(cap)
           step == [k \in 1..n |-> [acc \in HostAcc |-> HostPuts(acc, list[k], cap)]]
           Is(iter) == iter = [s \in SUBSET (DOMAIN list) |->
                                 IF s = {} THEN start
                                 ELSE HostPuts(iter[s \ {Max(s)}], list[Max(s)], cap)]
           walk == CHOOSE iter : Is(iter)
<1>1. n \in Nat /\ DOMAIN list = 1..n /\ \A k \in 1..n : list[k] \in Message
  BY <1>0, LenProperties
<1>2. start \in HostAcc
  <2>1. <<>> \in Seq(Message)
    BY EmptySeq
  <2> QED
    BY <2>1 DEF HostStart, NoControl, HostAcc
<1>3. \A k \in 1..n : \A acc \in HostAcc : HostPuts(acc, list[k], cap) \in HostAcc
  BY <1>1, HostPutsStep
<1>4. step \in [1..n -> [HostAcc -> HostAcc]]
  BY <1>3
<1>5. \A k \in 1..n : \A acc \in HostAcc : step[k][acc] = HostPuts(acc, list[k], cap)
  BY <1>1
<1>6. HostFills(list, cap) = walk[DOMAIN list]
  BY DEF HostFills, FoldLeft, MapThenFoldSet, HostStart
<1> HIDE DEF step, start
<1>7. Is(walk)
  <2>1. PICK iter : Walked(iter, n, HostAcc, start, step)
    BY <1>1, <1>2, <1>4, WalkExists, Zenon
  <2>2. ASSUME NEW s \in SUBSET (1..n), s # {}
        PROVE  iter[s] = HostPuts(iter[s \ {Max(s)}], list[Max(s)], cap)
    <3>1. Max(s) \in 1..n
      BY <2>2, LargestInRange, <1>1
    <3>2. iter[s \ {Max(s)}] \in HostAcc
      BY <2>1 DEF Walked
    <3> QED
      BY <1>5, <2>1, <2>2, <3>1, <3>2 DEF Walked
  <2>3. Is(iter)
    BY <1>1, <2>1, <2>2 DEF Walked
  <2> HIDE DEF Is
  <2> QED
    BY <2>3
<1> HIDE DEF walk
<1>8. walk[{}] = start
  BY <1>7
<1>9. ASSUME NEW s \in SUBSET (1..n), s # {}, walk[s \ {Max(s)}] \in HostAcc
      PROVE  walk[s] = step[Max(s)][walk[s \ {Max(s)}]]
  <2>1. Max(s) \in 1..n
    BY <1>9, LargestInRange, <1>1
  <2>2. walk[s] = HostPuts(walk[s \ {Max(s)}], list[Max(s)], cap)
    BY <1>1, <1>7, <1>9
  <2> HIDE DEF Is
  <2> QED
    BY <1>5, <1>9, <2>1, <2>2
<1>10. PICK g : Row(g, n, HostAcc, start, step, walk[1..n])
  <2> HIDE DEF Is
  <2> QED
    BY <1>1, <1>2, <1>4, <1>8, <1>9, WalkedRow, Zenon
<1>11. \A k \in 1..n : g[k - 1] \in HostAcc
  BY <1>1, <1>10 DEF Row
<1>12. \A k \in 1..n : g[k] = HostPuts(g[k - 1], list[k], cap)
  BY <1>5, <1>10, <1>11 DEF Row
<1>13. HostRun(g, list, cap)
  BY <1>0, <1>1, <1>6, <1>10, <1>12 DEF HostRun, Row, start
<1> QED
  BY <1>13

\* What the host has put there of the first k messages.
HostPutThem(msgs, len, cut, k, list, cap) ==
  LET n == Len(msgs) IN
  /\ n <= k /\ len <= cap
  /\ Walkable(msgs, 4)
  /\ \A i \in 1..n : IsPlaced(msgs[i], list[i], msgs[i].at)
  /\ \A i \in 1..n : ~cut \/ i # n => EndsIn(msgs[i], len)
  /\ ~cut => n = k
  /\ ~cut /\ n # 0 => len = cap \/ len = msgs[n].at + Align(msgs[n].len, 4)
  /\ ~cut /\ n = 0 => len = 0

\* One more, whole or cut.
LEMMA HostPutsMore ==
  ASSUME NEW list, NEW cap \in Nat, NEW k \in Nat, NEW msgs \in Seq(Message), NEW len \in Nat,
         HostPutThem(msgs, len, FALSE, k, list, cap), len < cap,
         NEW put, IsPlaced(put, list[k + 1], len),
         NEW end \in Nat, NEW cut \in BOOLEAN, len <= end, end <= cap,
         ~cut => EndsIn(put, end) /\ (end = cap \/ end = len + Align(put.len, 4))
  PROVE  HostPutThem(Append(msgs, put), end, cut, k + 1, list, cap)
<1> DEFINE more == Append(msgs, put)
<1>0. put \in Message /\ Len(msgs) = k
  BY DEF IsPlaced, HostPutThem
<1>1. /\ DOMAIN more = 1..(k + 1) /\ DOMAIN msgs = 1..k /\ more[k + 1] = put /\ Len(more) = k + 1
      /\ \A i \in 1..k : more[i] = msgs[i]
  BY <1>0, Appended
<1>2. msgs = <<>> <=> k = 0
  BY <1>0, EmptySeq
<1>3. put.at = len
  BY DEF IsPlaced
<1>4. Walkable(more, 4)
  <2>1. msgs # <<>> => put.at = msgs[Len(msgs)].at + Align(msgs[Len(msgs)].len, 4)
    BY <1>0, <1>2, <1>3 DEF HostPutThem
  <2>2. msgs = <<>> => put.at = 0
    BY <1>0, <1>2, <1>3 DEF HostPutThem
  <2> QED
    BY <1>0, <2>1, <2>2, WalkableAppend DEF HostPutThem
<1>5. \A i \in 1..k : msgs[i].at \in Nat /\ msgs[i].len \in Nat
  <2>1. \A i \in 1..k : msgs[i] \in Message
    BY <1>0, LenProperties
  <2>2. \A m \in Message : m.len \in Nat /\ m.at \in Nat
    BY DEF Message
  <2> QED
    BY <2>1, <2>2
<1> HIDE DEF more
<1>6. ASSUME NEW i \in 1..(k + 1)
      PROVE  IsPlaced(more[i], list[i], more[i].at) /\ (~cut \/ i # k + 1 => EndsIn(more[i], end))
  <2>1. CASE i \in 1..k
    <3>1. IsPlaced(msgs[i], list[i], msgs[i].at) /\ EndsIn(msgs[i], len)
      BY <1>0, <2>1 DEF HostPutThem
    <3>2. EndsIn(msgs[i], end)
      BY <1>5, <2>1, <3>1 DEF EndsIn
    <3> QED
      BY <1>1, <2>1, <3>1, <3>2
  <2>2. CASE i = k + 1
    BY <1>1, <1>3, <2>2
  <2> QED
    BY <2>1, <2>2
<1>7. ~cut => end = cap \/ end = more[k + 1].at + Align(more[k + 1].len, 4)
  BY <1>1, <1>3
<1>8. k + 1 # 0
  OBVIOUS
<1> QED
  BY <1>1, <1>4, <1>6, <1>7, <1>8 DEF HostPutThem, more

LEMMA HostPutsNext ==
  ASSUME NEW list \in Seq(Message), NEW cap \in Nat, NEW k \in Nat, k + 1 <= Len(list),
         list[k + 1].len >= BsdHdr,
         NEW a \in HostAcc, HostPutThem(a.msgs, a.len, a.cut, k, list, cap)
  PROVE  LET r == HostPuts(a, list[k + 1], cap) IN HostPutThem(r.msgs, r.len, r.cut, k + 1, list, cap)
<1> DEFINE m == list[k + 1]
           r == HostPuts(a, m, cap)
<1>1. m \in Message
  BY LenProperties
<1>2. m.len \in Nat /\ a.len \in Nat /\ a.msgs \in Seq(Message) /\ a.cut \in BOOLEAN /\ m.len >= BsdHdr
  <2>1. \A p \in Message : p.len \in Nat
    BY DEF Message
  <2>2. a.len \in Nat /\ a.msgs \in Seq(Message) /\ a.cut \in BOOLEAN
    BY DEF HostAcc
  <2> QED
    BY <1>1, <2>1, <2>2
<1>3. /\ r \in HostAcc
      /\ a.cut => r = a
      /\ ~a.cut => IF a.len + m.len <= cap THEN HostPutsWhole(a, m, cap, r) ELSE HostCuts(a, m, cap, r)
  <2> HIDE DEF m
  <2> QED
    BY <1>1, HostPutsStep
<1>4. Align(m.len, 4) \in Nat /\ m.len <= Align(m.len, 4)
  BY <1>2, AlignBy4
<1>5. a.len <= cap
  BY DEF HostPutThem
<1> HIDE DEF r
<1>6. CASE a.cut
  <2>1. r = a
    BY <1>3, <1>6
  <2>2. HostPutThem(a.msgs, a.len, a.cut, k + 1, list, cap)
    <3>1. PICK n \in Nat : n = Len(a.msgs)
      BY <1>2, LenProperties
    <3>2. n <= k + 1
      BY <3>1 DEF HostPutThem
    <3> QED
      BY <1>6, <3>1, <3>2 DEF HostPutThem
  <2> QED
    BY <2>1, <2>2 DEF r
<1>7. CASE ~a.cut /\ a.len + m.len <= cap
  <2>1. PICK put : IsPlaced(put, m, a.len) /\ r.msgs = Append(a.msgs, put)
    BY <1>3, <1>7 DEF HostPutsWhole
  <2>2. r.len = Smaller(a.len + Align(m.len, 4), cap) /\ r.cut = FALSE
    BY <1>2, <1>3, <1>7 DEF HostPutsWhole
  <2>3. a.len < cap /\ r.len \in Nat /\ a.len <= r.len /\ r.len <= cap
    <3> HIDE DEF m
    <3> QED
      BY <1>2, <1>4, <1>7, <2>2, SMTT(30) DEF Smaller, BsdHdr
  <2>4. put.len = m.len /\ put.at = a.len
    BY <2>1 DEF IsPlaced
  <2>5. EndsIn(put, r.len) /\ (r.len = cap \/ r.len = a.len + Align(put.len, 4))
    <3> HIDE DEF m
    <3> QED
      BY <1>2, <1>4, <1>7, <2>2, <2>4 DEF Smaller, EndsIn
  <2>6. HostPutThem(a.msgs, a.len, FALSE, k, list, cap)
    BY <1>2, <1>7
  <2>7. HostPutThem(Append(a.msgs, put), r.len, FALSE, k + 1, list, cap)
    BY <1>2, <2>1, <2>3, <2>5, <2>6, HostPutsMore
  <2> QED
    BY <2>1, <2>2, <2>7 DEF r
<1>8. CASE ~a.cut /\ ~(a.len + m.len <= cap)
  <2>1. r.len = cap /\ r.cut = TRUE
    BY <1>3, <1>8 DEF HostCuts, HostAcc
  <2>2. HostPutThem(a.msgs, a.len, FALSE, k, list, cap)
    BY <1>2, <1>8
  <2>3. CASE r.msgs = a.msgs
    <3>1. PICK n \in Nat : n = Len(a.msgs)
      BY <1>2, LenProperties
    <3>2. n = k /\ n <= k + 1 /\ cap <= cap
      BY <2>2, <3>1 DEF HostPutThem
    <3>3. \A i \in 1..n : EndsIn(a.msgs[i], cap)
      <4>1. \A i \in 1..n : EndsIn(a.msgs[i], a.len)
        BY <2>2, <3>1 DEF HostPutThem
      <4>2. \A i \in 1..n : a.msgs[i].at \in Nat /\ a.msgs[i].len \in Nat
        <5>1. \A i \in 1..n : a.msgs[i] \in Message
          BY <1>2, <3>1, LenProperties
        <5>2. \A p \in Message : p.len \in Nat /\ p.at \in Nat
          BY DEF Message
        <5> QED
          BY <5>1, <5>2
      <4>3. a.len \in Nat
        BY <1>2
      <4> SUFFICES ASSUME NEW i \in 1..n PROVE EndsIn(a.msgs[i], cap)
        OBVIOUS
      <4>4. a.msgs[i].at + a.msgs[i].len <= a.len /\ a.msgs[i].at \in Nat /\ a.msgs[i].len \in Nat
        BY <4>1, <4>2 DEF EndsIn
      <4> QED
        BY <1>5, <4>3, <4>4, SMTT(30) DEF EndsIn
    <3>4. HostPutThem(a.msgs, cap, TRUE, k + 1, list, cap)
      BY <2>2, <3>1, <3>2, <3>3 DEF HostPutThem
    <3> QED
      BY <2>1, <2>3, <3>4 DEF r
  <2>4. CASE r.msgs # a.msgs
    <3>1. PICK put : IsPlaced(put, m, a.len) /\ r.msgs = Append(a.msgs, put) /\ a.len < cap
      BY <1>3, <1>8, <2>4 DEF HostCuts
    <3>2. PICK end \in Nat, cut \in BOOLEAN : end = cap /\ cut
      OBVIOUS
    <3>3. a.len <= end /\ end <= cap
      BY <1>5, <3>2
    <3>4. HostPutThem(Append(a.msgs, put), end, cut, k + 1, list, cap)
      BY <1>2, <2>2, <3>1, <3>2, <3>3, HostPutsMore
    <3>5. cut = TRUE
      BY <3>2
    <3> QED
      BY <2>1, <3>1, <3>2, <3>4, <3>5 DEF r
  <2> QED
    BY <2>3, <2>4
<1> QED
  BY <1>6, <1>7, <1>8

LEMMA HostFillsHas ==
  ASSUME NEW list \in Seq(Message), Honest(list), NEW room \in Nat, NEW cap \in Nat, room <= cap
  PROVE  HostHas([HostFills(list, room) EXCEPT !.cap = cap])
<1>0. PICK n \in Nat : n = Len(list)
  BY LenProperties
<1>1. PICK g : HostRun(g, list, room)
  BY HostWalk
<1>2. /\ g \in [0..n -> HostAcc] /\ g[0] = HostStart(room)
      /\ \A k \in 1..n : g[k] = HostPuts(g[k - 1], list[k], room)
  BY <1>0, <1>1 DEF HostRun
<1>3. DOMAIN list = 1..n /\ \A i \in 1..n : list[i] \in Message
  BY <1>0, LenProperties
<1> DEFINE S == {k \in Nat : k <= n => HostPutThem(g[k].msgs, g[k].len, g[k].cut, k, list, room)}
<1>4. 0 \in S
  <2> DEFINE a == HostStart(room)
  <2>1. a.msgs = <<>> /\ a.len = 0 /\ a.cut = FALSE
    BY DEF HostStart, NoControl
  <2> HIDE DEF a
  <2>2. Len(a.msgs) = 0 /\ DOMAIN a.msgs = {} /\ 1..0 = {}
    BY <2>1
  <2>3. HostPutThem(a.msgs, a.len, a.cut, 0, list, room)
    BY <2>1, <2>2 DEF HostPutThem, Walkable
  <2> QED
    BY <1>2, <2>3 DEF a
<1>5. ASSUME NEW k \in Nat, k \in S
      PROVE  k + 1 \in S
  <2> SUFFICES ASSUME k + 1 <= n
               PROVE  HostPutThem(g[k + 1].msgs, g[k + 1].len, g[k + 1].cut, k + 1, list, room)
    OBVIOUS
  <2>1. k + 1 \in 1..n /\ k \in 0..n /\ (k + 1) - 1 = k /\ k <= n
    OBVIOUS
  <2>2. HostPutThem(g[k].msgs, g[k].len, g[k].cut, k, list, room)
    BY <1>5, <2>1
  <2>3. g[k + 1] = HostPuts(g[k], list[k + 1], room) /\ g[k] \in HostAcc
    BY <1>2, <2>1
  <2>4. k + 1 <= Len(list) /\ list[k + 1].len >= BsdHdr
    BY <1>0, <1>3, <2>1 DEF Honest
  <2> HIDE DEF S
  <2> QED
    BY <2>2, <2>3, <2>4, HostPutsNext
<1>6. HostPutThem(g[n].msgs, g[n].len, g[n].cut, n, list, room) /\ g[n] \in HostAcc
  <2>1. Nat \subseteq S
    <3> HIDE DEF S
    <3> QED
      BY <1>4, <1>5, Induction
  <2> QED
    BY <1>2, <2>1
<1> DEFINE c == [HostFills(list, room) EXCEPT !.cap = cap]
<1>7. c.msgs = g[n].msgs /\ c.len = g[n].len /\ c.cut = g[n].cut /\ c.cap = cap
  <2>1. PICK h \in HostAcc : h = g[n]
    BY <1>6
  <2>2. HostFills(list, room) = h
    BY <1>0, <1>1, <2>1 DEF HostRun
  <2>3. c = [h EXCEPT !.cap = cap]
    BY <2>2
  <2> HIDE DEF c
  <2>4. c.msgs = h.msgs /\ c.len = h.len /\ c.cut = h.cut /\ c.cap = cap
    BY <2>3 DEF HostAcc
  <2> QED
    BY <2>1, <2>4
<1> HIDE DEF c, S
<1>8. c.msgs \in Seq(Message) /\ c.len \in Nat /\ c.cut \in BOOLEAN /\ c.cap \in Nat
  BY <1>6, <1>7 DEF HostAcc
<1>9. PICK j \in Nat : j = Len(c.msgs) /\ DOMAIN c.msgs = 1..j
  BY <1>8, LenProperties
<1>10. /\ j <= n /\ c.len <= room /\ Walkable(c.msgs, 4)
       /\ \A i \in 1..j : IsPlaced(c.msgs[i], list[i], c.msgs[i].at)
       /\ \A i \in 1..j : ~c.cut \/ i # j => EndsIn(c.msgs[i], c.len)
  BY <1>6, <1>7, <1>9 DEF HostPutThem
<1>11. Honest(c.msgs)
  <2>1. \A i \in 1..j : i \in DOMAIN list
    BY <1>3, <1>10
  <2>2. \A i \in 1..j : Files(c.msgs[i]) = Files(list[i])
    BY <1>10 DEF IsPlaced, Files
  <2>3. \A i \in 1..j : c.msgs[i].len = list[i].len /\ c.msgs[i].type = list[i].type /\ c.msgs[i].fds = list[i].fds
    BY <1>10 DEF IsPlaced
  <2> QED
    BY <1>9, <2>1, <2>2, <2>3 DEF Honest
<1>12. c.len \in 0..c.cap
  BY <1>7, <1>8, <1>10
<1> QED
  BY <1>8, <1>9, <1>10, <1>11, <1>12 DEF HostHas, c

-------------------------------------------------------------------------------
(* What crosses in buffers.                                                   *)

\* The program has of the host's buffer what xnu_to_linux makes of it.
Gives ==
  /\ XnuGives(got.msgs, got.len, got.closed, control, control.cap)
  /\ got.trunc \in BOOLEAN
  /\ ~got.trunc => XnuGivesAll(got.msgs, control)

\* recvmsg: nothing has come to the program until the call is back.
RecvInv ==
  /\ HostHas(control)
  /\ host # "xnu" => control.msgs = <<>>
  /\ pc["thread"] \in {"real", "back"} => got = NothingGot
  /\ got = NothingGot \/ (host = "xnu" /\ Gives)
  /\ pc["thread"] = "idle" /\ kind["thread"] = "recvmsg" /\ res["thread"] = "ok" /\ host = "xnu" => Gives

\* sendmsg: what it has refused could not cross.
SendInv ==
  /\ sent.passed.len \in 0..CtlMax
  /\ kind["thread"] = "sendmsg" =>
       IF res["thread"] = "refused"
         THEN host = "xnu" => ~Passes(sent.given.msgs, sent.given.len) \/ sent.given.len > CtlMax
         ELSE LinuxPassed(sent.passed.msgs, sent.given.msgs, sent.given.len)

\* The thread's result while its call is under way.
StepsInv ==
  /\ pc["thread"] = "real" => res["thread"] = "none"
  /\ pc["thread"] \in {"fix", "write"} => res["thread"] \in {"failed", "unset"}

LEMMA EmptyControl ==
  ASSUME NEW cap \in Nat
  PROVE  LET c == [NoControl EXCEPT !.cap = cap] IN HostHas(c) /\ c.msgs = <<>> /\ c.cap = cap
<1> DEFINE c == [NoControl EXCEPT !.cap = cap]
<1>1. c.msgs = <<>> /\ c.len = 0 /\ c.cap = cap /\ c.cut = FALSE
  BY DEF NoControl
<1> HIDE DEF c
<1>2. c.msgs \in Seq(Message) /\ DOMAIN c.msgs = {}
  BY <1>1, EmptySeq
<1>3. HostHas(c)
  <2>1. c.len \in 0..c.cap /\ c.cap \in Nat
    <3>1. c.len = 0 /\ c.cap = cap
      BY <1>1
    <3> QED
      BY <3>1
  <2>2. Honest(c.msgs) /\ Walkable(c.msgs, 4)
    BY <1>2 DEF Honest, Walkable
  <2>3. c.cut \in BOOLEAN
    BY <1>1, Zenon
  <2> QED
    BY <1>2, <2>1, <2>2, <2>3 DEF HostHas
<1> QED
  BY <1>1, <1>3 DEF c

LEMMA NoControlHas == HostHas(NoControl) /\ NoControl.msgs = <<>>
<1>1. NoControl = [NoControl EXCEPT !.cap = 0]
  BY DEF NoControl
<1> QED
  BY <1>1, EmptyControl

\* Those that arrive are as honest as recvmsg's buffer needs them.
LEMMA IncomingHonest ==
  ASSUME NEW list \in Incoming
  PROVE  list \in Seq(Message) /\ Honest(list)
<1>1. /\ list \in Seq(Message)
      /\ \A i \in DOMAIN list : list[i].len >= BsdHdr /\ (list[i].type # "rights" => list[i].fds = <<>>)
      /\ \A i, j \in DOMAIN list : \A a \in DOMAIN list[i].fds, b \in DOMAIN list[j].fds :
           list[i].fds[a] = list[j].fds[b] => i = j
  BY IncomingAssumption
<1>2. ASSUME NEW i \in DOMAIN list, NEW j \in DOMAIN list, Files(list[i]) \intersect Files(list[j]) # {}
      PROVE  i = j
  <2>1. PICK fd : fd \in Files(list[i]) /\ fd \in Files(list[j])
    BY <1>2
  <2>2. PICK a \in DOMAIN list[i].fds, b \in DOMAIN list[j].fds : list[i].fds[a] = fd /\ list[j].fds[b] = fd
    BY <2>1 DEF Files
  <2> QED
    BY <1>1, <2>2
<1> QED
  BY <1>1, <1>2 DEF Honest

\* The calls of the thread that have no control messages, and recvmsg's beginning.
LEMMA RecvBegins ==
  ASSUME control' = NoControl \/ \E cap \in Caps : control' = [NoControl EXCEPT !.cap = cap],
         got' = NothingGot,
         pc'["thread"] # "idle" \/ kind'["thread"] # "recvmsg"
  PROVE  RecvInv'
<1>1. HostHas(control') /\ control'.msgs = <<>>
  <2>1. CASE control' = NoControl
    BY <2>1, NoControlHas
  <2>2. CASE \E cap \in Caps : control' = [NoControl EXCEPT !.cap = cap]
    <3>1. PICK cap \in Caps : control' = [NoControl EXCEPT !.cap = cap]
      BY <2>2
    <3>2. cap \in Nat
      BY CtlAssumption
    <3> QED
      BY <3>1, <3>2, EmptyControl
  <2> QED
    BY <2>1, <2>2
<1> QED
  BY <1>1 DEF RecvInv

\* A step that leaves the buffers and the thread's call alone.
LEMMA RecvStays ==
  ASSUME RecvInv, UNCHANGED <<host, control, got>>,
         pc'["thread"] \in {"real", "back"} => pc["thread"] \in {"real", "back"},
         pc'["thread"] = "idle" /\ kind'["thread"] = "recvmsg" /\ res'["thread"] = "ok" /\ host = "xnu" => Gives
  PROVE  RecvInv'
<1>1. Gives' <=> Gives
  BY DEF Gives
<1> QED
  BY <1>1 DEF RecvInv

\* recvmsg's buffer comes back.
LEMMA RecvBack ==
  ASSUME TypeInv, RecvInv, Back("thread")
  PROVE  RecvInv'
<1>1. /\ pc["thread"] = "back" /\ got' = ControlBack /\ UNCHANGED <<host, kind, res, control>>
      /\ pc'["thread"] \in {"fix", "idle"}
  BY DEF Back, At, Return, Goto, TypeInv
<1>2. got = NothingGot /\ HostHas(control)
  BY <1>1 DEF RecvInv
<1>3. CASE kind["thread"] = "recvmsg" /\ res["thread"] = "ok" /\ host = "xnu"
  <2> DEFINE x == XnuToLinux(control.msgs, control.len, control.cap)
  <2>1. control.cap \in Nat
    BY <1>2 DEF HostHas
  <2>2. /\ XnuGives(x.msgs, x.len, x.closed, control, control.cap)
        /\ x.trunc \in BOOLEAN
        /\ ~x.trunc /\ ~control.cut => XnuGivesAll(x.msgs, control)
    BY <1>2, <2>1, XnuToLinuxGives
  <2>3. x = [msgs |-> x.msgs, len |-> x.len, trunc |-> x.trunc, closed |-> x.closed]
    BY DEF XnuToLinux
  <2>4. got' = [x EXCEPT !.trunc = x.trunc \/ control.cut]
    BY <1>1, <1>3 DEF ControlBack
  <2> HIDE DEF x
  <2>5. got'.msgs = x.msgs /\ got'.len = x.len /\ got'.closed = x.closed /\ got'.trunc = (x.trunc \/ control.cut)
    BY <2>3, <2>4
  <2>6. Gives'
    <3>1. got'.trunc \in BOOLEAN
      BY <2>5
    <3>2. ~got'.trunc => XnuGivesAll(x.msgs, control)
      BY <2>2, <2>5
    <3> QED
      BY <1>1, <2>2, <2>5, <3>1, <3>2 DEF Gives
  <2> QED
    BY <1>1, <1>2, <1>3, <2>6 DEF RecvInv
<1>4. CASE ~(kind["thread"] = "recvmsg" /\ res["thread"] = "ok" /\ host = "xnu")
  <2>1. got' = NothingGot
    BY <1>1, <1>2, <1>4 DEF ControlBack
  <2> QED
    BY <1>1, <1>4, <2>1 DEF RecvInv
<1> QED
  BY <1>3, <1>4

\* The host fills recvmsg's buffer.
LEMMA RecvFills ==
  ASSUME TypeInv, RecvInv, RealRecvmsg
  PROVE  RecvInv'
<1>1. pc["thread"] = "real" /\ pc'["thread"] = "back" /\ UNCHANGED <<host, got>>
  BY DEF RealRecvmsg, At, Goto, TypeInv
<1>2. PICK list \in Incoming :
        control' = IF host = "xnu"
                     THEN [HostFills(list, Smaller(control.cap, CtlMax)) EXCEPT !.cap = control.cap]
                     ELSE control
  BY DEF RealRecvmsg
<1>3. HostHas(control') /\ (host # "xnu" => control'.msgs = <<>>)
  <2>1. CASE host = "xnu"
    <3>1. control.cap \in Nat /\ CtlMax \in Nat
      BY CtlAssumption DEF RecvInv, HostHas
    <3>2. PICK room \in Nat : room = Smaller(control.cap, CtlMax) /\ room <= control.cap
      BY <3>1 DEF Smaller
    <3>3. HostHas([HostFills(list, room) EXCEPT !.cap = control.cap])
      BY <3>1, <3>2, IncomingHonest, HostFillsHas
    <3> QED
      BY <1>2, <2>1, <3>2, <3>3
  <2>2. CASE host # "xnu"
    BY <1>2, <2>2 DEF RecvInv
  <2> QED
    BY <2>1, <2>2
<1> QED
  BY <1>1, <1>3 DEF RecvInv

LEMMA RecvStep ==
  ASSUME TypeInv, StepsInv, RecvInv, [Next]_vars
  PROVE  RecvInv'
<1> USE DEF TypeInv, Goto
<1>1. CASE UNCHANGED vars
  <2>1. UNCHANGED <<host, control, got, pc, kind, res>>
    BY <1>1 DEF vars, io
  <2> QED
    BY <2>1, RecvStays DEF RecvInv
<1>2. ASSUME NEW f \in Frames, Call(f)
      PROVE  RecvInv'
  <2>1. CASE f = "thread"
    <3>1. control' = NoControl /\ got' = NothingGot /\ pc'["thread"] = "real"
      BY <1>2, <2>1 DEF Call, NoIO, Begin
    <3> QED
      BY <3>1, RecvBegins
  <2>2. CASE f = "handler"
    <3>1. UNCHANGED <<host, control, got, pc["thread"], kind["thread"], res["thread"]>>
      BY <1>2, <2>2 DEF Call, Begin, io
    <3> QED
      BY <3>1, RecvStays DEF RecvInv
  <2> QED
    BY <2>1, <2>2
<1>3. CASE CallRefused
  <2>1. control' = NoControl /\ got' = NothingGot /\ kind'["thread"] = "own"
    BY <1>3 DEF CallRefused, NoIO
  <2> QED
    BY <2>1, RecvBegins
<1>4. CASE CallPoll \/ CallRecvmsg
  <2>1. /\ control' = NoControl \/ \E cap \in Caps : control' = [NoControl EXCEPT !.cap = cap]
        /\ got' = NothingGot /\ pc'["thread"] = "real"
    BY <1>4 DEF CallPoll, CallRecvmsg, Begin
  <2> QED
    BY <2>1, RecvBegins
<1>5. CASE CallSendmsg
  <2>1. Begin("thread", "sendmsg", errno) \/ kind' = [kind EXCEPT !["thread"] = "sendmsg"]
    BY <1>5 DEF CallSendmsg
  <2>2. kind'["thread"] = "sendmsg" /\ control' = NoControl /\ got' = NothingGot
    BY <1>5, <2>1 DEF CallSendmsg, Begin
  <2> QED
    BY <2>2, RecvBegins
<1>6. CASE RealPoll
  <2>1. UNCHANGED <<host, control, got>> /\ pc["thread"] = "real" /\ pc'["thread"] = "back"
    BY <1>6 DEF RealPoll, At
  <2> QED
    BY <2>1, RecvStays
<1>7. ASSUME NEW f \in Frames, RealFails(f) \/ RealLeavesErrno(f) \/ RealSucceeds(f)
      PROVE  RecvInv'
  <2>1. UNCHANGED <<host, control, got>> /\ pc[f] = "real" /\ pc' = [pc EXCEPT ![f] = "back"]
        /\ kind' = kind /\ \A g \in Frames \ {f} : res'[g] = res[g]
    BY <1>7 DEF RealFails, RealLeavesErrno, RealSucceeds, At, io
  <2>2. CASE f = "thread"
    BY <2>1, <2>2, RecvStays
  <2>3. CASE f = "handler"
    BY <2>1, <2>3, RecvStays DEF RecvInv
  <2> QED
    BY <2>2, <2>3
<1>8. ASSUME NEW f \in Frames, Back(f)
      PROVE  RecvInv'
  <2>1. CASE f = "thread"
    BY <1>8, <2>1, RecvBack
  <2>2. CASE f = "handler"
    <3>1. UNCHANGED <<host, control, got, pc["thread"], kind, res>>
      BY <1>8, <2>2 DEF Back, Return
    <3> QED
      BY <3>1, RecvStays DEF RecvInv
  <2> QED
    BY <2>1, <2>2
<1>9. ASSUME NEW f \in Frames, FixRead(f) \/ FixWrite(f)
      PROVE  RecvInv'
  <2>1. UNCHANGED <<host, control, got, kind, res>> /\ pc[f] \in {"fix", "write"}
        /\ pc'[f] \in {"write", "idle", "leave"} /\ \A g \in Frames \ {f} : pc'[g] = pc[g]
    BY <1>9 DEF FixRead, FixWrite, At, Return, io
  <2>2. CASE f = "thread"
    BY <2>1, <2>2, RecvStays DEF StepsInv
  <2>3. CASE f = "handler"
    BY <2>1, <2>3, RecvStays DEF RecvInv
  <2> QED
    BY <2>2, <2>3
<1>10. CASE Deliver \/ Leave
  <2>1. UNCHANGED <<host, control, got, pc["thread"], kind["thread"], res["thread"]>>
    BY <1>10 DEF Deliver, Leave, Forget, io
  <2> QED
    BY <2>1, RecvStays DEF RecvInv
<1>11. CASE RealRecvmsg
  BY <1>11, RecvFills
<1> QED
  BY <1>1, <1>2, <1>3, <1>4, <1>5, <1>6, <1>7, <1>8, <1>9, <1>10, <1>11 DEF Next

LEMMA StepsStep ==
  ASSUME TypeInv, StepsInv, [Next]_vars
  PROVE  StepsInv'
<1> USE DEF TypeInv, StepsInv, Goto
<1>1. CASE UNCHANGED vars
  BY <1>1 DEF vars
<1>2. ASSUME NEW f \in Frames, Call(f)
      PROVE  StepsInv'
  BY <1>2 DEF Call, Begin
<1>3. CASE CallRefused
  BY <1>3 DEF CallRefused, Refuse, Idle
<1>4. CASE CallPoll \/ CallRecvmsg
  BY <1>4 DEF CallPoll, CallRecvmsg, Begin
<1>5. CASE CallSendmsg
  <2>1. Begin("thread", "sendmsg", errno) \/ Refuse(EINVAL_LINUX)
    BY <1>5 DEF CallSendmsg
  <2>2. pc["thread"] = "idle"
    BY <1>5 DEF CallSendmsg, Idle
  <2> QED
    BY <2>1, <2>2 DEF Begin, Refuse
<1>6. CASE RealPoll \/ RealRecvmsg
  BY <1>6 DEF RealPoll, RealRecvmsg
<1>7. ASSUME NEW f \in Frames, RealFails(f) \/ RealLeavesErrno(f) \/ RealSucceeds(f)
      PROVE  StepsInv'
  BY <1>7 DEF RealFails, RealLeavesErrno, RealSucceeds
<1>8. ASSUME NEW f \in Frames, Back(f)
      PROVE  StepsInv'
  BY <1>8 DEF Back, Return, AsksForFix
<1>9. ASSUME NEW f \in Frames, FixRead(f) \/ FixWrite(f)
      PROVE  StepsInv'
  BY <1>9 DEF FixRead, FixWrite, At, Return
<1>10. CASE Deliver \/ Leave
  BY <1>10 DEF Deliver, Leave, Forget
<1> QED
  BY <1>1, <1>2, <1>3, <1>4, <1>5, <1>6, <1>7, <1>8, <1>9, <1>10 DEF Next

\* sendmsg converts what it is given, or refuses it.
LEMMA SendBegins ==
  ASSUME TypeInv, CallSendmsg
  PROVE  SendInv'
<1>1. PICK c \in Outgoing :
        LET x == LinuxToXnu(c.src, c.srclen, CtlMax)
            passes == c.srclen = 0 \/ (host = "xnu" /\ c.srclen <= CtlMax /\ x.ok)
        IN
        \/ /\ passes
           /\ Begin("thread", "sendmsg", errno)
           /\ sent' = [given |-> [msgs |-> c.src, len |-> c.srclen],
                       passed |-> [msgs |-> x.msgs, len |-> x.len]]
        \/ /\ ~passes
           /\ kind' = [kind EXCEPT !["thread"] = "sendmsg"]
           /\ Refuse(EINVAL_LINUX)
           /\ sent' = [NothingSent EXCEPT !.given = [msgs |-> c.src, len |-> c.srclen]]
  BY DEF CallSendmsg
<1> DEFINE x == LinuxToXnu(c.src, c.srclen, CtlMax)
           passes == c.srclen = 0 \/ (host = "xnu" /\ c.srclen <= CtlMax /\ x.ok)
<1>2. /\ c.src \in Seq(Message) /\ c.srclen \in Nat /\ Walkable(c.src, 8) /\ CtlMax \in Nat
  BY OutgoingAssumption, CtlAssumption
<1>3. /\ x.len \in 0..CtlMax
      /\ x.ok => LinuxPassed(x.msgs, c.src, c.srclen)
      /\ ~x.ok => ~Passes(c.src, c.srclen) \/ c.srclen > CtlMax
      /\ c.srclen = 0 => x.ok
  BY <1>2, LinuxToXnuPasses
<1> HIDE DEF x
<1>4. CASE passes /\ Begin("thread", "sendmsg", errno)
           /\ sent' = [given |-> [msgs |-> c.src, len |-> c.srclen], passed |-> [msgs |-> x.msgs, len |-> x.len]]
  <2>1. res'["thread"] = "none"
    BY <1>4 DEF Begin, TypeInv
  <2>2. LinuxPassed(x.msgs, c.src, c.srclen)
    BY <1>3, <1>4
  <2>3. sent'.passed.msgs = x.msgs /\ sent'.passed.len = x.len /\ sent'.given.msgs = c.src /\ sent'.given.len = c.srclen
    BY <1>4
  <2> QED
    BY <1>3, <2>1, <2>2, <2>3 DEF SendInv
<1>5. CASE ~passes /\ Refuse(EINVAL_LINUX)
           /\ sent' = [NothingSent EXCEPT !.given = [msgs |-> c.src, len |-> c.srclen]]
  <2>1. res'["thread"] = "refused" /\ host' = host
    BY <1>5 DEF Refuse, TypeInv
  <2>2. sent'.passed.len = 0 /\ sent'.given.msgs = c.src /\ sent'.given.len = c.srclen
    BY <1>5 DEF NothingSent, NoMessages
  <2>3. 0 \in 0..CtlMax
    BY <1>2
  <2>4. host = "xnu" => ~Passes(c.src, c.srclen) \/ c.srclen > CtlMax
    BY <1>2, <1>3, <1>5
  <2> QED
    BY <2>1, <2>2, <2>3, <2>4 DEF SendInv
<1> QED
  BY <1>1, <1>4, <1>5 DEF x

LEMMA SendStep ==
  ASSUME TypeInv, StepsInv, SendInv, [Next]_vars
  PROVE  SendInv'
<1> USE DEF TypeInv, Goto
<1>0. ASSUME sent' = NothingSent
      PROVE  sent'.passed.len \in 0..CtlMax
  BY <1>0, CtlAssumption DEF NothingSent, NoMessages
<1>1. CASE UNCHANGED vars
  BY <1>1 DEF vars, io, SendInv
<1>2. ASSUME NEW f \in Frames, Call(f)
      PROVE  SendInv'
  <2>1. CASE f = "thread"
    <3>1. sent' = NothingSent /\ kind'["thread"] # "sendmsg"
      BY <1>2, <2>1 DEF Call, NoIO, Begin, KindsOf, PlainKinds
    <3> QED
      BY <1>0, <3>1 DEF SendInv
  <2>2. CASE f = "handler"
    BY <1>2, <2>2 DEF Call, Begin, io, SendInv
  <2> QED
    BY <2>1, <2>2
<1>3. CASE CallRefused \/ CallPoll \/ CallRecvmsg
  <2>1. sent' = NothingSent /\ kind'["thread"] # "sendmsg"
    BY <1>3 DEF CallRefused, CallPoll, CallRecvmsg, NoIO, Begin
  <2> QED
    BY <1>0, <2>1 DEF SendInv
<1>4. CASE CallSendmsg
  BY <1>4, SendBegins
<1>5. CASE RealPoll \/ RealRecvmsg
  <2>1. /\ UNCHANGED <<host, sent, kind>> /\ kind["thread"] # "sendmsg"
    BY <1>5 DEF RealPoll, RealRecvmsg
  <2> QED
    BY <2>1 DEF SendInv
<1>6. ASSUME NEW f \in Frames, RealFails(f) \/ RealLeavesErrno(f) \/ RealSucceeds(f)
      PROVE  SendInv'
  <2>1. /\ UNCHANGED <<host, sent, kind>> /\ pc[f] = "real" /\ res'[f] # "refused"
        /\ \A g \in Frames \ {f} : res'[g] = res[g]
    BY <1>6 DEF RealFails, RealLeavesErrno, RealSucceeds, At, io
  <2>2. res'["thread"] = "refused" <=> res["thread"] = "refused"
    BY <2>1 DEF StepsInv
  <2> QED
    BY <2>1, <2>2 DEF SendInv
<1>7. ASSUME NEW f \in Frames, Back(f) \/ FixRead(f) \/ FixWrite(f)
      PROVE  SendInv'
  <2>1. UNCHANGED <<host, sent, kind, res>>
    BY <1>7 DEF Back, FixRead, FixWrite, io
  <2> QED
    BY <2>1 DEF SendInv
<1>8. CASE Deliver \/ Leave
  <2>1. UNCHANGED <<host, sent, kind["thread"], res["thread"]>>
    BY <1>8 DEF Deliver, Leave, Forget, io
  <2> QED
    BY <2>1 DEF SendInv
<1> QED
  BY <1>1, <1>2, <1>3, <1>4, <1>5, <1>6, <1>7, <1>8 DEF Next

-------------------------------------------------------------------------------

\* What a behaviour keeps of the types and of what crosses in buffers.
BuffersInv == TypeInv /\ FailedInv /\ StepsInv /\ RecvInv /\ SendInv

LEMMA BuffersInit == Init => BuffersInv
<1> SUFFICES ASSUME Init PROVE BuffersInv
  OBVIOUS
<1>1. TypeInv
  BY BoundAssumption DEF Init, TypeInv, Labels, Kinds, PlainKinds, NoPoll, AllBits
<1>2. FailedInv /\ StepsInv
  BY DEF Init, FailedInv, StepsInv
<1>3. RecvInv
  BY NoControlHas DEF Init, RecvInv
<1>4. SendInv
  BY CtlAssumption DEF Init, SendInv, NothingSent, NoMessages
<1> QED
  BY <1>1, <1>2, <1>3, <1>4 DEF BuffersInv

THEOREM BuffersInvariant == Spec => []BuffersInv
<1>1. BuffersInv /\ [Next]_vars => BuffersInv'
  BY TypeStep, FailedStep, StepsStep, RecvStep, SendStep DEF BuffersInv
<1> QED
  BY BuffersInit, <1>1, PTL DEF Spec

\* A length never leaves its buffer, the wrapper's scratch buffer or the program's,
\* and no number a table gives is anything but one (net.rs:189-259, xlate.rs:131-160).
THEOREM CallsTypeCorrect == Spec => []TypeOK
<1>1. BuffersInv => TypeOK
  <2> SUFFICES ASSUME BuffersInv PROVE TypeOK
    OBVIOUS
  <2>1. control.cap \in Nat /\ control.len \in 0..control.cap
    BY DEF BuffersInv, RecvInv, HostHas
  <2>2. got.len \in 0..control.cap
    <3>1. CASE got = NothingGot
      BY <2>1, <3>1 DEF NothingGot
    <3>2. CASE Gives
      BY <3>2 DEF Gives, XnuGives
    <3> QED
      BY <3>1, <3>2 DEF BuffersInv, RecvInv
  <2>3. sent.passed.len \in 0..CtlMax
    BY DEF BuffersInv, SendInv
  <2> QED
    BY <2>1, <2>2, <2>3 DEF BuffersInv, TypeInv, TypeOK
<1> QED
  BY <1>1, BuffersInvariant, PTL

\* Whatever the host has put into recvmsg's buffer, each descriptor in it reaches the
\* program or is closed, and none does both (net.rs:248-249).
THEOREM RightsAccountedHolds == Spec => []RightsAccounted
<1>1. BuffersInv => RightsAccounted
  <2> SUFFICES ASSUME BuffersInv, Received PROVE RightsAccounted
    BY DEF RightsAccounted
  <2>1. CASE host = "xnu"
    <3>1. Gives
      BY <2>1 DEF BuffersInv, RecvInv, Received, Ended
    <3>2. Handed = FdsAt(control.msgs, {i \in DOMAIN control.msgs : EndsIn(control.msgs[i], control.len)})
      BY DEF Handed, EndsIn
    <3> QED
      BY <3>1, <3>2 DEF Gives, XnuGives, RightsAccounted
  <2>2. CASE host # "xnu"
    <3>1. got = NothingGot /\ control.msgs = <<>>
      BY <2>2 DEF BuffersInv, RecvInv
    <3>2. Handed = {} /\ got.closed = {}
      BY <3>1 DEF Handed, FdsAt, NothingGot
    <3> QED
      BY <3>2 DEF RightsAccounted
  <2> QED
    BY <2>1, <2>2
<1> QED
  BY <1>1, BuffersInvariant, PTL

\* What recvmsg gives of any control messages is where a walk of the program's buffer
\* finds it, as it came, and all of it unless MSG_CTRUNC says not (net.rs:216-219).
THEOREM ControlHonestHolds == Spec => []ControlHonest
<1>1. BuffersInv => ControlHonest
  <2> SUFFICES ASSUME BuffersInv, Received, host = "xnu" PROVE ControlHonest
    BY DEF ControlHonest
  <2> DEFINE came == Data(control.msgs, BsdHdr)
             found == Data(got.msgs, LinuxHdr)
  <2>1. Gives /\ HostHas(control)
    BY DEF BuffersInv, RecvInv, Received, Ended
  <2>2. Walkable(got.msgs, 8) /\ \A i \in DOMAIN got.msgs : got.msgs[i].at + got.msgs[i].len <= got.len
    BY <2>1 DEF Gives, XnuGives, EndsIn
  <2>3. DOMAIN came = DOMAIN control.msgs /\ DOMAIN found = DOMAIN got.msgs
    BY DEF Data
  <2>4. \A i \in DOMAIN got.msgs, j \in DOMAIN control.msgs :
          Says(got.msgs[i], LinuxHdr, control.msgs[j], BsdHdr) => found[i] = came[j]
    BY DEF Data, Says
  <2>5. ~got.trunc => found = came
    <3> SUFFICES ASSUME ~got.trunc PROVE found = came
      OBVIOUS
    <3>1. Len(got.msgs) = Len(control.msgs)
          /\ \A i \in DOMAIN control.msgs : Says(got.msgs[i], LinuxHdr, control.msgs[i], BsdHdr)
      BY <2>1 DEF Gives, XnuGivesAll
    <3>2. DOMAIN got.msgs = DOMAIN control.msgs
      <4>1. got.msgs \in Seq(Message) /\ control.msgs \in Seq(Message)
        BY <2>1 DEF Gives, XnuGives, HostHas
      <4> QED
        BY <3>1, <4>1, LenProperties
    <3>3. \A i \in DOMAIN control.msgs : found[i] = came[i]
      BY <2>4, <3>1, <3>2
    <3>4. found = [i \in DOMAIN control.msgs |-> found[i]] /\ came = [i \in DOMAIN control.msgs |-> came[i]]
      BY <3>2 DEF Data
    <3> HIDE DEF found, came
    <3> QED
      BY <3>3, <3>4
  <2>6. Thinned(found, came)
    <3>1. PICK of \in [DOMAIN got.msgs -> DOMAIN control.msgs] :
            /\ \A i, j \in DOMAIN got.msgs : i < j => of[i] < of[j]
            /\ \A i \in DOMAIN got.msgs : Says(got.msgs[i], LinuxHdr, control.msgs[of[i]], BsdHdr)
      BY <2>1 DEF Gives, XnuGives
    <3>2. \A i \in DOMAIN got.msgs : found[i] = came[of[i]]
      BY <2>4, <3>1
    <3> HIDE DEF found, came
    <3> QED
      BY <2>3, <3>1, <3>2 DEF Thinned
  <2>7. got.trunc \in BOOLEAN
    BY <2>1 DEF Gives
  <2>8. found = came \/ (got.trunc /\ Thinned(found, came))
    BY <2>5, <2>6
  <2> QED
    BY <2>2, <2>8 DEF ControlHonest
<1> QED
  BY <1>1, BuffersInvariant, PTL

\* Whatever a program sends, XNU gets every message of it where it looks for them, or
\* the call is refused, which none is that could cross (net.rs:186-188).
THEOREM SendsAllOrNoneHolds == Spec => []SendsAllOrNone
<1>1. BuffersInv => SendsAllOrNone
  <2> SUFFICES ASSUME BuffersInv, Ended("thread"), kind["thread"] = "sendmsg" PROVE SendsAllOrNone
    BY DEF SendsAllOrNone
  <2> DEFINE given == sent.given
             passed == sent.passed
  <2>1. Begun(given) = {i \in DOMAIN given.msgs : Begins(given.msgs[i], given.len)}
    BY DEF Begun, Begins
  <2>2. Expressible(given) <=> Passes(given.msgs, given.len)
    BY <2>1 DEF Expressible, Passes, Passable
  <2>3. CASE res["thread"] = "refused"
    BY <2>2, <2>3 DEF BuffersInv, SendInv, SendsAllOrNone
  <2>4. CASE res["thread"] # "refused"
    <3>1. LinuxPassed(passed.msgs, given.msgs, given.len)
      BY <2>4 DEF BuffersInv, SendInv
    <3>2. Expressible(given) /\ DOMAIN passed.msgs = Begun(given) /\ Walkable(passed.msgs, 4)
      BY <2>1, <2>2, <3>1 DEF LinuxPassed
    <3>3. \A i \in Begun(given) : Data(passed.msgs, BsdHdr)[i] = Data(given.msgs, LinuxHdr)[i]
      <4>1. \A i \in Begun(given) : i \in DOMAIN given.msgs /\ Says(passed.msgs[i], BsdHdr, given.msgs[i], LinuxHdr)
        BY <2>1, <3>1, <3>2 DEF LinuxPassed
      <4> HIDE DEF given, passed
      <4> QED
        BY <3>2, <4>1 DEF Data, Says
    <3> QED
      BY <2>4, <3>2, <3>3 DEF SendsAllOrNone
  <2> QED
    BY <2>3, <2>4
<1> QED
  BY <1>1, BuffersInvariant, PTL

\* Over any tables that errno_to_linux can rely on, as TLC finds gen.rs's to be, a failed
\* call tells the program an error the host's number stands for, std's own if any is
\* (xlate.rs:131-135).
THEOREM ErrorsAreStdsHolds == Spec => []ErrorsAreStds
<1>1. BuffersInv /\ ErrnoTranslatedOnce => ErrorsAreStds
  <2> SUFFICES ASSUME BuffersInv, ErrnoTranslatedOnce, NEW f \in Frames, Ended(f), res[f] = "failed"
               PROVE  LET told == IF kind[f] = "number" THEN code[f] ELSE errno
                          names == NamesOf(hosterr[f])
                          known == {i \in names : StdKnows(i)}
                      IN  \E i \in IF known = {} THEN names ELSE known : Tables[host].errno.linux[i] = told
    BY DEF ErrorsAreStds
  <2>1. (IF kind[f] = "number" THEN code[f] ELSE errno) = ErrnoToLinux(Tables[host], hosterr[f])
    BY DEF ErrnoTranslatedOnce
  <2>2. ErrnoTables(Tables[host]) /\ hosterr[f] \in ErrorsOf(Tables[host].errno)
    BY TablesTyped DEF BuffersInv, TypeInv, FailedInv, HostErrors
  <2> DEFINE names == {i \in DOMAIN Tables[host].errno.host : Tables[host].errno.host[i] = hosterr[f]}
             known == {i \in names : \E k \in DOMAIN Tables[host].preferred :
                                       Tables[host].preferred[k] = Tables[host].errno.names[i]}
  <2>3. \E i \in IF known = {} THEN names ELSE known :
          Tables[host].errno.linux[i] = ErrnoToLinux(Tables[host], hosterr[f])
    BY <2>2, ErrnoToldIsStds
  <2> QED
    BY <2>1, <2>3 DEF NamesOf, StdKnows
<1> QED
  BY <1>1, BuffersInvariant, ErrnoTranslatedOnceHolds, PTL

-------------------------------------------------------------------------------
(* mask()'s walk over constants (xlate.rs:113-130).                           *)

\* A column of constants: sets of bits.
Column(col, n) == n \in Nat /\ DOMAIN col = 1..n /\ \A i \in 1..n : col[i] \in SUBSET AllBits

\* Any two rows have an order, and as many rows before them as their ranks say.
LEMMA RanksAre ==
  ASSUME NEW col, NEW n, Column(col, n)
  PROVE  /\ \A i \in 1..n : Cardinality(col[i]) \in Nat
         /\ \A i \in 1..n : Rank(col, i) \in 0..(n - 1)
         /\ \A i, j \in 1..n : Before(col, i, j) => Rank(col, i) < Rank(col, j)
         /\ \A i, j \in 1..n : i = j \/ Before(col, i, j) \/ Before(col, j, i)
<1> DEFINE ahead(i) == {j \in DOMAIN col : Before(col, j, i)}
<1>1. n \in Nat /\ DOMAIN col = 1..n /\ \A i \in 1..n : col[i] \in SUBSET AllBits
  BY DEF Column
<1>2. IsFiniteSet(AllBits) /\ IsFiniteSet(1..n) /\ Cardinality(1..n) = n
  <2>1. \A a, b \in Int : IsFiniteSet(a..b) /\ Cardinality(a..b) = IF a > b THEN 0 ELSE b - a + 1
    BY FS_Interval
  <2>2. IsFiniteSet(AllBits)
    <3>1. 0 \in Int /\ 63 \in Int
      OBVIOUS
    <3>2. IsFiniteSet(0..63)
      BY <3>1, FS_Interval
    <3> QED
      BY <3>2 DEF AllBits
  <2>3. n \in Int /\ 1 \in Int
    BY <1>1
  <2>4. IsFiniteSet(1..n) /\ Cardinality(1..n) = IF 1 > n THEN 0 ELSE n - 1 + 1
    BY <2>1, <2>3
  <2> QED
    BY <1>1, <2>2, <2>4
<1>3. \A i \in 1..n : Cardinality(col[i]) \in Nat
  BY <1>1, <1>2, FS_Subset, FS_CardinalityType
<1>4. ASSUME NEW i \in 1..n
      PROVE  /\ IsFiniteSet(ahead(i)) /\ Cardinality(ahead(i)) \in Nat
             /\ Cardinality(ahead(i)) < n
  <2>1. ~Before(col, i, i)
    BY <1>3 DEF Before
  <2>2. ahead(i) \in SUBSET (1..n) /\ i \notin ahead(i)
    BY <1>1, <2>1
  <2> HIDE DEF ahead
  <2>3. IsFiniteSet(ahead(i)) /\ Cardinality(ahead(i)) <= Cardinality(1..n)
        /\ (Cardinality(1..n) = Cardinality(ahead(i)) => 1..n = ahead(i))
    BY <1>2, <2>2, FS_Subset
  <2>4. Cardinality(ahead(i)) \in Nat
    BY <2>3, FS_CardinalityType
  <2> QED
    BY <1>1, <1>2, <2>2, <2>3, <2>4
<1>5. ASSUME NEW i \in 1..n, NEW j \in 1..n, Before(col, i, j)
      PROVE  Cardinality(ahead(i)) < Cardinality(ahead(j))
  <2>1. i \in ahead(j) /\ i \notin ahead(i)
    BY <1>1, <1>3, <1>5 DEF Before
  <2>2. ahead(i) \in SUBSET ahead(j)
    <3>1. \A k \in 1..n : Before(col, k, i) => Before(col, k, j)
      BY <1>3, <1>5 DEF Before
    <3> QED
      BY <1>1, <3>1
  <2> HIDE DEF ahead
  <2>3. Cardinality(ahead(i)) <= Cardinality(ahead(j))
        /\ (Cardinality(ahead(j)) = Cardinality(ahead(i)) => ahead(j) = ahead(i))
    BY <1>4, <2>2, FS_Subset
  <2> QED
    BY <1>4, <2>1, <2>3
<1>6. \A i, j \in 1..n : i = j \/ Before(col, i, j) \/ Before(col, j, i)
  BY <1>3 DEF Before
<1>7. \A i \in 1..n : Rank(col, i) = Cardinality(ahead(i))
  BY DEF Rank
<1> HIDE DEF ahead
<1> QED
  BY <1>1, <1>3, <1>4, <1>5, <1>6, <1>7

\* The walk comes to every row once, and to one before another if it is to.
LEMMA WalkIs ==
  ASSUME NEW col, NEW n, Column(col, n)
  PROVE  /\ Walk(col) \in [1..n -> 1..n]
         /\ \A i \in 1..n : \E k \in 1..n : Walk(col)[k] = i
         /\ \A k, m \in 1..n : Walk(col)[k] = Walk(col)[m] => k = m
         /\ \A k, m \in 1..n : Before(col, Walk(col)[k], Walk(col)[m]) => k < m
<1>1. n \in Nat /\ DOMAIN col = 1..n
  BY DEF Column
<1> DEFINE rank == [i \in 1..n |-> Rank(col, i)]
<1>2. rank \in Injection(1..n, 0..(n - 1))
  <2>1. rank \in [1..n -> 0..(n - 1)]
    BY RanksAre
  <2>2. \A i, j \in 1..n : rank[i] = rank[j] => i = j
    <3>1. \A i, j \in 1..n : i = j \/ rank[i] < rank[j] \/ rank[j] < rank[i]
      BY RanksAre
    <3>2. \A i \in 1..n : rank[i] \in Nat
      BY <1>1, <2>1
    <3> HIDE DEF rank
    <3> QED
      BY <3>1, <3>2
  <2> HIDE DEF rank
  <2> QED
    BY <2>1, <2>2 DEF Injection, IsInjective
<1>3. rank \in Surjection(1..n, 0..(n - 1))
  <2>3. \A a, b \in Int : IsFiniteSet(a..b) /\ Cardinality(a..b) = IF a > b THEN 0 ELSE b - a + 1
    BY FS_Interval
  <2>1. IsFiniteSet(1..n) /\ Cardinality(1..n) = n
    <3>1. 1 \in Int /\ n \in Int
      BY <1>1
    <3>2. IsFiniteSet(1..n) /\ Cardinality(1..n) = IF 1 > n THEN 0 ELSE n - 1 + 1
      BY <2>3, <3>1
    <3> QED
      BY <1>1, <3>2
  <2>2. IsFiniteSet(0..(n - 1)) /\ Cardinality(0..(n - 1)) = n
    <3>1. 0 \in Int /\ n - 1 \in Int
      BY <1>1
    <3>2. IsFiniteSet(0..(n - 1)) /\ Cardinality(0..(n - 1)) = IF 0 > n - 1 THEN 0 ELSE (n - 1) - 0 + 1
      BY <2>3, <3>1
    <3> QED
      BY <1>1, <3>2
  <2> HIDE DEF rank
  <2> QED
    BY <1>2, <2>1, <2>2, FS_Injection
<1>4. \A r \in 0..(n - 1) : \E i \in 1..n : Rank(col, i) = r
  BY <1>3 DEF Surjection
<1>5. ASSUME NEW k \in 1..n
      PROVE  Walk(col)[k] \in 1..n /\ Rank(col, Walk(col)[k]) = k - 1
  <2>1. k - 1 \in 0..(n - 1)
    BY <1>1
  <2>2. \E i \in 1..n : Rank(col, i) = k - 1
    BY <1>4, <2>1
  <2>3. Walk(col)[k] = CHOOSE i \in 1..n : Rank(col, i) = k - 1
    BY <1>1 DEF Walk
  <2> QED
    BY <2>2, <2>3
<1>6. Walk(col) \in [1..n -> 1..n]
  BY <1>1, <1>5 DEF Walk
<1>7. ASSUME NEW i \in 1..n
      PROVE  \E k \in 1..n : Walk(col)[k] = i
  <2>1. Rank(col, i) \in 0..(n - 1)
    BY RanksAre
  <2>2. PICK k \in 1..n : k - 1 = Rank(col, i)
    BY <1>1, <2>1
  <2>3. Rank(col, Walk(col)[k]) = Rank(col, i) /\ Walk(col)[k] \in 1..n
    BY <1>5, <2>2
  <2> DEFINE w == Walk(col)[k]
  <2>4. w = i \/ Rank(col, w) < Rank(col, i) \/ Rank(col, i) < Rank(col, w)
    BY <2>3, RanksAre
  <2> HIDE DEF w
  <2>5. Rank(col, i) \in Int
    BY <1>1, <2>1
  <2>6. w = i
    BY <2>3, <2>4, <2>5 DEF w
  <2> QED
    BY <2>6 DEF w
<1>8. ASSUME NEW k \in 1..n, NEW m \in 1..n, Before(col, Walk(col)[k], Walk(col)[m])
      PROVE  k < m
  <2>1. Rank(col, Walk(col)[k]) < Rank(col, Walk(col)[m])
    BY <1>5, <1>8, RanksAre
  <2> QED
    BY <1>1, <1>5, <2>1
<1>9. ASSUME NEW k \in 1..n, NEW m \in 1..n, Walk(col)[k] = Walk(col)[m]
      PROVE  k = m
  <2>1. k - 1 = m - 1
    BY <1>5, <1>9
  <2> QED
    BY <1>1, <2>1
<1> QED
  BY <1>6, <1>7, <1>8, <1>9

\* A walk of mask().
MaskAcc(v) == [out : SUBSET AllBits, rest : SUBSET v]

MaskRun(g, n, v, from, to, skipAbsent) ==
  /\ g \in [0..n -> MaskAcc(v)]
  /\ g[0] = [out |-> {}, rest |-> v]
  /\ \A k \in 1..n : g[k] = TakeRow(from, to, skipAbsent, g[k - 1], Walk(from)[k])
  /\ Mask(v, from, to, skipAbsent) = g[n].out \union g[n].rest

\* There is one.
LEMMA MaskWalk ==
  ASSUME NEW n, NEW from, NEW to, Column(from, n), Column(to, n),
         NEW v \in SUBSET AllBits, NEW skipAbsent
  PROVE  \E g : MaskRun(g, n, v, from, to, skipAbsent)
<1> DEFINE Acc == MaskAcc(v)
           start == [out |-> {}, rest |-> v]
           row == Walk(from)
           Take(acc, k) == TakeRow(from, to, skipAbsent, acc, row[k])
           step == [k \in 1..n |-> [acc \in Acc |-> Take(acc, k)]]
           Is(iter) == iter = [s \in SUBSET (DOMAIN row) |->
                                 IF s = {} THEN start ELSE Take(iter[s \ {Max(s)}], Max(s))]
           walk == CHOOSE iter : Is(iter)
<1>1. n \in Nat /\ row \in [1..n -> 1..n] /\ DOMAIN row = 1..n
  BY WalkIs DEF Column
<1>2. start \in Acc
  BY DEF MaskAcc
<1>3. \A k \in 1..n : \A acc \in Acc : Take(acc, k) \in Acc
  <2> SUFFICES ASSUME NEW k \in 1..n, NEW acc \in Acc PROVE Take(acc, k) \in Acc
    OBVIOUS
  <2>1. row[k] \in 1..n
    BY <1>1
  <2>2. to[row[k]] \in SUBSET AllBits
    BY <2>1 DEF Column
  <2> HIDE DEF row
  <2> QED
    BY <2>2 DEF TakeRow, MaskAcc
<1>4. step \in [1..n -> [Acc -> Acc]]
  <2> HIDE DEF Take, Acc
  <2> QED
    BY <1>3
<1>5. \A k \in 1..n : \A acc \in Acc : step[k][acc] = Take(acc, k)
  <2> HIDE DEF Take, Acc
  <2> QED
    BY <1>3
<1>6. Mask(v, from, to, skipAbsent) = walk[DOMAIN row].out \union walk[DOMAIN row].rest
  BY DEF Mask, FoldLeft, MapThenFoldSet
<1> HIDE DEF step, start, row, Acc, Take
<1>7. Is(walk)
  <2>1. PICK iter : Walked(iter, n, Acc, start, step)
    BY <1>1, <1>2, <1>4, WalkExists, Zenon
  <2>2. ASSUME NEW s \in SUBSET (1..n), s # {}
        PROVE  iter[s] = Take(iter[s \ {Max(s)}], Max(s))
    <3>1. Max(s) \in 1..n
      BY <2>2, LargestInRange, <1>1
    <3>2. iter[s \ {Max(s)}] \in Acc
      BY <2>1 DEF Walked
    <3> QED
      BY <1>5, <2>1, <2>2, <3>1, <3>2 DEF Walked
  <2>3. Is(iter)
    BY <1>1, <2>1, <2>2 DEF Walked
  <2> HIDE DEF Is
  <2> QED
    BY <2>3
<1> HIDE DEF walk
<1>8. walk[{}] = start
  BY <1>7
<1>9. ASSUME NEW s \in SUBSET (1..n), s # {}, walk[s \ {Max(s)}] \in Acc
      PROVE  walk[s] = step[Max(s)][walk[s \ {Max(s)}]]
  <2>1. Max(s) \in 1..n
    BY <1>9, LargestInRange, <1>1
  <2>2. walk[s] = Take(walk[s \ {Max(s)}], Max(s))
    BY <1>1, <1>7, <1>9
  <2> HIDE DEF Is
  <2> QED
    BY <1>5, <1>9, <2>1, <2>2
<1>10. PICK g : Row(g, n, Acc, start, step, walk[1..n])
  <2> HIDE DEF Is
  <2> QED
    BY <1>1, <1>2, <1>4, <1>8, <1>9, WalkedRow, Zenon
<1>11. \A k \in 1..n : g[k - 1] \in Acc
  BY <1>1, <1>10 DEF Row
<1>12. \A k \in 1..n : g[k] = Take(g[k - 1], k)
  BY <1>5, <1>10, <1>11 DEF Row
<1>13. MaskRun(g, n, v, from, to, skipAbsent)
  BY <1>1, <1>6, <1>10, <1>12 DEF MaskRun, Row, start, Acc, Take, row
<1> QED
  BY <1>13

\* The bits of no row, of some rows, and of one more.
LEMMA BitsOfNone ==
  ASSUME NEW f, NEW T, T = {}
  PROVE  BitsOf(f, T) = {}
BY DEF BitsOf

LEMMA InBitsOf ==
  ASSUME NEW f, NEW T, NEW x
  PROVE  x \in BitsOf(f, T) <=> \E j \in T : x \in f[j]
BY DEF BitsOf

LEMMA BitsOfMore ==
  ASSUME NEW f, NEW T, NEW i
  PROVE  BitsOf(f, T \union {i}) = BitsOf(f, T) \union f[i]
<1>1. \A x : x \in BitsOf(f, T \union {i}) <=> x \in BitsOf(f, T) \/ x \in f[i]
  BY InBitsOf
<1> QED
  BY <1>1

\* xlate.rs, mask: rows of a column that are told apart are found in their bits, whatever
\* the order of the masks, and nothing else is.
THEOREM MaskTells ==
  ASSUME NEW n, NEW from, NEW to, Column(from, n), Column(to, n), NEW skipAbsent,
         NEW S \in SUBSET (1..n), ToldApart(from, S, skipAbsent)
  PROVE  Mask(BitsOf(from, S), from, to, skipAbsent) = BitsOf(to, S)
<1> DEFINE v == BitsOf(from, S)
           row == Walk(from)
           done(k) == {i \in S : \E m \in 1..k : row[m] = i}
           present(i) == from[i] # {} /\ ~(skipAbsent /\ AbsentMask(from[i]))
<1>1. n \in Nat /\ DOMAIN from = 1..n
  BY DEF Column
<1>2. /\ row \in [1..n -> 1..n]
      /\ \A i \in 1..n : \E k \in 1..n : row[k] = i
      /\ \A k, m \in 1..n : row[k] = row[m] => k = m
      /\ \A k, m \in 1..n : Before(from, row[k], row[m]) => k < m
  BY WalkIs
<1>3. /\ \A i \in S : present(i)
      /\ \A i, j \in S : i # j => from[i] \intersect from[j] = {}
      /\ \A j \in 1..n \ S : present(j) /\ from[j] \subseteq v
           => \E i \in S : Before(from, i, j) /\ from[i] \intersect from[j] # {}
  BY <1>1 DEF ToldApart
<1>4. v \in SUBSET AllBits
  BY DEF Column, BitsOf
<1>5. PICK g : MaskRun(g, n, v, from, to, skipAbsent)
  <2> HIDE DEF v
  <2> QED
    BY <1>4, MaskWalk
<1> DEFINE Right(k) == /\ g[k].out = BitsOf(to, done(k))
                       /\ g[k].rest = BitsOf(from, S \ done(k))
<1>6. Right(0)
  <2>1. g[0] = [out |-> {}, rest |-> v]
    BY <1>5 DEF MaskRun
  <2>2. done(0) = {}
    OBVIOUS
  <2> HIDE DEF done
  <2>3. BitsOf(to, done(0)) = {}
    BY <2>2, BitsOfNone
  <2>4. S \ done(0) = S
    BY <2>2
  <2> QED
    BY <2>1, <2>3, <2>4
<1>7. ASSUME NEW k \in 1..n, Right(k - 1)
      PROVE  Right(k)
  <2> DEFINE i == row[k]
             acc == g[k - 1]
             T == done(k - 1)
  <2>1. g[k] = TakeRow(from, to, skipAbsent, acc, i) /\ acc \in MaskAcc(v)
    <3>1. k - 1 \in 0..n
      BY <1>1
    <3> QED
      BY <1>5, <3>1 DEF MaskRun
  <2>2. i \in 1..n
    BY <1>2
  <2>3. acc.out = BitsOf(to, T) /\ acc.rest = BitsOf(from, S \ T)
    BY <1>7
  <2>4. T \subseteq S /\ i \notin T
    <3>1. \A m \in 1..(k - 1) : m \in 1..n /\ m # k
      BY <1>1
    <3> QED
      BY <1>2, <3>1
  <2>5. done(k) = IF i \in S THEN T \union {i} ELSE T
    <3>1. \A m : m \in 1..k <=> m \in 1..(k - 1) \/ m = k
      BY <1>1
    <3> HIDE DEF row
    <3> QED
      BY <3>1
  <2>6. \A j \in S : Before(from, j, i) => j \in T
    <3> SUFFICES ASSUME NEW j \in S, Before(from, j, i) PROVE j \in T
      OBVIOUS
    <3>1. PICK m \in 1..n : row[m] = j
      BY <1>2
    <3>2. m < k
      BY <1>2, <3>1
    <3>3. m \in 1..(k - 1)
      BY <1>1, <3>2
    <3> QED
      BY <3>1, <3>3
  <2>7. g[k] = IF present(i) /\ from[i] \subseteq acc.rest
                 THEN [out |-> acc.out \union to[i], rest |-> acc.rest \ from[i]]
                 ELSE acc
    BY <2>1 DEF TakeRow
  <2> HIDE DEF i, T, acc, done, present, v, row
  <2>8. CASE i \in S
    <3>1. present(i) /\ from[i] \subseteq acc.rest
      <4>1. present(i) /\ i \in S \ T
        BY <1>3, <2>4, <2>8
      <4>2. \A x \in from[i] : x \in BitsOf(from, S \ T)
        BY <4>1, InBitsOf
      <4> QED
        BY <2>3, <4>1, <4>2
    <3>2. g[k].out = acc.out \union to[i] /\ g[k].rest = acc.rest \ from[i]
      BY <2>7, <3>1
    <3>3. BitsOf(to, done(k)) = BitsOf(to, T) \union to[i]
      <4>1. done(k) = T \union {i}
        BY <2>5, <2>8
      <4>2. BitsOf(to, T \union {i}) = BitsOf(to, T) \union to[i]
        BY BitsOfMore
      <4> QED
        BY <4>1, <4>2
    <3>4. \A j \in S \ done(k) : from[j] \intersect from[i] = {}
      BY <1>3, <2>5, <2>8
    <3>5. BitsOf(from, S \ T) = BitsOf(from, S \ done(k)) \union from[i]
      <4>1. S \ T = (S \ done(k)) \union {i}
        BY <2>4, <2>5, <2>8
      <4>2. BitsOf(from, (S \ done(k)) \union {i}) = BitsOf(from, S \ done(k)) \union from[i]
        BY BitsOfMore
      <4> QED
        BY <4>1, <4>2
    <3>6. BitsOf(from, S \ done(k)) = BitsOf(from, S \ T) \ from[i]
      <4> DEFINE rest == BitsOf(from, S \ done(k))
      <4>1. rest \intersect from[i] = {}
        <5>1. ASSUME NEW x \in rest
              PROVE  x \notin from[i]
          <6>1. PICK j \in S \ done(k) : x \in from[j]
            BY InBitsOf
          <6> QED
            BY <3>4, <6>1
        <5> QED
          BY <5>1
      <4>2. BitsOf(from, S \ T) = rest \union from[i]
        BY <3>5
      <4> HIDE DEF rest
      <4>3. rest = (BitsOf(from, S \ T)) \ from[i]
        BY <4>1, <4>2
      <4> QED
        BY <4>3 DEF rest
    <3>7. g[k].out = BitsOf(to, done(k))
      BY <2>3, <3>2, <3>3, Zenon
    <3>8. g[k].rest = BitsOf(from, S \ done(k))
      BY <2>3, <3>2, <3>6, Zenon
    <3> QED
      BY <3>7, <3>8
  <2>9. CASE i \notin S
    <3>1. ~(present(i) /\ from[i] \subseteq acc.rest)
      <4> SUFFICES ASSUME present(i), from[i] \subseteq acc.rest PROVE FALSE
        OBVIOUS
      <4>1. from[i] \subseteq v
        BY <2>3, InBitsOf DEF v
      <4>2. PICK j \in S : Before(from, j, i) /\ from[j] \intersect from[i] # {}
        BY <1>3, <2>2, <2>9, <4>1
      <4>3. j \in T
        BY <2>6, <4>2
      <4>4. PICK b : b \in from[j] /\ b \in from[i]
        BY <4>2
      <4>5. PICK q \in S \ T : b \in from[q]
        BY <2>3, <4>4, InBitsOf
      <4> QED
        BY <1>3, <4>3, <4>4, <4>5
    <3> QED
      BY <2>3, <2>5, <2>7, <2>9, <3>1
  <2> QED
    BY <2>8, <2>9
<1>8. Right(n)
  <2> DEFINE R == {k \in Nat : k <= n => Right(k)}
  <2> HIDE DEF Right
  <2>1. 0 \in R
    BY <1>6
  <2>2. \A k \in Nat : k \in R => k + 1 \in R
    <3> SUFFICES ASSUME NEW k \in Nat, k + 1 <= n, Right(k) PROVE Right(k + 1)
      BY <1>1
    <3>1. k + 1 \in 1..n /\ (k + 1) - 1 = k
      BY <1>1
    <3> QED
      BY <1>7, <3>1
  <2>3. Nat \subseteq R
    <3> HIDE DEF R
    <3> QED
      BY <2>1, <2>2, Induction
  <2> QED
    BY <1>1, <2>3
<1>9. done(n) = S
  BY <1>2
<1>10. g[n].out = BitsOf(to, S) /\ g[n].rest = {}
  <2>1. Right(n)
    BY <1>8
  <2>2. S \ done(n) = {}
    BY <1>9
  <2> HIDE DEF done
  <2> QED
    BY <1>9, <2>1, <2>2, BitsOfNone
<1> QED
  BY <1>5, <1>10 DEF MaskRun

-------------------------------------------------------------------------------
(* poll's events.                                                             *)

\* Events a program may ask for and be told of come through both translations as they are.
LEMMA PollCrosses ==
  ASSUME host \in Hosts, NEW asked \in PollAsked, NEW names \in SUBSET (asked \union Unasked)
  PROVE  /\ Bits16(ToHost(Poll, Bits(Poll, Poll.linux, asked))) = Bits(Poll, Poll.host, asked)
         /\ Bits16(ToLinux(Poll, Bits(Poll, Poll.host, names))) = Bits(Poll, Poll.linux, names)
<1> DEFINE g == Poll
           rows(some) == NamedRows(g, some)
<1>1. PICK n \in Nat : Column(g.linux, n) /\ Column(g.host, n) /\ DOMAIN g.names = 1..n
  <2>1. /\ g.names \in Seq(STRING) /\ DOMAIN g.linux = DOMAIN g.names /\ DOMAIN g.host = DOMAIN g.names
        /\ \A i \in DOMAIN g.names : g.linux[i] \subseteq AllBits /\ g.host[i] \subseteq AllBits
    BY TablesAssumption, PollAssumption DEF Poll
  <2>2. DOMAIN g.names = 1..Len(g.names) /\ Len(g.names) \in Nat
    BY <2>1, LenProperties
  <2> HIDE DEF g
  <2> QED
    BY <2>1, <2>2 DEF Column
<1>2. g.kind = "mask"
  BY PollAssumption DEF Poll
<1>3. /\ ToldApart(g.linux, rows(asked), FALSE)
      /\ \A some \in SUBSET (asked \union Unasked) :
           /\ ToldApart(g.host, rows(some), TRUE)
           /\ \A i \in rows(some) : g.host[i] \union g.linux[i] \subseteq 0..15
  BY PollAssumption DEF Poll
<1>4. \A some : rows(some) \in SUBSET (1..n)
  BY <1>1 DEF NamedRows
<1>5. asked \in SUBSET (asked \union Unasked)
  OBVIOUS
<1> HIDE DEF g, rows
<1>6. ToHost(g, BitsOf(g.linux, rows(asked))) = BitsOf(g.host, rows(asked))
  <2>1. CASE Identity(g)
    BY <2>1 DEF ToHost, Identity
  <2>2. CASE ~Identity(g)
    <3>1. ToHost(g, BitsOf(g.linux, rows(asked))) = Mask(BitsOf(g.linux, rows(asked)), g.linux, g.host, FALSE)
      BY <1>2, <2>2 DEF ToHost
    <3>2. Column(g.linux, n) /\ Column(g.host, n) /\ rows(asked) \in SUBSET (1..n)
      BY <1>1, <1>4
    <3> DEFINE skipAbsent == FALSE
    <3>3. ToldApart(g.linux, rows(asked), skipAbsent)
      BY <1>3
    <3>4. skipAbsent = FALSE
      OBVIOUS
    <3> HIDE DEF skipAbsent
    <3>5. Mask(BitsOf(g.linux, rows(asked)), g.linux, g.host, skipAbsent) = BitsOf(g.host, rows(asked))
      BY <3>2, <3>3, MaskTells
    <3> QED
      BY <3>1, <3>4, <3>5
  <2> QED
    BY <2>1, <2>2
<1>7. ToLinux(g, BitsOf(g.host, rows(names))) = BitsOf(g.linux, rows(names))
  <2>1. CASE Identity(g)
    BY <2>1 DEF ToLinux, Identity
  <2>2. CASE ~Identity(g)
    <3>1. ToLinux(g, BitsOf(g.host, rows(names))) = Mask(BitsOf(g.host, rows(names)), g.host, g.linux, TRUE)
      BY <1>2, <2>2 DEF ToLinux
    <3>2. Column(g.host, n) /\ Column(g.linux, n) /\ rows(names) \in SUBSET (1..n)
      BY <1>1, <1>4
    <3> DEFINE skipAbsent == TRUE
    <3>3. ToldApart(g.host, rows(names), skipAbsent)
      BY <1>3
    <3>4. skipAbsent = TRUE
      OBVIOUS
    <3> HIDE DEF skipAbsent
    <3>5. Mask(BitsOf(g.host, rows(names)), g.host, g.linux, skipAbsent) = BitsOf(g.linux, rows(names))
      BY <3>2, <3>3, MaskTells
    <3> QED
      BY <3>1, <3>4, <3>5
  <2> QED
    BY <2>1, <2>2
<1>8. ASSUME NEW some \in SUBSET (asked \union Unasked)
      PROVE  BitsOf(g.host, rows(some)) \subseteq 0..15 /\ BitsOf(g.linux, rows(some)) \subseteq 0..15
  <2>1. \A i \in rows(some) : g.host[i] \subseteq 0..15 /\ g.linux[i] \subseteq 0..15
    BY <1>3
  <2> QED
    BY <2>1, InBitsOf
<1>9. \A m : m \subseteq 0..15 => Bits16(m) = m
  BY DEF Bits16
<1>10. Bits16(ToHost(g, BitsOf(g.linux, rows(asked)))) = BitsOf(g.host, rows(asked))
  BY <1>5, <1>6, <1>8, <1>9
<1>11. Bits16(ToLinux(g, BitsOf(g.host, rows(names)))) = BitsOf(g.linux, rows(names))
  BY <1>7, <1>8, <1>9
<1> QED
  BY <1>10, <1>11 DEF Bits, g, rows

\* What struct pollfd holds: the host's bits while the call is out, Linux's else.
PollInv ==
  kind["thread"] = "poll" =>
    /\ pollfd.asked \in PollAsked
    /\ reported \in SUBSET (pollfd.asked \union Unasked)
    /\ LET col == IF pc["thread"] \in {"real", "back"} THEN Poll.host ELSE Poll.linux IN
       /\ pollfd.events = Bits(Poll, col, pollfd.asked)
       /\ pollfd.revents = Bits(Poll, col, reported)

\* No step but these changes what poll is about.
LEMMA PollStays ==
  ASSUME PollInv, UNCHANGED <<host, kind["thread"], pollfd, reported>>,
         pc["thread"] \in {"real", "back"} <=> pc'["thread"] \in {"real", "back"}
  PROVE  PollInv'
BY DEF PollInv, Poll, Bits

\* Another call of the thread's forgets it.
LEMMA PollForgotten ==
  ASSUME kind'["thread"] # "poll"
  PROVE  PollInv'
BY DEF PollInv

LEMMA PollStep ==
  ASSUME TypeInv, PollInv, [Next]_vars
  PROVE  PollInv'
<1> USE DEF TypeInv
<1>1. CASE UNCHANGED vars
  BY <1>1, PollStays DEF vars, errs, io
<1>2. ASSUME NEW f \in Frames, Call(f)
      PROVE  PollInv'
  <2>1. CASE f = "thread"
    <3>1. kind'["thread"] \in PlainKinds
      BY <1>2, <2>1 DEF Call, Begin, KindsOf, Frames
    <3> QED
      BY <3>1, PollForgotten DEF PlainKinds
  <2>2. CASE f = "handler"
    <3>1. UNCHANGED <<host, kind["thread"], pollfd, reported, pc["thread"]>>
      BY <1>2, <2>2 DEF Call, Begin, Goto, io, Frames
    <3> QED
      BY <3>1, PollStays
  <2> QED
    BY <2>1, <2>2 DEF Frames
<1>3. CASE CallRefused \/ CallSendmsg \/ CallRecvmsg
  <2>1. kind'["thread"] \in {"own", "sendmsg", "recvmsg"}
    BY <1>3 DEF CallRefused, CallSendmsg, CallRecvmsg, Begin, Frames
  <2> QED
    BY <2>1, PollForgotten
<1>4. CASE CallPoll
  <2>1. PICK asked \in PollAsked :
          pollfd' = [asked |-> asked, events |-> Bits16(ToHost(Poll, Bits(Poll, Poll.linux, asked))), revents |-> {}]
    BY <1>4 DEF CallPoll
  <2>2. Bits16(ToHost(Poll, Bits(Poll, Poll.linux, asked))) = Bits(Poll, Poll.host, asked)
    BY PollCrosses
  <2>3. reported' = {} /\ host' = host /\ pc'["thread"] = "real"
    BY <1>4 DEF CallPoll, Begin, Goto, Frames
  <2>4. Bits(Poll, Poll.host, {}) = {}
    BY BitsOfNone DEF Bits, NamedRows
  <2>5. Poll' = Poll
    BY <2>3 DEF Poll
  <2> QED
    BY <2>1, <2>2, <2>3, <2>4, <2>5 DEF PollInv
<1>5. CASE RealPoll
  <2>1. PICK names \in SUBSET (pollfd.asked \union Unasked) :
          reported' = names /\ pollfd' = [pollfd EXCEPT !.revents = Bits(Poll, Poll.host, names)]
    BY <1>5 DEF RealPoll
  <2>2. /\ host' = host /\ kind["thread"] = "poll"
        /\ pc["thread"] = "real" /\ pc'["thread"] = "back"
    BY <1>5 DEF RealPoll, At, Goto, Frames
  <2>3. Poll' = Poll
    BY <2>2 DEF Poll
  <2>4. pollfd'.asked = pollfd.asked /\ pollfd'.events = pollfd.events /\ pollfd'.revents = Bits(Poll, Poll.host, names)
    BY <2>1
  <2> QED
    BY <2>1, <2>2, <2>3, <2>4 DEF PollInv
<1>6. ASSUME NEW f \in Frames, RealFails(f) \/ RealLeavesErrno(f) \/ RealSucceeds(f)
      PROVE  PollInv'
  <2>1. UNCHANGED <<host, kind, pollfd, reported>> /\ pc[f] = "real" /\ pc' = [pc EXCEPT ![f] = "back"]
    BY <1>6 DEF RealFails, RealLeavesErrno, RealSucceeds, At, Goto, io
  <2> QED
    BY <2>1, PollStays DEF Frames
<1>7. CASE RealRecvmsg
  BY <1>7, PollForgotten DEF RealRecvmsg
<1>8. ASSUME NEW f \in Frames, Back(f)
      PROVE  PollInv'
  <2>1. CASE f = "thread" /\ kind["thread"] = "poll"
    <3>1. /\ pollfd' = [pollfd EXCEPT !.events = Bits16(ToLinux(Poll, @)), !.revents = Bits16(ToLinux(Poll, @))]
          /\ UNCHANGED <<host, kind, reported>>
      BY <1>8, <2>1 DEF Back, PollBack
    <3>2. pc["thread"] = "back" /\ pc'["thread"] \in {"fix", "idle"}
      BY <1>8, <2>1 DEF Back, At, Goto, Return, Frames
    <3>3. /\ pollfd'.asked = pollfd.asked
          /\ pollfd'.events = Bits16(ToLinux(Poll, pollfd.events))
          /\ pollfd'.revents = Bits16(ToLinux(Poll, pollfd.revents))
      BY <3>1
    <3>4. /\ pollfd.events = Bits(Poll, Poll.host, pollfd.asked)
          /\ pollfd.revents = Bits(Poll, Poll.host, reported)
          /\ pollfd.asked \in PollAsked /\ reported \in SUBSET (pollfd.asked \union Unasked)
      BY <2>1, <3>2 DEF PollInv
    <3>5. /\ pollfd'.events = Bits(Poll, Poll.linux, pollfd.asked)
          /\ pollfd'.revents = Bits(Poll, Poll.linux, reported)
      BY <3>3, <3>4, PollCrosses
    <3>6. Poll' = Poll
      BY <3>1 DEF Poll
    <3> QED
      BY <2>1, <3>1, <3>2, <3>3, <3>4, <3>5, <3>6 DEF PollInv
  <2>2. CASE f = "thread" /\ kind["thread"] # "poll"
    <3>1. kind' = kind
      BY <1>8 DEF Back
    <3> QED
      BY <2>2, <3>1, PollForgotten
  <2>3. CASE f = "handler"
    <3>1. UNCHANGED <<host, kind, pollfd, reported, pc["thread"]>>
      BY <1>8, <2>3 DEF Back, Goto, Return, Frames
    <3> QED
      BY <3>1, PollStays
  <2> QED
    BY <2>1, <2>2, <2>3 DEF Frames
<1>9. ASSUME NEW f \in Frames, FixRead(f) \/ FixWrite(f)
      PROVE  PollInv'
  <2>1. UNCHANGED <<host, kind, pollfd, reported>>
    BY <1>9 DEF FixRead, FixWrite, io
  <2>2. pc["thread"] \in {"real", "back"} <=> pc'["thread"] \in {"real", "back"}
    BY <1>9 DEF FixRead, FixWrite, At, Goto, Return, Frames
  <2> QED
    BY <2>1, <2>2, PollStays
<1>10. CASE Deliver \/ Leave
  <2>1. UNCHANGED <<host, kind["thread"], pollfd, reported, pc["thread"]>>
    BY <1>10 DEF Deliver, Leave, Forget, Goto, io, Frames
  <2> QED
    BY <2>1, PollStays
<1> QED
  BY <1>1, <1>2, <1>3, <1>4, <1>5, <1>6, <1>7, <1>8, <1>9, <1>10 DEF Next

\* However a call to poll ends and whatever a handler does meanwhile, the program has its
\* events back as it put them there and is told of those the host has reported, in Linux's
\* bits (shim.rs:587-595): over any tables, any asked events that their columns tell apart.
THEOREM PollFaithfulHolds == Spec => []PollFaithful
<1>1. Init => PollInv
  BY DEF Init, PollInv, Frames
<1>2. TypeInv /\ PollInv /\ [Next]_vars => PollInv'
  BY PollStep
<1>3. TypeInv /\ PollInv => PollFaithful
  BY DEF PollInv, PollFaithful, Ended
<1>4. BuffersInv => TypeInv
  BY DEF BuffersInv
<1> QED
  BY <1>1, <1>2, <1>3, <1>4, BuffersInvariant, PTL DEF Spec

==============================================================================
