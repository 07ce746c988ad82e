--------------------------- MODULE TimedWaitProofs ---------------------------
(***************************************************************************)
(* The waits of TimedWait end when they should, for any number of threads, *)
(* any deadlines and any scale of time.                                    *)
(***************************************************************************)
EXTENDS TimedWait, TLAPS

\* The host has both clocks, and tells them apart.
ClocksKnown ==
  \A h \in Hosts : ReadsOn(h)[CLOCK_REALTIME] = "real" /\ ReadsOn(h)[CLOCK_MONOTONIC] = "mono"

IsDirect(c) == c.fn \in {"pthread", "sem"} /\ ~(c.ts.sec < RealSecs)

\* What is known of a call by where it is.
Known(f) ==
  /\ f.first <= mono /\ f.second <= mono
  /\ f.pc \in {"real", "mono"} => IsRebased(f.call)
  /\ f.pc = "relative" => IsRelative(f.call) /\ ~f.call.realtime /\ Valid(f.call.ts)
  /\ f.pc = "EINVAL" => ~Valid(f.call.ts)
  /\ f.pc = "enter" => f.call.fn # "sleep"

\* The real time read, as long as it has not been set.
ReadOnce(f) == f.pc = "mono" /\ f.steady => Ns(f.rt) - (real - mono) = f.first

\* The deadlines on their way to the host and in it.
DueInTime(f) ==
  f.pc \in {"enter", "blocked"} =>
    /\ f.due # NoDue => f.due.clock # "none"
    /\ IsRebased(f.call) =>
         f.due.clock = "real" /\ Valid(f.due.ts) /\ (f.steady => RebasedInTime(f))
    /\ IsRelative(f.call) => f.due.clock = "mono" /\ RelativeInTime(f)
    /\ IsDirect(f.call) => f.due = [clock |-> "real", ts |-> f.call.ts]

FrameInv(f) == Known(f) /\ ReadOnce(f) /\ DueInTime(f)

\* The inductive invariant.
TimesInv ==
  /\ TypeOK
  /\ reads[CLOCK_REALTIME] = "real" /\ reads[CLOCK_MONOTONIC] = "mono"
  /\ \A t \in Threads : FrameInv(frame[t])

-------------------------------------------------------------------------------
(* Timespecs *)

\* A count of nanoseconds and its timespec are the same time.
LEMMA StampIsTime ==
  ASSUME NEW n \in Nat
  PROVE  /\ Stamp(n) \in [sec : Nat, nsec : Nat]
         /\ Valid(Stamp(n))
         /\ Ns(Stamp(n)) = n
<1>1. NsecPerSec \in Nat \ {0}
  BY TimeAssumption
<1>2. n \div NsecPerSec \in Nat /\ n % NsecPerSec \in Nat /\ n % NsecPerSec < NsecPerSec
  BY <1>1
<1>3. (n \div NsecPerSec) * NsecPerSec + (n % NsecPerSec) = n
  BY <1>1
<1>. QED BY <1>1, <1>2, <1>3 DEF Stamp, Valid, Ns

\* rebase_deadline's instant is as far ahead of r as the deadline is of m.
LEMMA RebaseIsTime ==
  ASSUME NEW ts \in Times, NEW r \in [sec : Nat, nsec : Nat], NEW m \in [sec : Nat, nsec : Nat]
  PROVE  /\ Rebase(ts, r, m) \in [sec : Nat, nsec : Nat]
         /\ Valid(Rebase(ts, r, m))
         /\ \/ Ns(ts) > Ns(m) /\ Ns(Rebase(ts, r, m)) = Ns(r) + (Ns(ts) - Ns(m))
            \/ Ns(ts) <= Ns(m) /\ Ns(Rebase(ts, r, m)) = Ns(r)
<1>1. NsecPerSec \in Nat \ {0}
  BY TimeAssumption
<1>. DEFINE delta == (ts.sec - m.sec) * NsecPerSec + (ts.nsec - m.nsec)
<1>2. delta = Ns(ts) - Ns(m) /\ Ns(ts) \in Int /\ Ns(m) \in Nat /\ Ns(r) \in Nat /\ delta \in Int
  BY <1>1 DEF Ns, Times
<1>. DEFINE n == Ns(r) + (IF delta > 0 THEN delta ELSE 0)
<1>3. n \in Nat /\ (delta > 0 => n = Ns(r) + delta) /\ (~(delta > 0) => n = Ns(r))
  <2>. HIDE DEF delta
  <2>. QED BY <1>2
<1>4. Rebase(ts, r, m) = Stamp(n)
  BY DEF Rebase
<1>5. Stamp(n) \in [sec : Nat, nsec : Nat] /\ Valid(Stamp(n)) /\ Ns(Stamp(n)) = n
  <2>. HIDE DEF n
  <2>. QED BY <1>3, StampIsTime
<1>. HIDE DEF n, delta
<1>. QED BY <1>2, <1>3, <1>4, <1>5

\* A time from now ends that much later, or as late as can be said.
LEMMA FromNowIsTime ==
  ASSUME NEW now \in [sec : Nat, nsec : Nat], Valid(now), NEW t \in Times, Valid(t)
  PROVE  /\ FromNow(now, t) \in [sec : Nat, nsec : Nat]
         /\ Valid(FromNow(now, t))
         /\ Ns(FromNow(now, t)) <= Ns(now) + Ns(t)
         /\ FromNow(now, t).sec = MaxSec \/ Ns(FromNow(now, t)) = Ns(now) + Ns(t)
<1>1. NsecPerSec \in Nat \ {0} /\ MaxSec \in Nat
  BY TimeAssumption
<1>. DEFINE b == NsecPerSec
            ns == now.nsec + t.nsec
            s == now.sec + t.sec
<1>2. ns \in Nat /\ s \in Nat /\ ns < b + b /\ b \in Nat
  BY <1>1 DEF Valid, Times
<1>3. Ns(now) + Ns(t) = s * b + ns
  BY <1>1 DEF Ns, Times
<1>4. \A a \in Nat : a <= s => a * b <= s * b
  <2>. HIDE DEF s, ns
  <2>. QED BY <1>2, <1>1
<1>5. (s + 1) * b = s * b + b
  <2>. HIDE DEF s, ns
  <2>. QED BY <1>2, <1>1
<1>6. CASE ns >= b
  <2>1. FromNow(now, t) = [sec |-> Saturated(Saturated(s) + 1), nsec |-> ns - b]
    BY <1>6 DEF FromNow
  <2>. HIDE DEF s, ns, b
  <2>2. Saturated(Saturated(s) + 1) \in Nat /\ Saturated(Saturated(s) + 1) <= s + 1
        /\ (Saturated(Saturated(s) + 1) = MaxSec \/ Saturated(Saturated(s) + 1) = s + 1)
    BY <1>1, <1>2 DEF Saturated
  <2>. DEFINE w == Saturated(Saturated(s) + 1)
  <2>3. w * b <= (s + 1) * b
    <3>. HIDE DEF w
    <3>1. w \in Nat /\ w <= s + 1 /\ s + 1 \in Nat /\ b \in Nat
      BY <2>2, <1>2 DEF w
    <3>. QED BY <3>1
  <2>4. ns - b \in Nat /\ ns - b < b
    BY <1>2, <1>6
  <2>5. Ns(FromNow(now, t)) = w * b + (ns - b)
    BY <2>1 DEF Ns, w, b
  <2>6. /\ FromNow(now, t) \in [sec : Nat, nsec : Nat]
        /\ FromNow(now, t).sec = w /\ FromNow(now, t).nsec = ns - b
    BY <2>1, <2>2, <2>4 DEF w
  <2>7. Valid(FromNow(now, t))
    BY <2>6, <2>4, <2>2 DEF Valid, b
  <2>8. w * b \in Int /\ s * b \in Int
    BY <2>2, <1>2 DEF w
  <2>9. Ns(FromNow(now, t)) <= s * b + ns
    <3>. HIDE DEF w
    <3>. QED BY <2>3, <2>5, <2>8, <1>5, <1>2
  <2>10. w = s + 1 => Ns(FromNow(now, t)) = s * b + ns
    <3>. HIDE DEF w
    <3>. QED BY <2>5, <2>8, <1>5, <1>2
  <2>. QED BY <2>2, <2>6, <2>7, <2>9, <2>10, <1>3 DEF w
<1>7. CASE ~(ns >= b)
  <2>1. FromNow(now, t) = [sec |-> Saturated(s), nsec |-> ns]
    BY <1>7 DEF FromNow
  <2>. HIDE DEF s, ns, b
  <2>2. Saturated(s) \in Nat /\ Saturated(s) <= s /\ (Saturated(s) = MaxSec \/ Saturated(s) = s)
    BY <1>1, <1>2 DEF Saturated
  <2>3. Saturated(s) * b <= s * b
    BY <2>2, <1>4
  <2>4. /\ FromNow(now, t) \in [sec : Nat, nsec : Nat]
        /\ FromNow(now, t).sec = Saturated(s) /\ FromNow(now, t).nsec = ns
    BY <2>1, <2>2, <1>2
  <2>5. Valid(FromNow(now, t))
    BY <2>4, <2>2, <1>2, <1>7 DEF Valid, b
  <2>6. Ns(FromNow(now, t)) = Saturated(s) * b + ns
    BY <2>4 DEF Ns, b
  <2>7. Saturated(s) * b \in Int /\ s * b \in Int
    BY <2>2, <1>2
  <2>8. Ns(FromNow(now, t)) <= s * b + ns
    BY <2>6, <2>7, <2>3, <1>2
  <2>. QED BY <2>2, <2>4, <2>5, <2>6, <2>8, <1>3
<1>. QED BY <1>6, <1>7

-------------------------------------------------------------------------------
(* Frames *)

\* A call's time, and its deadline if it has one.
LEMMA FrameType ==
  ASSUME TypeOK, NEW t \in Threads
  PROVE  /\ frame[t] \in Frames(t)
         /\ frame[t].call.ts \in Times
         /\ frame[t].pc # "idle" => frame[t].call \in Asks[t]
<1>1. frame[t] \in Frames(t) /\ (frame[t].pc # "idle" => frame[t].call # NoCall)
  BY DEF TypeOK
<1>2. frame[t].call \in Asks[t] \union {NoCall}
  BY <1>1 DEF Frames
<1>3. NoCall.ts \in Times
  BY DEF NoCall, NoTime, Times
<1>4. frame[t].call \in Asks[t] => frame[t].call.ts \in Times
  BY AsksAssumption
<1>. QED BY <1>1, <1>2, <1>3, <1>4

\* An idle thread's frame asks for nothing.
LEMMA NoFrameInv ==
  ASSUME TypeOK, NEW t \in Threads
  PROVE  /\ FrameInv(NoFrame) /\ NoFrame \in Frames(t) /\ NoFrame.pc = "idle" /\ NoFrame.call.fn = "none"
<1>1. NoFrame \in Frames(t)
  BY DEF NoFrame, Frames, Pcs, Zero, NoDue, Dues, NoTime, Times
<1>2. Known(NoFrame) /\ ReadOnce(NoFrame) /\ DueInTime(NoFrame)
  BY DEF NoFrame, Known, ReadOnce, DueInTime, TypeOK
<1>. QED BY <1>1, <1>2 DEF FrameInv, NoFrame, NoCall

\* A step that takes one thread to a frame with the invariant keeps it.
LEMMA KeepInv ==
  ASSUME TimesInv, NEW t \in Threads, NEW STATE f, Keep(t, f), UNCHANGED <<reads, clocks>>,
         f \in Frames(t), FrameInv(f), f.pc # "idle" => f.call # NoCall,
         f.call.fn = "futex" /\ f.due # NoDue => Valid(f.due.ts),
         word' \in {0, 1}, made' \in [Threads -> Nat]
  PROVE  TimesInv'
<1>1. DOMAIN frame' = Threads /\ frame'[t] = f /\ \A u \in Threads : u # t => frame'[u] = frame[u]
  BY DEF Keep, TimesInv, TypeOK
<1>2. mono' = mono /\ real' = real /\ sets' = sets /\ reads' = reads
  BY DEF clocks
<1>3. \A u \in Threads :
        /\ frame'[u] \in Frames(u)
        /\ frame'[u].pc # "idle" => frame'[u].call # NoCall
        /\ frame'[u].call.fn = "futex" /\ frame'[u].due # NoDue => Valid(frame'[u].due.ts)
        /\ FrameInv(frame'[u])
  BY <1>1 DEF TimesInv, TypeOK
<1>4. \A u \in Threads : FrameInv(frame[u])'
  <2>. SUFFICES ASSUME NEW u \in Threads PROVE FrameInv(frame[u])'
    OBVIOUS
  <2>1. FrameInv(frame'[u])
    BY <1>3
  <2>. QED BY <2>1, <1>2 DEF FrameInv, Known, ReadOnce, DueInTime, RebasedInTime, RelativeInTime, MonoDue,
         IsRebased, IsRelative, IsDirect, Ns, Valid
<1>. QED BY <1>1, <1>2, <1>3, <1>4 DEF TimesInv, TypeOK, Frames

\* So does one in which calls return.
LEMMA ReturnInv ==
  ASSUME TimesInv, NEW S \in SUBSET Threads, Return(S), UNCHANGED <<reads, clocks, word, made>>
  PROVE  TimesInv'
<1>1. mono' = mono /\ real' = real /\ sets' = sets /\ reads' = reads /\ word' = word /\ made' = made
  BY DEF clocks
<1>2. DOMAIN frame' = Threads /\ \A u \in Threads : frame'[u] = NoFrame \/ frame'[u] = frame[u]
  BY DEF Return
<1>3. \A u \in Threads :
        /\ frame'[u] \in Frames(u)
        /\ frame'[u].pc # "idle" => frame'[u].call # NoCall
        /\ frame'[u].call.fn = "futex" /\ frame'[u].due # NoDue => Valid(frame'[u].due.ts)
        /\ FrameInv(frame'[u])
  BY <1>2, NoFrameInv DEF TimesInv, TypeOK
<1>4. \A u \in Threads : FrameInv(frame[u])'
  <2>. SUFFICES ASSUME NEW u \in Threads PROVE FrameInv(frame[u])'
    OBVIOUS
  <2>1. FrameInv(frame'[u])
    BY <1>3
  <2>. QED BY <2>1, <1>1 DEF FrameInv, Known, ReadOnce, DueInTime, RebasedInTime, RelativeInTime, MonoDue,
         IsRebased, IsRelative, IsDirect, Ns, Valid
<1>. QED BY <1>1, <1>2, <1>3, <1>4 DEF TimesInv, TypeOK, Frames

-------------------------------------------------------------------------------
(* Steps *)

\* The clocks as clock_gettime gives them.
LEMMA GetTimeIsTime ==
  ASSUME TimesInv
  PROVE  /\ GetTime(CLOCK_REALTIME, Zero) = Stamp(real) /\ GetTime(CLOCK_MONOTONIC, Zero) = Stamp(mono)
         /\ Stamp(real) \in [sec : Nat, nsec : Nat] /\ Ns(Stamp(real)) = real /\ Valid(Stamp(real))
         /\ Stamp(mono) \in [sec : Nat, nsec : Nat] /\ Ns(Stamp(mono)) = mono /\ Valid(Stamp(mono))
<1>1. mono \in Nat /\ real \in Nat
  BY DEF TimesInv, TypeOK
<1>2. GetTime(CLOCK_REALTIME, Zero) = Stamp(real) /\ GetTime(CLOCK_MONOTONIC, Zero) = Stamp(mono)
  BY DEF TimesInv, GetTime, Reading
<1>. QED BY <1>1, <1>2, StampIsTime

\* A call begins with a frame that has the invariant.
LEMMA BeginInv ==
  ASSUME TimesInv, NEW t \in Threads, NEW c \in Asks[t], NEW f \in Frames(t),
         f.call = c, f.first = mono, f.second = mono, f.due = NoDue, f.steady, f.rt = Zero,
         BeginTimed(t, f) \/ BeginWake(t, f) \/ BeginWait(t, f) \/ BeginUnknown(t, f) \/ BeginSleep(t, f),
         UNCHANGED <<reads, clocks>>, word' \in {0, 1}, made' \in [Threads -> Nat]
  PROVE  TimesInv'
<1>1. /\ c.fn \in {"pthread", "sem", "futex", "sleep"} /\ c.ts \in Times
      /\ c.fn = "futex" => c.realtime \in BOOLEAN
      /\ c.fn = "sleep" => c.clock \in {CLOCK_REALTIME, CLOCK_MONOTONIC}
  BY AsksAssumption
<1>2. c # NoCall
  BY <1>1 DEF NoCall
<1>3. mono \in Nat /\ real \in Nat
  BY DEF TimesInv, TypeOK
<1>4. NoDue \in Dues
  BY DEF NoDue, Dues, NoTime, Times
<1>5. CASE BeginTimed(t, f)
  <2>1. CASE IsMonotonic(c.ts) /\ Keep(t, [f EXCEPT !.pc = "real"])
    <3>. DEFINE g == [f EXCEPT !.pc = "real"]
    <3>1. g \in Frames(t) /\ g.pc = "real" /\ g.call = c /\ g.due = NoDue /\ g.first = mono /\ g.second = mono
      BY DEF Frames, Pcs
    <3>2. IsRebased(g.call)
      BY <2>1, <1>5, <3>1 DEF BeginTimed, IsRebased, IsMonotonic
    <3>3. FrameInv(g)
      <4>. HIDE DEF g
      <4>. QED BY <3>1, <3>2, <1>3 DEF FrameInv, Known, ReadOnce, DueInTime
    <3>. HIDE DEF g
    <3>4. Keep(t, g)
      BY <2>1 DEF g
    <3>. QED BY <3>1, <3>3, <3>4, <1>2, KeepInv
  <2>2. CASE ~IsMonotonic(c.ts) /\ Keep(t, [f EXCEPT !.pc = "enter", !.due = [clock |-> "real", ts |-> c.ts]])
    <3>. DEFINE g == [f EXCEPT !.pc = "enter", !.due = [clock |-> "real", ts |-> c.ts]]
    <3>0. [clock |-> "real", ts |-> c.ts] \in Dues
      BY <1>1 DEF Dues
    <3>1. /\ g \in Frames(t) /\ g.pc = "enter" /\ g.call = c /\ g.first = mono /\ g.second = mono
          /\ g.due = [clock |-> "real", ts |-> c.ts]
      BY <3>0 DEF Frames, Pcs
    <3>2. ~IsRebased(c) /\ ~IsRelative(c) /\ c.fn # "futex" /\ c.fn # "sleep"
      BY <2>2, <1>5 DEF BeginTimed, IsRebased, IsRelative, IsMonotonic
    <3>3. FrameInv(g)
      <4>. HIDE DEF g
      <4>. QED BY <3>1, <3>2, <1>3 DEF FrameInv, Known, ReadOnce, DueInTime
    <3>. HIDE DEF g
    <3>4. Keep(t, g)
      BY <2>2 DEF g
    <3>. QED BY <3>1, <3>2, <3>3, <3>4, <1>2, KeepInv
  <2>. QED BY <1>5, <2>1, <2>2 DEF BeginTimed
<1>6. ASSUME NEW p \in {"wake", "relative", "EINVAL", "ENOSYS"}, Keep(t, [f EXCEPT !.pc = p]),
             p = "relative" => IsRelative(c) /\ ~c.realtime /\ Valid(c.ts),
             p = "EINVAL" => ~Valid(c.ts)
      PROVE  TimesInv'
  <2>. DEFINE g == [f EXCEPT !.pc = p]
  <2>1. g \in Frames(t) /\ g.pc = p /\ g.call = c /\ g.due = NoDue /\ g.first = mono /\ g.second = mono
    BY DEF Frames, Pcs
  <2>2. FrameInv(g)
    <3>. HIDE DEF g
    <3>. QED BY <2>1, <1>6, <1>3 DEF FrameInv, Known, ReadOnce, DueInTime
  <2>. HIDE DEF g
  <2>3. Keep(t, g)
    BY <1>6 DEF g
  <2>. QED BY <2>1, <2>2, <2>3, <1>2, KeepInv
<1>7. ASSUME NEW p \in {"enter", "blocked"}, NEW d \in Dues, Keep(t, [f EXCEPT !.pc = p, !.due = d]),
             c.fn \in {"futex", "sleep"}, ~IsRelative(c), c.fn = "futex" /\ d # NoDue => Valid(d.ts),
             d # NoDue => d.clock # "none", p = "enter" => c.fn # "sleep"
      PROVE  TimesInv'
  <2>. DEFINE g == [f EXCEPT !.pc = p, !.due = d]
  <2>1. g \in Frames(t) /\ g.pc = p /\ g.call = c /\ g.due = d /\ g.first = mono /\ g.second = mono
    BY DEF Frames, Pcs
  <2>2. ~IsRebased(c) /\ ~IsDirect(c)
    BY <1>7 DEF IsRebased, IsDirect
  <2>3. FrameInv(g)
    <3>. HIDE DEF g
    <3>. QED BY <2>1, <2>2, <1>7, <1>3 DEF FrameInv, Known, ReadOnce, DueInTime
  <2>. HIDE DEF g
  <2>4. Keep(t, g)
    BY <1>7 DEF g
  <2>. QED BY <2>1, <2>3, <2>4, <1>7, <1>2, KeepInv
<1>8. CASE BeginWake(t, f)
  BY <1>6, <1>8 DEF BeginWake
<1>9. CASE BeginUnknown(t, f)
  BY <1>6, <1>9 DEF BeginUnknown
<1>10. CASE BeginWait(t, f)
  <2>1. CASE c.ts = NoTime /\ Keep(t, [f EXCEPT !.pc = "enter"])
    <3>1. [f EXCEPT !.pc = "enter"] = [f EXCEPT !.pc = "enter", !.due = NoDue]
      BY DEF Frames
    <3>2. c.fn = "futex" /\ ~IsRelative(c)
      BY <2>1, <1>10 DEF BeginWait, IsRelative
    <3>3. Keep(t, [f EXCEPT !.pc = "enter", !.due = NoDue])
      BY <2>1, <3>1
    <3>. QED BY <3>2, <3>3, <1>7, <1>4
  <2>2. CASE ~Valid(c.ts) /\ Keep(t, [f EXCEPT !.pc = "EINVAL"])
    BY <2>2, <1>6
  <2>3. CASE c.ts # NoTime /\ Valid(c.ts) /\ c.cmd = "WAIT" /\ Keep(t, [f EXCEPT !.pc = "relative"])
    <3>1. IsRelative(c) /\ ~c.realtime
      BY <2>3, <1>10 DEF BeginWait, IsRelative, Unknown
    <3>. QED BY <2>3, <3>1, <1>6
  <2>4. CASE /\ c.ts # NoTime /\ Valid(c.ts) /\ c.cmd = "WAIT_BITSET"
             /\ Keep(t, [f EXCEPT !.pc = "enter", !.due = [clock |-> reads[FutexClock(c)], ts |-> c.ts]])
    <3>1. reads[FutexClock(c)] \in {"real", "mono"}
      BY DEF TimesInv, FutexClock
    <3>2. [clock |-> reads[FutexClock(c)], ts |-> c.ts] \in Dues
      BY <3>1, <1>1 DEF Dues
    <3>3. c.fn = "futex" /\ ~IsRelative(c)
      BY <2>4, <1>10 DEF BeginWait, IsRelative
    <3>. DEFINE d == [clock |-> reads[FutexClock(c)], ts |-> c.ts]
    <3>4. d.clock # "none" /\ Valid(d.ts) /\ d \in Dues
      BY <2>4, <3>1, <3>2
    <3>5. Keep(t, [f EXCEPT !.pc = "enter", !.due = d])
      BY <2>4
    <3>. HIDE DEF d
    <3>. QED BY <3>3, <3>4, <3>5, <1>7
  <2>. QED BY <1>10, <2>1, <2>2, <2>3, <2>4 DEF BeginWait
<1>11. CASE BeginSleep(t, f)
  <2>. DEFINE clock == reads[c.clock]
             end == IF c.absolute THEN c.ts ELSE Stamp(Reading(clock) + Ns(c.ts))
  <2>1. c.fn = "sleep" /\ clock \in {"real", "mono"} /\ ~IsRelative(c)
    BY <1>11, <1>1 DEF BeginSleep, TimesInv, IsRelative
  <2>2. CASE Valid(c.ts) /\ Keep(t, [f EXCEPT !.pc = "blocked", !.due = [clock |-> clock, ts |-> end]])
    <3>1. Reading(clock) + Ns(c.ts) \in Nat
      <4>1. Reading(clock) \in Nat
        BY <1>3, <2>1 DEF Reading
      <4>2. Ns(c.ts) \in Nat
        BY <2>2, <1>1, TimeAssumption DEF Valid, Times, Ns
      <4>. QED BY <4>1, <4>2
    <3>2. end \in Times
      BY <3>1, <1>1, StampIsTime DEF Times
    <3>3. [clock |-> clock, ts |-> end] \in Dues
      BY <3>2, <2>1 DEF Dues
    <3>. DEFINE d == [clock |-> clock, ts |-> end]
    <3>4. d.clock # "none" /\ d \in Dues
      BY <2>1, <3>3
    <3>5. Keep(t, [f EXCEPT !.pc = "blocked", !.due = d])
      BY <2>2
    <3>. HIDE DEF d, end, clock
    <3>. QED BY <2>1, <3>4, <3>5, <1>7
  <2>3. CASE ~(Valid(c.ts) /\ clock # "none") /\ Keep(t, [f EXCEPT !.pc = "EINVAL"])
    BY <2>1, <2>3, <1>6
  <2>. QED BY <1>11, <2>2, <2>3 DEF BeginSleep
<1>. QED BY <1>5, <1>8, <1>9, <1>10, <1>11

\* The first reading of rebase_deadline.
LEMMA ReadRealInv ==
  ASSUME TimesInv, NEW t \in Threads, ReadReal(t)
  PROVE  TimesInv'
<1>. DEFINE f == frame[t]
            g == [f EXCEPT !.pc = "mono", !.rt = GetTime(CLOCK_REALTIME, Zero), !.first = mono]
<1>1. f \in Frames(t) /\ f.pc = "real" /\ FrameInv(f) /\ f.call # NoCall /\ mono \in Nat /\ real \in Nat
  BY DEF TimesInv, TypeOK, ReadReal, At
<1>2. GetTime(CLOCK_REALTIME, Zero) \in [sec : Nat, nsec : Nat] /\ Ns(GetTime(CLOCK_REALTIME, Zero)) = real
  BY GetTimeIsTime
<1>3. /\ g \in Frames(t) /\ g.pc = "mono" /\ g.call = f.call /\ g.first = mono /\ g.second = f.second
      /\ Ns(g.rt) = real
  BY <1>1, <1>2 DEF Frames, Pcs
<1>4. IsRebased(f.call) /\ f.second <= mono
  BY <1>1 DEF FrameInv, Known
<1>5. FrameInv(g)
  <2>. HIDE DEF g, f
  <2>. QED BY <1>1, <1>3, <1>4 DEF FrameInv, Known, ReadOnce, DueInTime
<1>6. g.call.fn # "futex"
  BY <1>3, <1>4 DEF IsRebased
<1>7. Keep(t, g) /\ UNCHANGED <<reads, clocks, word, made>>
  BY DEF ReadReal
<1>8. word' \in {0, 1} /\ made' \in [Threads -> Nat]
  BY <1>7 DEF TimesInv, TypeOK
<1>. HIDE DEF g, f
<1>. QED BY <1>1, <1>3, <1>5, <1>6, <1>7, <1>8, KeepInv

\* The second, and the deadline it makes.
LEMMA ReadMonoInv ==
  ASSUME TimesInv, NEW t \in Threads, ReadMono(t)
  PROVE  TimesInv'
<1>. DEFINE f == frame[t]
            mn == GetTime(CLOCK_MONOTONIC, Zero)
            end == Rebase(f.call.ts, f.rt, mn)
            g == [f EXCEPT !.pc = "enter", !.second = mono, !.due = [clock |-> "real", ts |-> end]]
<1>1. f \in Frames(t) /\ f.pc = "mono" /\ FrameInv(f) /\ f.call # NoCall /\ mono \in Nat /\ real \in Nat
  BY DEF TimesInv, TypeOK, ReadMono, At
<1>2. mn \in [sec : Nat, nsec : Nat] /\ Ns(mn) = mono
  BY GetTimeIsTime
<1>3. f.call.ts \in Times /\ f.rt \in [sec : Nat, nsec : Nat]
  <2>1. TypeOK
    BY DEF TimesInv
  <2>2. f.call.ts \in Times
    BY <2>1, FrameType
  <2>. HIDE DEF f
  <2>. QED BY <1>1, <2>2 DEF Frames
<1>4. /\ end \in [sec : Nat, nsec : Nat] /\ Valid(end)
      /\ \/ Ns(f.call.ts) > mono /\ Ns(end) = Ns(f.rt) + (Ns(f.call.ts) - mono)
         \/ Ns(f.call.ts) <= mono /\ Ns(end) = Ns(f.rt)
  <2>. HIDE DEF mn, f
  <2>. QED BY <1>2, <1>3, RebaseIsTime
<1>5. /\ g \in Frames(t) /\ g.pc = "enter" /\ g.call = f.call /\ g.first = f.first /\ g.second = mono
      /\ g.due = [clock |-> "real", ts |-> end] /\ g.steady = f.steady
  <2>1. [clock |-> "real", ts |-> end] \in Dues
    <3>. HIDE DEF end
    <3>. QED BY <1>4 DEF Dues, Times
  <2>. HIDE DEF end, f
  <2>. QED BY <1>1, <2>1 DEF Frames, Pcs
<1>6. IsRebased(f.call) /\ f.first <= mono /\ (f.steady => Ns(f.rt) - (real - mono) = f.first)
  BY <1>1 DEF FrameInv, Known, ReadOnce
<1>7. Ns(f.call.ts) \in Int /\ Ns(f.rt) \in Int /\ Ns(end) \in Int /\ f.first \in Nat
  <2>1. NsecPerSec \in Nat
    BY TimeAssumption
  <2>. HIDE DEF end
  <2>. QED BY <1>1, <1>3, <1>4, <2>1 DEF Ns, Times, Frames
<1>8. g.steady => RebasedInTime(g)
  <2>1. MonoDue(g) = Ns(end) - (real - mono)
    BY <1>5 DEF MonoDue
  <2>. HIDE DEF g, f, end, mn
  <2>. QED BY <2>1, <1>1, <1>4, <1>5, <1>6, <1>7 DEF RebasedInTime
<1>9. ~IsRelative(f.call) /\ ~IsDirect(f.call) /\ f.call.fn # "futex" /\ f.call.fn # "sleep"
  BY <1>6 DEF IsRelative, IsDirect, IsRebased
<1>10. FrameInv(g)
  <2>. HIDE DEF g, f, end
  <2>. QED BY <1>1, <1>4, <1>5, <1>6, <1>8, <1>9 DEF FrameInv, Known, ReadOnce, DueInTime
<1>11. Keep(t, g) /\ UNCHANGED <<reads, clocks, word, made>>
  BY DEF ReadMono
<1>12. word' \in {0, 1} /\ made' \in [Threads -> Nat]
  BY <1>11 DEF TimesInv, TypeOK
<1>. HIDE DEF g, f
<1>. QED BY <1>1, <1>5, <1>9, <1>10, <1>11, <1>12, KeepInv

\* The one reading of FUTEX_WAIT.
LEMMA ReadClockInv ==
  ASSUME TimesInv, NEW t \in Threads, ReadClock(t)
  PROVE  TimesInv'
<1>. DEFINE f == frame[t]
            end == FromNow(Stamp(mono), f.call.ts)
            g == [f EXCEPT !.pc = "enter", !.second = mono, !.due = [clock |-> "mono", ts |-> end]]
<1>1. f \in Frames(t) /\ f.pc = "relative" /\ FrameInv(f) /\ f.call # NoCall /\ mono \in Nat /\ real \in Nat
  BY DEF TimesInv, TypeOK, ReadClock, At
<1>2. /\ IsRelative(f.call) /\ ~f.call.realtime /\ Valid(f.call.ts)
      /\ f.first <= mono /\ f.first \in Nat /\ f.call.ts \in Times
  <2>1. TypeOK
    BY DEF TimesInv
  <2>2. f.call.ts \in Times
    BY <2>1, FrameType
  <2>3. f.first \in Nat
    BY <1>1 DEF Frames
  <2>. HIDE DEF f
  <2>. QED BY <1>1, <2>2, <2>3 DEF FrameInv, Known
<1>3. reads[FutexClock(f.call)] = "mono"
  BY <1>2 DEF FutexClock, TimesInv
<1>4. Stamp(mono) \in [sec : Nat, nsec : Nat] /\ Valid(Stamp(mono)) /\ Ns(Stamp(mono)) = mono
  BY GetTimeIsTime
<1>5. /\ end \in [sec : Nat, nsec : Nat] /\ Valid(end) /\ Ns(end) <= mono + Ns(f.call.ts)
      /\ end.sec = MaxSec \/ Ns(end) = mono + Ns(f.call.ts)
  BY <1>2, <1>4, FromNowIsTime
<1>6. /\ g \in Frames(t) /\ g.pc = "enter" /\ g.call = f.call /\ g.first = f.first /\ g.second = mono
      /\ g.due = [clock |-> "mono", ts |-> end]
  <2>1. [clock |-> "mono", ts |-> end] \in Dues
    <3>. HIDE DEF end
    <3>. QED BY <1>5 DEF Dues, Times
  <2>. HIDE DEF end, f
  <2>. QED BY <1>1, <2>1 DEF Frames, Pcs
<1>7. Ns(f.call.ts) \in Int /\ Ns(end) \in Int
  BY <1>2, <1>5, TimeAssumption DEF Ns, Times
<1>8. RelativeInTime(g)
  <2>1. MonoDue(g) = Ns(end)
    <3>. HIDE DEF g, f, end
    <3>. QED BY <1>6, <1>7 DEF MonoDue
  <2>. HIDE DEF g, f, end
  <2>. QED BY <2>1, <1>1, <1>2, <1>5, <1>6, <1>7 DEF RelativeInTime
<1>9. ~IsRebased(f.call) /\ ~IsDirect(f.call) /\ f.call.fn # "sleep"
  BY <1>2 DEF IsRelative, IsDirect, IsRebased
<1>10. FrameInv(g)
  <2>. HIDE DEF g, f, end
  <2>. QED BY <1>1, <1>2, <1>6, <1>8, <1>9 DEF FrameInv, Known, ReadOnce, DueInTime
<1>11. Keep(t, g) /\ UNCHANGED <<reads, clocks, word, made>>
  BY <1>3 DEF ReadClock, Reading
<1>12. word' \in {0, 1} /\ made' \in [Threads -> Nat]
  BY <1>11 DEF TimesInv, TypeOK
<1>13. g.call.fn = "futex" /\ g.due # NoDue => Valid(g.due.ts)
  BY <1>5, <1>6
<1>. HIDE DEF g, f
<1>. QED BY <1>1, <1>6, <1>10, <1>11, <1>12, <1>13, KeepInv

\* A wait that blocks, or that the host or the word turns away.
LEMMA EnterInv ==
  ASSUME TimesInv, NEW t \in Threads, Enter(t)
  PROVE  TimesInv'
<1>. DEFINE f == frame[t]
<1>1. /\ f \in Frames(t) /\ f.pc = "enter" /\ FrameInv(f) /\ f.call # NoCall
      /\ f.call.fn = "futex" /\ f.due # NoDue => Valid(f.due.ts)
  BY DEF TimesInv, TypeOK, Enter, At
<1>2. PICK p \in {"EINVAL", "EAGAIN", "blocked"} : Keep(t, [f EXCEPT !.pc = p]) /\ (p = "EINVAL" => Impossible(f.due))
  BY DEF Enter
<1>. DEFINE g == [f EXCEPT !.pc = p]
<1>3. /\ g \in Frames(t) /\ g.pc = p /\ g.call = f.call /\ g.first = f.first /\ g.second = f.second
      /\ g.due = f.due /\ g.steady = f.steady
  BY <1>1 DEF Frames, Pcs
<1>4. p = "EINVAL" => ~Valid(f.call.ts)
  <2>. SUFFICES ASSUME p = "EINVAL" PROVE ~Valid(f.call.ts)
    OBVIOUS
  <2>1. f.due # NoDue /\ ~Valid(f.due.ts)
    BY <1>1, <1>2 DEF Impossible, FrameInv, DueInTime
  <2>2. f.call.fn \in {"pthread", "sem"}
    <3>1. TypeOK
      BY DEF TimesInv
    <3>2. f.call \in Asks[t]
      BY <3>1, <1>1, FrameType
    <3>3. f.call.fn \in {"pthread", "sem", "futex", "sleep"}
      BY <3>2, AsksAssumption
    <3>4. f.call.fn # "sleep"
      BY <1>1 DEF FrameInv, Known
    <3>. HIDE DEF f
    <3>. QED BY <1>1, <2>1, <3>3, <3>4
  <2>. QED BY <2>1, <2>2, <1>1 DEF FrameInv, DueInTime, IsRebased, IsDirect
<1>5. FrameInv(g)
  <2>1. MonoDue(g) = MonoDue(f)
    BY <1>3 DEF MonoDue
  <2>. HIDE DEF g, f
  <2>. QED BY <1>1, <1>3, <1>4, <2>1 DEF FrameInv, Known, ReadOnce, DueInTime, RebasedInTime, RelativeInTime
<1>6. Keep(t, g) /\ UNCHANGED <<reads, clocks, word, made>>
  BY <1>2 DEF Enter
<1>7. word' \in {0, 1} /\ made' \in [Threads -> Nat]
  BY <1>6 DEF TimesInv, TypeOK
<1>. HIDE DEF g, f
<1>. QED BY <1>1, <1>3, <1>5, <1>6, <1>7, KeepInv

\* Time passes for both clocks alike.
LEMMA TickInv ==
  ASSUME TimesInv, Tick
  PROVE  TimesInv'
<1>1. mono' = mono + 1 /\ real' = real + 1 /\ mono \in Nat /\ real \in Nat
  BY DEF Tick, TimesInv, TypeOK
<1>2. frame' = frame /\ reads' = reads /\ sets' = sets /\ word' = word /\ made' = made
  BY DEF Tick
<1>3. ASSUME NEW t \in Threads
      PROVE  FrameInv(frame[t])'
  <2>. DEFINE f == frame[t]
  <2>1. f \in Frames(t) /\ FrameInv(f) /\ f.first \in Nat /\ f.second \in Nat
    BY DEF TimesInv, TypeOK, Frames
  <2>2. real' - mono' = real - mono
    BY <1>1
  <2>3. MonoDue(f)' = MonoDue(f)
    BY <1>2, <2>2 DEF MonoDue, Ns
  <2>4. MonoDue(f) \in Int
    <3>1. f.due.ts \in Times
      BY <2>1 DEF Frames, Dues
    <3>2. Ns(f.due.ts) \in Int
      BY <3>1, TimeAssumption DEF Ns, Times
    <3>. QED BY <3>2, <1>1 DEF MonoDue
  <2>5. Known(f)'
    BY <1>1, <1>2, <2>1 DEF FrameInv, Known, IsRebased, IsRelative, Valid
  <2>6. ReadOnce(f)'
    BY <1>2, <2>1, <2>2 DEF FrameInv, ReadOnce, Ns
  <2>7. RebasedInTime(f) => RebasedInTime(f)'
    BY <1>1, <1>2, <2>3, <2>4 DEF RebasedInTime, Ns
  <2>8. RelativeInTime(f) => RelativeInTime(f)'
    BY <1>2, <2>3 DEF RelativeInTime, Ns
  <2>9. DueInTime(f)'
    BY <1>2, <2>1, <2>7, <2>8 DEF FrameInv, DueInTime, IsRebased, IsRelative, IsDirect, Valid
  <2>. QED BY <1>2, <2>5, <2>6, <2>9 DEF FrameInv
<1>. QED BY <1>1, <1>2, <1>3 DEF TimesInv, TypeOK, Frames, Valid

\* Setting the real clock leaves what counts on the other one.
LEMMA SetClockInv ==
  ASSUME TimesInv, SetClock
  PROVE  TimesInv'
<1>1. PICK j \in Jumps : real' = real + j /\ real + j >= RealSecs * NsecPerSec
  BY DEF SetClock
<1>2. real' \in Nat
  <2>1. RealSecs * NsecPerSec \in Nat /\ real + j \in Int
    BY TimeAssumption DEF TimesInv, TypeOK
  <2>. QED BY <1>1, <2>1
<1>3. mono' = mono /\ reads' = reads /\ word' = word /\ made' = made /\ sets' = sets + 1
  BY DEF SetClock
<1>4. DOMAIN frame' = Threads
  BY DEF SetClock
<1>5. ASSUME NEW t \in Threads
      PROVE  /\ frame'[t] \in Frames(t)
             /\ frame'[t].pc # "idle" => frame'[t].call # NoCall
             /\ frame'[t].call.fn = "futex" /\ frame'[t].due # NoDue => Valid(frame'[t].due.ts)
             /\ FrameInv(frame[t])'
  <2>. DEFINE f == frame[t]
            g == [f EXCEPT !.steady = At(t, "idle")]
  <2>1. f \in Frames(t) /\ FrameInv(f) /\ At(t, "idle") \in BOOLEAN
    BY DEF TimesInv, TypeOK, At
  <2>2. /\ g \in Frames(t) /\ g.pc = f.pc /\ g.call = f.call /\ g.rt = f.rt /\ g.due = f.due
        /\ g.first = f.first /\ g.second = f.second /\ (g.steady => g.pc = "idle")
    BY <2>1 DEF Frames, At
  <2>3. frame'[t] = g
    BY DEF SetClock
  <2>4. f.due.clock = "mono" => (RelativeInTime(f) => RelativeInTime(frame[t])')
    <3>. HIDE DEF g
    <3>. QED BY <1>3, <2>2, <2>3 DEF RelativeInTime, MonoDue, Ns
  <2>5. FrameInv(frame[t])'
    <3>1. Known(frame[t])'
      <4>. HIDE DEF g, f
      <4>. QED BY <1>3, <2>1, <2>2, <2>3 DEF FrameInv, Known, IsRebased, IsRelative, Valid
    <3>2. ReadOnce(frame[t])'
      <4>. HIDE DEF g, f
      <4>. QED BY <2>2, <2>3 DEF ReadOnce
    <3>3. DueInTime(frame[t])'
      <4>. HIDE DEF g, f
      <4>. QED BY <1>3, <2>1, <2>2, <2>3, <2>4 DEF FrameInv, DueInTime, IsRebased, IsRelative, IsDirect, Valid
    <3>. QED BY <3>1, <3>2, <3>3 DEF FrameInv
  <2>6. /\ f.pc # "idle" => f.call # NoCall
        /\ f.call.fn = "futex" /\ f.due # NoDue => Valid(f.due.ts)
    BY DEF TimesInv, TypeOK
  <2>. HIDE DEF g, f
  <2>. QED BY <2>2, <2>3, <2>5, <2>6
<1>6. sets' \in Nat
  BY <1>3 DEF TimesInv, TypeOK
<1>. QED BY <1>2, <1>3, <1>4, <1>5, <1>6 DEF TimesInv, TypeOK, Frames, Valid

-------------------------------------------------------------------------------

\* The invariant holds at first and is kept by every step.
LEMMA TimesInvInit == ClocksKnown /\ Init => TimesInv
<1>. SUFFICES ASSUME ClocksKnown, Init PROVE TimesInv
  OBVIOUS
<1>1. PICK h \in Hosts : reads = ReadsOn(h)
  BY DEF Init
<1>2. /\ reads[CLOCK_REALTIME] = "real" /\ reads[CLOCK_MONOTONIC] = "mono"
      /\ DOMAIN reads = {CLOCK_REALTIME, CLOCK_MONOTONIC}
      /\ reads = [id \in {CLOCK_REALTIME, CLOCK_MONOTONIC} |-> reads[id]]
  BY <1>1 DEF ClocksKnown, ReadsOn
<1>3. reads \in [{CLOCK_REALTIME, CLOCK_MONOTONIC} -> {"real", "mono", "none"}]
  BY <1>2
<1>4. \A t \in Threads : NoFrame \in Frames(t)
  BY DEF NoFrame, Frames, Pcs, Zero, NoDue, Dues, NoTime, Times
<1>5. FrameInv(NoFrame)
  BY DEF Init, FrameInv, NoFrame, Known, ReadOnce, DueInTime
<1>6. NoFrame.pc = "idle" /\ NoFrame.call.fn # "futex"
  BY DEF NoFrame, NoCall
<1>7. TypeOK
  BY <1>3, <1>4, <1>6, TimeAssumption DEF Init, TypeOK
<1>. QED BY <1>2, <1>5, <1>7 DEF TimesInv, Init

LEMMA TimesInvStep == TimesInv /\ [Next]_vars => TimesInv'
<1>. SUFFICES ASSUME TimesInv, [Next]_vars PROVE TimesInv'
  OBVIOUS
<1>0. word \in {0, 1} /\ made \in [Threads -> Nat]
  BY DEF TimesInv, TypeOK
<1>1. ASSUME NEW t \in Threads, NEW c \in Asks[t], Begin(t, c) PROVE TimesInv'
  <2>. DEFINE f == [NoFrame EXCEPT !.call = c, !.first = mono, !.second = mono]
  <2>1. mono \in Nat /\ NoFrame \in Frames(t)
    BY NoFrameInv DEF TimesInv, TypeOK
  <2>2. f \in Frames(t) /\ f.call = c /\ f.first = mono /\ f.second = mono /\ f.due = NoDue /\ f.steady /\ f.rt = Zero
    BY <2>1 DEF NoFrame, Frames
  <2>3. BeginTimed(t, f) \/ BeginWake(t, f) \/ BeginWait(t, f) \/ BeginUnknown(t, f) \/ BeginSleep(t, f)
    BY <1>1 DEF Begin
  <2>4. UNCHANGED <<reads, clocks, word>> /\ made' \in [Threads -> Nat]
    BY <1>0, <1>1 DEF Begin
  <2>. HIDE DEF f
  <2>. QED BY <1>0, <2>2, <2>3, <2>4, BeginInv
<1>2. ASSUME NEW t \in Threads, NEW c \in Asks[t], Store(t, c) PROVE TimesInv'
  <2>. DEFINE f == [NoFrame EXCEPT !.call = c, !.pc = "wake"]
  <2>1. mono \in Nat /\ NoFrame \in Frames(t)
    BY NoFrameInv DEF TimesInv, TypeOK
  <2>2. f \in Frames(t) /\ f.pc = "wake" /\ f.call = c /\ f.first = 0 /\ f.second = 0 /\ f.due = NoDue
    BY <2>1 DEF NoFrame, Frames, Pcs
  <2>3. Keep(t, f) /\ UNCHANGED <<reads, clocks, made>> /\ word' = 1 /\ c.fn = "futex"
    <3>1. Keep(t, [[NoFrame EXCEPT !.call = c] EXCEPT !.pc = "wake"])
      BY <1>2 DEF Store, BeginWake
    <3>2. [[NoFrame EXCEPT !.call = c] EXCEPT !.pc = "wake"] = f
      BY DEF NoFrame
    <3>. QED BY <1>2, <3>1, <3>2 DEF Store, BeginWake, NoFrame
  <2>4. c # NoCall
    BY <2>3 DEF NoCall
  <2>5. FrameInv(f)
    <3>. HIDE DEF f
    <3>. QED BY <2>1, <2>2 DEF FrameInv, Known, ReadOnce, DueInTime
  <2>. HIDE DEF f
  <2>. QED BY <1>0, <2>2, <2>3, <2>4, <2>5, KeepInv
<1>3. ASSUME NEW t \in Threads, Refused(t) \/ Timeout(t) \/ Signal(t) PROVE TimesInv'
  <2>1. Return({t}) /\ UNCHANGED <<reads, clocks, word, made>> /\ {t} \in SUBSET Threads
    BY <1>3 DEF Refused, Timeout, Signal
  <2>. QED BY <2>1, ReturnInv
<1>4. ASSUME NEW t \in Threads, Wake(t) PROVE TimesInv'
  <2>1. PICK S \in SUBSET Sleepers(t) : Return(S \union {t})
    BY <1>4 DEF Wake
  <2>2. S \union {t} \in SUBSET Threads
    BY DEF Sleepers
  <2>. QED BY <1>4, <2>1, <2>2, ReturnInv DEF Wake
<1>5. CASE UNCHANGED vars
  BY <1>5 DEF vars, clocks, TimesInv, TypeOK, FrameInv, Known, ReadOnce, DueInTime, RebasedInTime,
       RelativeInTime, MonoDue
<1>. QED BY <1>1, <1>2, <1>3, <1>4, <1>5, ReadRealInv, ReadMonoInv, ReadClockInv, EnterInv, TickInv, SetClockInv
     DEF Next, Step

\* Every variable keeps to its kind of value, on every host that has both clocks.
THEOREM TimesTypeCorrect == ClocksKnown => (Spec => []TypeOK)
<1>1. TimesInv => TypeOK
  BY DEF TimesInv
<1>. SUFFICES ASSUME ClocksKnown PROVE Spec => []TypeOK
  OBVIOUS
<1>2. Init => TimesInv
  BY TimesInvInit
<1>. QED BY <1>1, <1>2, TimesInvStep, PTL DEF Spec

\* Waits end in time: rebase_deadline's to the nanosecond but for the gap between
\* its two readings, FUTEX_WAIT's never early.
THEOREM WaitsInTime == ClocksKnown => (Spec => []InTime)
<1>1. TimesInv => InTime
  BY DEF TimesInv, FrameInv, DueInTime, InTime, At
<1>. SUFFICES ASSUME ClocksKnown PROVE Spec => []InTime
  OBVIOUS
<1>2. Init => TimesInv
  BY TimesInvInit
<1>. QED BY <1>1, <1>2, TimesInvStep, PTL DEF Spec

\* EINVAL is for times that are none.
THEOREM NoClockRefused == ClocksKnown => (Spec => []OnlyBadTimes)
<1>1. TimesInv => OnlyBadTimes
  BY DEF TimesInv, FrameInv, Known, OnlyBadTimes, At
<1>. SUFFICES ASSUME ClocksKnown PROVE Spec => []OnlyBadTimes
  OBVIOUS
<1>2. Init => TimesInv
  BY TimesInvInit
<1>. QED BY <1>1, <1>2, TimesInvStep, PTL DEF Spec

==============================================================================
