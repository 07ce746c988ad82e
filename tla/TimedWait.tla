------------------------------ MODULE TimedWait ------------------------------
(***************************************************************************)
(* The waits of crates/cosmo-compat/src/shim.rs that take a time: the      *)
(* POSIX timed waits, whose deadline may be a reading of either clock,     *)
(* futex(2), and clock_nanosleep.  Cosmo judges the first against the real *)
(* time, so rebase_deadline reads both clocks, one after the other, and    *)
(* moves a monotonic deadline over; time passes, and the real clock may be *)
(* set, between any two steps.                                             *)
(*                                                                         *)
(* Time is counted in nanoseconds; a timespec splits it at NsecPerSec.     *)
(***************************************************************************)
EXTENDS Xlate

CONSTANTS
  Threads,
  Hosts,        \* hosts to run on
  ClockTables,  \* gen.rs's clock group on each host
  NsecPerSec,   \* 1_000_000_000 in the code
  RealSecs,     \* 1_600_000_000 in the code: from here on, a date
  MaxSec,       \* i64::MAX
  BootTime,     \* the real time at which the monotonic clock starts
  Asks,         \* the calls each thread of a program may make
  Jumps,        \* by how much the real clock may be set forward or back
  LastTick,     \* bound: the last instant of the monotonic clock
  MaxSets,      \* bound: how often the real clock is set
  MaxCalls      \* bound: calls of a thread, wakes that follow a store not counted

CLOCK_REALTIME == 0
CLOCK_MONOTONIC == 1

\* Mutant: a clock's number passed on as it is.
clockidAsIs(h, id) == id

clockid(h, id) == ToHost(ClockTables[h], id)

\* The names a number of the host's goes by.
Named(h, n) == {ClockTables[h].names[i] : i \in Holds(ClockTables[h].host, n)}

\* The clock host h reads when a program asks by Linux's number.
ReadsOn(h) ==
  [id \in {CLOCK_REALTIME, CLOCK_MONOTONIC} |->
     LET known == Named(h, clockid(h, id)) IN
     CASE "CLOCK_REALTIME" \in known -> "real"
       [] "CLOCK_REALTIME" \notin known /\ "CLOCK_MONOTONIC" \in known -> "mono"
       [] OTHER -> "none"]

ASSUME TimeAssumption ==
  /\ NsecPerSec \in Nat \ {0} /\ RealSecs \in Nat /\ MaxSec \in Nat
  /\ BootTime \in Nat /\ Jumps \subseteq Int
  /\ LastTick \in Nat /\ MaxSets \in Nat /\ MaxCalls \in Nat

Times == [sec : Int, nsec : Int]

\* What a call may be.  A futex call without a time has NoTime.
ASSUME AsksAssumption ==
  \A t \in Threads : \A c \in Asks[t] :
    /\ c.fn \in {"pthread", "sem", "futex", "sleep"}
    /\ c.ts \in Times
    /\ c.fn = "futex" => c.private \in BOOLEAN /\ c.realtime \in BOOLEAN /\ c.anybit \in BOOLEAN /\ c.val \in Nat
    /\ c.fn = "sleep" => c.clock \in {CLOCK_REALTIME, CLOCK_MONOTONIC} /\ c.absolute \in BOOLEAN

VARIABLES
  reads,     \* the clock the host reads for each of Linux's numbers
  mono,      \* the monotonic clock
  real,      \* the real-time clock
  sets,      \* how often it has been set
  word,      \* the futex word: 1 once what is waited for has happened
  frame,     \* the call each thread is in, and its locals
  made       \* how many calls it has begun

clocks == <<mono, real, sets>>
vars == <<reads, clocks, word, frame, made>>

-------------------------------------------------------------------------------

Stamp(n) == [sec |-> n \div NsecPerSec, nsec |-> n % NsecPerSec]
Ns(ts) == ts.sec * NsecPerSec + ts.nsec
Valid(ts) == ts.nsec >= 0 /\ ts.nsec < NsecPerSec /\ ts.sec >= 0

Zero == [sec |-> 0, nsec |-> 0]
NoTime == [sec |-> -1, nsec |-> -1]
NoDue == [clock |-> "none", ts |-> NoTime]
NoCall == [fn |-> "none", ts |-> NoTime]

Reading(clock) == IF clock = "real" THEN real ELSE mono

\* What clock_gettime fills in, by the Linux number: nothing, on a clock the
\* host does not have.
GetTime(id, old) ==
  LET c == reads[id]
  IN  IF c = "none" THEN old ELSE Stamp(Reading(c))

\* A frame: where the thread is, its call, the real time rebase_deadline has
\* read, until when and on which clock the host waits; and, as history, when
\* the call first and last read a clock, and whether the real clock has not been
\* set since it began.
NoFrame ==
  [pc |-> "idle", call |-> NoCall, rt |-> Zero, due |-> NoDue, first |-> 0, second |-> 0, steady |-> TRUE]

At(t, pc) == frame[t].pc = pc

Keep(t, f) == frame' = [frame EXCEPT ![t] = f]

\* The calls of S return: as they should, or with ETIMEDOUT, EAGAIN, EINVAL or
\* ENOSYS, as the action says.
Return(S) == frame' = [t \in Threads |-> IF t \in S THEN NoFrame ELSE frame[t]]

-------------------------------------------------------------------------------

\* Mutant: the deadline handed down as it is.
IsMonotonicNever(ts) == FALSE

\* A deadline that cannot be a date: a reading of the monotonic clock.
IsMonotonic(ts) == ts.sec < RealSecs

\* The deadline as far from the real time r as it is from the monotonic time m.
Rebase(ts, r, m) ==
  LET delta == (ts.sec - m.sec) * NsecPerSec + (ts.nsec - m.nsec)
  IN  Stamp(Ns(r) + (IF delta > 0 THEN delta ELSE 0))

Saturated(s) == IF s > MaxSec THEN MaxSec ELSE s

\* Mutant: the nanoseconds not carried.
FromNowUncarried(now, t) ==
  [sec |-> Saturated(now.sec + t.sec), nsec |-> now.nsec + t.nsec]

\* FUTEX_WAIT's time from now on, as an instant.
FromNow(now, t) ==
  LET ns == now.nsec + t.nsec
      s == Saturated(now.sec + t.sec)
  IN  IF ns >= NsecPerSec THEN [sec |-> Saturated(s + 1), nsec |-> ns - NsecPerSec]
                          ELSE [sec |-> s, nsec |-> ns]

\* The futex operations that cosmo's futex cannot do.
Unknown(c) ==
  \/ c.cmd \notin {"WAIT", "WAKE", "WAIT_BITSET", "WAKE_BITSET"}
  \/ c.cmd \in {"WAIT_BITSET", "WAKE_BITSET"} /\ ~c.anybit
  \/ c.cmd = "WAIT" /\ c.realtime

FutexClock(c) == IF c.realtime THEN CLOCK_REALTIME ELSE CLOCK_MONOTONIC

\* Mutant: a wait is among processes whatever its flag.
SharedWaits(c) == c.cmd \in {"WAIT", "WAIT_BITSET"} \/ ~c.private

\* PRIVATE is the absence of sharing, for those who wait and those who wake.
Shared(c) == ~c.private

-------------------------------------------------------------------------------

\* A call up to its first look at a clock, from the frame f it begins in.
BeginTimed(t, f) ==
  LET c == f.call IN
  /\ c.fn \in {"pthread", "sem"}
  /\ \/ IsMonotonic(c.ts) /\ Keep(t, [f EXCEPT !.pc = "real"])
     \/ ~IsMonotonic(c.ts) /\ Keep(t, [f EXCEPT !.pc = "enter", !.due = [clock |-> "real", ts |-> c.ts]])

BeginWake(t, f) ==
  LET c == f.call IN
  /\ c.fn = "futex" /\ c.cmd \in {"WAKE", "WAKE_BITSET"} /\ ~Unknown(c)
  /\ Keep(t, [f EXCEPT !.pc = "wake"])

BeginWait(t, f) ==
  LET c == f.call IN
  /\ c.fn = "futex" /\ c.cmd \in {"WAIT", "WAIT_BITSET"} /\ ~Unknown(c)
  /\ \/ c.ts = NoTime /\ Keep(t, [f EXCEPT !.pc = "enter"])
     \/ c.ts # NoTime /\ ~Valid(c.ts) /\ Keep(t, [f EXCEPT !.pc = "EINVAL"])
     \/ c.ts # NoTime /\ Valid(c.ts) /\ c.cmd = "WAIT" /\ Keep(t, [f EXCEPT !.pc = "relative"])
     \/ /\ c.ts # NoTime /\ Valid(c.ts) /\ c.cmd = "WAIT_BITSET"
        /\ Keep(t, [f EXCEPT !.pc = "enter", !.due = [clock |-> reads[FutexClock(c)], ts |-> c.ts]])

BeginUnknown(t, f) ==
  f.call.fn = "futex" /\ Unknown(f.call) /\ Keep(t, [f EXCEPT !.pc = "ENOSYS"])

\* clock_nanosleep, to an instant of the clock or for a time.
BeginSleep(t, f) ==
  LET c == f.call
      clock == reads[c.clock]
      end == IF c.absolute THEN c.ts ELSE Stamp(Reading(clock) + Ns(c.ts))
  IN  /\ c.fn = "sleep"
      /\ \/ /\ Valid(c.ts) /\ clock # "none"
            /\ Keep(t, [f EXCEPT !.pc = "blocked", !.due = [clock |-> clock, ts |-> end]])
         \/ ~(Valid(c.ts) /\ clock # "none") /\ Keep(t, [f EXCEPT !.pc = "EINVAL"])

Begin(t, c) ==
  LET f == [NoFrame EXCEPT !.call = c, !.first = mono, !.second = mono] IN
  /\ At(t, "idle") /\ made[t] < MaxCalls
  /\ \/ BeginTimed(t, f) \/ BeginWake(t, f) \/ BeginWait(t, f)
     \/ BeginUnknown(t, f) \/ BeginSleep(t, f)
  /\ made' = [made EXCEPT ![t] = @ + 1]
  /\ UNCHANGED <<reads, clocks, word>>

Refused(t) ==
  /\ At(t, "EINVAL") \/ At(t, "ENOSYS") \/ At(t, "EAGAIN")
  /\ Return({t})
  /\ UNCHANGED <<reads, clocks, word, made>>

\* rebase_deadline's two readings, and what it makes of them.
ReadReal(t) ==
  /\ At(t, "real")
  /\ Keep(t, [frame[t] EXCEPT !.pc = "mono", !.rt = GetTime(CLOCK_REALTIME, Zero), !.first = mono])
  /\ UNCHANGED <<reads, clocks, word, made>>

ReadMono(t) ==
  LET f == frame[t]
      mn == GetTime(CLOCK_MONOTONIC, Zero)
  IN  /\ At(t, "mono")
      /\ Keep(t, [f EXCEPT !.pc = "enter", !.second = mono,
                           !.due = [clock |-> "real", ts |-> Rebase(f.call.ts, f.rt, mn)]])
      /\ UNCHANGED <<reads, clocks, word, made>>

\* FUTEX_WAIT makes its relative time absolute; a clock it cannot read fails it.
ReadClock(t) ==
  LET f == frame[t]
      clock == reads[FutexClock(f.call)]
      end == FromNow(Stamp(Reading(clock)), f.call.ts)
  IN  /\ At(t, "relative")
      /\ \/ clock = "none" /\ Keep(t, [f EXCEPT !.pc = "EINVAL"])
         \/ /\ clock # "none"
            /\ Keep(t, [f EXCEPT !.pc = "enter", !.second = mono, !.due = [clock |-> clock, ts |-> end]])
      /\ UNCHANGED <<reads, clocks, word, made>>

\* Cosmo's wait, as far as blocking: the futex looks at its word first.
Impossible(due) == due # NoDue /\ (due.clock = "none" \/ ~Valid(due.ts))

Enter(t) ==
  LET f == frame[t]
      late == f.call.fn = "futex" /\ word = 1
  IN  /\ At(t, "enter")
      /\ \/ Impossible(f.due) /\ Keep(t, [f EXCEPT !.pc = "EINVAL"])
         \/ ~Impossible(f.due) /\ late /\ Keep(t, [f EXCEPT !.pc = "EAGAIN"])
         \/ ~Impossible(f.due) /\ ~late /\ Keep(t, [f EXCEPT !.pc = "blocked"])
      /\ UNCHANGED <<reads, clocks, word, made>>

\* Its end, when the clock it waits on has come to the deadline...
Timeout(t) ==
  LET f == frame[t] IN
  /\ At(t, "blocked") /\ f.due # NoDue /\ Reading(f.due.clock) >= Ns(f.due.ts)
  /\ Return({t})
  /\ UNCHANGED <<reads, clocks, word, made>>

\* ... or when another thread unlocks, posts or signals what it waits for.
Signal(t) ==
  /\ At(t, "blocked") /\ frame[t].call.fn \in {"pthread", "sem"}
  /\ Return({t})
  /\ UNCHANGED <<reads, clocks, word, made>>

\* A thread does what the others wait for and goes on to tell them.
Store(t, c) ==
  /\ At(t, "idle") /\ word = 0
  /\ BeginWake(t, [NoFrame EXCEPT !.call = c])
  /\ word' = 1
  /\ UNCHANGED <<reads, clocks, made>>

\* Cosmo's wake: as many as it is asked for of those that sleep on the word,
\* among threads or among processes as the caller is.
Sleepers(t) ==
  {u \in Threads : /\ At(u, "blocked") /\ frame[u].call.fn = "futex"
                   /\ Shared(frame[u].call) = Shared(frame[t].call)}

Wake(t) ==
  /\ At(t, "wake")
  /\ \E S \in SUBSET Sleepers(t) :
       /\ Cardinality(S) <= frame[t].call.val
       /\ S = Sleepers(t) \/ Cardinality(S) = frame[t].call.val
       /\ Return(S \union {t})
  /\ UNCHANGED <<reads, clocks, word, made>>

Tick ==
  /\ mono < LastTick
  /\ mono' = mono + 1 /\ real' = real + 1
  /\ UNCHANGED <<reads, sets, word, frame, made>>

\* Somebody sets the clock, to another date.
SetClock ==
  /\ sets < MaxSets
  /\ \E j \in Jumps : real' = real + j /\ real + j >= RealSecs * NsecPerSec
  /\ sets' = sets + 1
  /\ frame' = [t \in Threads |-> [frame[t] EXCEPT !.steady = At(t, "idle")]]
  /\ UNCHANGED <<reads, mono, word, made>>

Step(t) ==
  \/ Refused(t) \/ ReadReal(t) \/ ReadMono(t) \/ ReadClock(t)
  \/ Enter(t) \/ Timeout(t) \/ Wake(t)

Init ==
  /\ \E h \in Hosts : reads = ReadsOn(h)
  /\ mono = 0 /\ real = BootTime /\ sets = 0 /\ word = 0
  /\ frame = [t \in Threads |-> NoFrame]
  /\ made = [t \in Threads |-> 0]

Next ==
  \/ \E t \in Threads :
       Step(t) \/ Signal(t) \/ \E c \in Asks[t] : Begin(t, c) \/ Store(t, c)
  \/ Tick
  \/ SetClock

Spec == Init /\ [][Next]_vars

\* Threads go on and time passes; whether anybody sets the clock, calls, or
\* signals is theirs to decide.
Fairness == (\A t \in Threads : WF_vars(Step(t))) /\ WF_vars(Tick)

FairSpec == Spec /\ Fairness

-------------------------------------------------------------------------------

Pcs ==
  {"idle", "EINVAL", "ENOSYS", "EAGAIN", "real", "mono", "relative", "enter", "blocked", "wake"}

Dues == [clock : {"real", "mono", "none"}, ts : Times]

Frames(t) ==
  [pc : Pcs, call : Asks[t] \union {NoCall}, rt : [sec : Nat, nsec : Nat], due : Dues,
   first : Nat, second : Nat, steady : BOOLEAN]

\* Every variable keeps to its kind of value; a futex's deadline is a time.
TypeOK ==
  /\ reads \in [{CLOCK_REALTIME, CLOCK_MONOTONIC} -> {"real", "mono", "none"}]
  /\ mono \in Nat /\ real \in Nat /\ sets \in Nat /\ word \in {0, 1}
  /\ DOMAIN frame = Threads
  /\ made \in [Threads -> Nat]
  /\ \A t \in Threads :
       /\ frame[t] \in Frames(t)
       /\ frame[t].pc # "idle" => frame[t].call # NoCall
       /\ frame[t].call.fn = "futex" /\ frame[t].due # NoDue => Valid(frame[t].due.ts)

\* The monotonic time at which the deadline of a frame comes, as the clocks stand.
MonoDue(f) == Ns(f.due.ts) - (IF f.due.clock = "real" THEN real - mono ELSE 0)

IsRebased(c) == c.fn \in {"pthread", "sem"} /\ c.ts.sec < RealSecs
IsRelative(c) == c.fn = "futex" /\ c.cmd = "WAIT" /\ c.ts # NoTime

RebasedInTime(f) ==
  /\ MonoDue(f) >= Ns(f.call.ts) - (f.second - f.first)
  /\ MonoDue(f) <= Ns(f.call.ts) \/ MonoDue(f) <= mono

RelativeInTime(f) ==
  /\ MonoDue(f) >= f.first + Ns(f.call.ts) \/ f.due.ts.sec = MaxSec
  /\ MonoDue(f) <= f.second + Ns(f.call.ts)

\* A wait for a monotonic deadline, moved to the real time, ends at that time on
\* the monotonic clock unless the real one has been set: never later than asked
\* (or at once, if it has passed), and early by no more than went by between the
\* two readings.  A relative futex wait lasts at least the time asked for, and
\* longer by no more than went by before the clock was read, whatever is done
\* to the real clock; a time past what can be said is as long as can be said.
InTime ==
  \A t \in Threads : At(t, "blocked") =>
    /\ IsRebased(frame[t].call) /\ frame[t].steady => RebasedInTime(frame[t])
    /\ IsRelative(frame[t].call) => RelativeInTime(frame[t])

\* No wait is refused for its clock: the real and the monotonic clock go by
\* other numbers on other hosts, and EINVAL is for times that are none.
OnlyBadTimes == \A t \in Threads : At(t, "EINVAL") => ~Valid(frame[t].call.ts)

\* The clock gets as far as the deadline while the model's time lasts.
Reached(due) == Ns(due.ts) <= (IF due.clock = "real" THEN real + (LastTick - mono) ELSE LastTick)

\* Every wait whose deadline comes ends, and so does every futex wait whose word
\* has changed: the wake that follows the store finds it, or it does not block.
WaitsEnd ==
  \A t \in Threads :
    /\ At(t, "blocked") /\ frame[t].due # NoDue ~> ~At(t, "blocked") \/ ~Reached(frame[t].due)
    /\ At(t, "blocked") /\ frame[t].call.fn = "futex" /\ word = 1 ~> ~At(t, "blocked")

==============================================================================
