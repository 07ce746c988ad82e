----------------------------- MODULE MCTimedWait -----------------------------
(***************************************************************************)
(* Instances of TimedWait for TLC: a second is 2 nanoseconds, dates begin  *)
(* at second 8, and the clocks are rows of gen.rs's clock group.           *)
(***************************************************************************)
EXTENDS TimedWait

CONSTANTS t1, t2

MCThreads == {t1, t2}

ClockGroup(col) ==
  [kind |-> "enum",
   names |-> <<"CLOCK_BOOTTIME", "CLOCK_MONOTONIC", "CLOCK_MONOTONIC_COARSE", "CLOCK_MONOTONIC_RAW",
               "CLOCK_PROCESS_CPUTIME_ID", "CLOCK_REALTIME", "CLOCK_REALTIME_COARSE",
               "CLOCK_THREAD_CPUTIME_ID">>,
   linux |-> <<7, 1, 6, 4, 2, 0, 5, 3>>,
   host |-> col]

MCClockTables ==
  [h \in {"windows", "xnu"} |->
     ClockGroup(IF h = "windows" THEN <<3, 1, 6, 1, 4, 0, 2, 5>> ELSE <<6, 8, 9, 127, 12, 0, 0, 16>>)]

Timed(f, n) == [fn |-> f, ts |-> Stamp(n)]
Futex(c, ts, rtflag, any) ==
  [fn |-> "futex", cmd |-> c, private |-> TRUE, realtime |-> rtflag, anybit |-> any, val |-> 1, ts |-> ts]
Sleep(id, abs, n) == [fn |-> "sleep", clock |-> id, absolute |-> abs, ts |-> Stamp(n)]

Overfull == [sec |-> 1, nsec |-> 2]

Timeds ==
  {Timed("pthread", 0), Timed("sem", 3), Timed("pthread", 18),
   [fn |-> "sem", ts |-> Overfull], [fn |-> "pthread", ts |-> [sec |-> 8, nsec |-> 2]]}

Waits ==
  {Futex("WAIT", ts, FALSE, TRUE) : ts \in {NoTime, Stamp(1), Overfull, [sec |-> 9, nsec |-> 1]}} \union
  {Futex("WAIT_BITSET", Stamp(3), FALSE, TRUE), Futex("WAIT_BITSET", Stamp(18), TRUE, TRUE)}

Refusals ==
  {Futex("WAIT", NoTime, TRUE, TRUE), Futex("WAKE_BITSET", NoTime, FALSE, FALSE),
   Futex("REQUEUE", NoTime, FALSE, TRUE)}

Wakes == {Futex("WAKE", NoTime, FALSE, TRUE), Futex("WAKE_BITSET", NoTime, FALSE, TRUE)}

Sleeps ==
  {Sleep(CLOCK_MONOTONIC, FALSE, 1), Sleep(CLOCK_REALTIME, TRUE, 17), [Sleep(0, TRUE, 0) EXCEPT !.ts = Overfull]}

\* One thread makes any call; the other waits on the futex and wakes.
MCAsks ==
  t1 :> Timeds \union Waits \union Refusals \union Sleeps \union {Futex("WAKE", NoTime, FALSE, TRUE)} @@
  t2 :> Wakes \union {Futex("WAIT", Stamp(2), FALSE, TRUE)}

MCJumps == {-1, 2}

==============================================================================
