# Verification of cargo_cosmo

TLA+ modules, TLC runs and TLAPS proofs about cargo_cosmo: the crate that lets a program built
against Linux's std run on the hosts Cosmopolitan supports (`crates/cosmo-compat`), and the build
script library that makes such a program (`crates/cosmo-build`). Paths below are relative to the
repository; line numbers are those of the commit this directory was written for.

    cd tla
    tlc -workers 2 -config tables_threads.cfg MCHostTables     # a run; they are listed below
    tlapm HostTablesProofs.tla                                 # the proofs of a module

## 1. The system

### cosmo-compat: what runs inside the program

std was compiled with Linux's numbers (`EAGAIN` is 11, `O_NONBLOCK` is 0x800); Cosmopolitan
decides at start-up which host it is on and fills its own constants. Every libc function that
takes or gives such a number is wrapped (`--wrap`), and the wrapper translates.

| Component | State | Operations | Correct when |
|---|---|---|---|
| Host tables: `xlate.rs`, `group`, accessors of `gen.rs` | per group of constants a state word 0 / 1 / 2 and a static table | `group` (tables_ready, exchange, row-wise fill, publication, read) | no call reads a table half copied; one filler; a published table never changes; nobody waits |
| Translation: `xlate.rs`, `to_host`, `to_linux`, `mask`, `errno_to_linux` | none | pure functions over rows | what std put in comes out again; errno is translated once |
| Wrappers: `shim.rs`, `gen.rs` | none of their own | before the call, the call, after it or errno | errno touched by failures only; the host takes every number as a C program's |
| Socket options, control messages: `net.rs` | none | `lookup`, `sockopt_on`, cmsg conversions | no option reaches the host with a Linux number |
| Socket pair: `socketpair.rs` | descriptors, a listener's queue, the caller's two ints | `tcp_socketpair`, `make_pair`, `Drop`, `take` | no leak, no foreign close, no foreign peer, flags as asked |
| Timed waits and futex: `shim.rs` | two clocks | `rebase_deadline`, timed waits, futex decoding | no wait ends early, late or never |

Threads, the signal handlers over them and forked children share or copy the state words and
tables: that is where this half is hard. The wrappers meet the tables only through `group`; the
socket pair is called by `__wrap_socketpair` and shares the process's descriptors with everybody.

### cosmo-build: what runs at build time

| Component | State | Operations | Correct when |
|---|---|---|---|
| Toolchain cache: `toolchain.rs` | `cosmocc.zip.part`, the programs, `.patched` | `ensure_cosmocc`: fetch, verify, unzip, `assimilate` (Linux), `patch_tools` (Windows) | a build that goes on has a toolchain it can use, made of the pinned bytes |
| Build cache: `cache.rs`, `inject.rs` | renamed libcosmo, drivers, target spec, shim sources and object | look, make beside under the process id, rename | nothing half made is ever in its place, nor changes under a link |
| Driver: `driver.rs` | a child cargo and its two pipes, the output files | inner cargo, apelink, pecheck | ends; no refused file is reported built; what is reported is of the sources as they are |
| Entry: `lib.rs`, `pairing.rs`, `manifest.rs` | an environment variable | the `COSMO_APE_INNER` guard, the version check, the list of binaries | no recursion, no crate without its pair |
| Linker and compiler drivers: `assets/shim.rs` | copies of native libraries | `ld`: response files, filter, shim; `native_rlib`; `cc` | no flag slips through; no stale copy is linked |
| Digest: `sha256.rs` | a state of the digest | the standard's rounds | - |

Both caches are under the user's home and shared by every build of the user, and there is no lock:
builds overlap (two packages of a workspace, two terminals), fail, are killed, and come again.

### Not part of a build

`tools/cargo-cosmo`, `tools/cosmo-ld` (an older front end), the generators in `tools/`, data,
templates, examples and tests. `PROJECT.json` lists every component with its status.

## 2. The modules

| Module | Models | Checked by | Proved in |
|---|---|---|---|
| `OnceTable` | abstract: a table published once, consulted in one instant | property of `tables_threads` | |
| `HostTables` | `xlate::group`, and a wrapper as the frame that consults it | `MCHostTables` | `HostTablesProofs` |
| `Xlate` | `to_host`, `to_linux`, `mask`, `errno_to_linux` as operators | within `Calls`, `TimedWait`, `HostCalls` | |
| `Gen` | 24 groups of `gen.rs` for Linux, Windows and XNU, row by row | within `HostCalls` | |
| `CallNames` | the names each libc call takes, and what they say on a host | within `HostCalls` | |
| `NativeCalls` | abstract: a C program's calls, by name | property of `native` | |
| `HostCalls` | the numbers through the wrappers of `shim.rs` and `net.rs`, both ways | `MCHostCalls` | |
| `Cmsg` | `linux_to_xnu`, `xnu_to_linux` as operators | within `Calls` | `CallsProofs` |
| `Calls` | the wrappers of `shim.rs` and `gen.rs` round their real calls, and a signal handler's | `MCCalls` | `CallsProofs` |
| `TimedWait` | `rebase_deadline`, the POSIX timed waits, `futex`, the clocks | `MCTimedWait` | `TimedWaitProofs` |
| `AtomicPair` | abstract: a pair of sockets, or a failure, in one instant | property of `pair_threads` | |
| `SocketPair` | `socketpair.rs` | `MCSocketPair` | `SocketPairProofs` |
| `Cosmocc` | `toolchain.rs`, `ensure_cosmocc` | `MCCosmocc` | `CosmoccProofs` |
| `SharedCache` | abstract: a cache that only grows while anybody builds | property of `cache_overlap` | |
| `BuildCache` | `cache.rs` `materialize`, `inject.rs` `build` | `MCBuildCache` | `BuildCacheProofs` |
| `Project` | what is read first: `lib.rs`'s policy, `manifest.rs`, `pairing.rs`, as operators | within `InnerBuild` | |
| `LinkDriver` | `assets/shim.rs`: `ld` and its response files, as operators | within `InnerBuild` | |
| `InnerBuild` | `driver.rs`, `lib.rs`, and the linkers an inner cargo runs | `MCInnerBuild` | `InnerBuildProofs` |

`FoldProofs` has the lemmas about sequences and folds that `CallsProofs` and `InnerBuildProofs` rest on.

Operators named "Mutant:" in a comment are not part of the models. Each is one definition with a
plausible bug in it, and `PROJECT.json` names the property which that bug breaks.

### HostTables

A *frame* is a thread, a signal handler over a thread (`Over`), or the thread a fork leaves in the
child. `pc` walks through one consult as the code does: `load` and `ready` (xlate.rs:51-52),
`claim` (the exchange, 53), `fill` (the copy, 54, a row a step, in any order), the publication
(55), `reload` (56: another thread had won) and `read` (60-62). A thread stands still while a
handler runs over it, which is how a handler finds its own thread's copy half done. `todo` and
`phase` make the whole wrapper: the consults before the real call, the call (`Issue`), the consults
of its results, or those of `fix_errno`. Fork copies `loaded`, `word` and `table` as they are, and
takes one thread. The two rows of an MC table differ between Linux and host, so that a table with
one row of each shows.

Assumed: sequentially consistent memory (the code uses acquire and release on the word, and every
access to a table is ordered by it); `LoadConstants` is one step, since it runs before `main` and
before threads; `tables_ready` (33-40) is the canary it is written as.

`got` collects what a call was answered. `WholeTables` is about it and not about the table, because
a half-copied table is no error until somebody reads it. `OnlyForkAbandons` says who may leave a table
at 1 with nobody to fill it (`Orphaned`): not a thread, nor a handler, nor the process that forks, but
a child may be born with one (section 5).

### Xlate, Cmsg and Calls

`Xlate` has the translations over a group's two columns. An enum's values are integers; a mask's
are sets of bits, so that `&` is intersection and an `i64` of -1 is all 64 bits. `Walk` is the order
in which `mask()` comes to the rows (`Before`: many bits first), each row where its `Rank` says, and the
fold over it takes each constant out of what is left (`TakeRow`). `Cmsg` has the two conversions of control messages as folds over the messages of a
buffer: lengths, offsets and alignment are those of the code; of a payload only the descriptors are
kept. A message whose `at` is not where the walk has come is a length that lies. What one turn of a
walk does is an operator of its own (`LinuxMessage`, `XnuMessage`, and `HostPuts` for XNU's), and so
it can be proved about.

`Calls` is one thread (`Frames` has it and its handler) that makes a call after the other. A call
goes from `idle` to `real` (the wrapper has done its arguments), `back` (the real function has
returned), and if the wrapper finds a -1 or NULL through `fix` and `write`, the two halves of
`fix_errno`. `kind` is the way a call reports failure: -1 (`int`), NULL (`ptr`, `readdir`), the number
itself (`number`: `pthread_*`, `posix_spawn*`), an EAI code (`addrinfo`), or it is one of the calls
modelled with their data: `poll`, `sendmsg`, `recvmsg`. `Deliver` puts a handler over the thread
between any two of those steps; it shares `errno`, makes a call of its own and restores what it found,
as a handler must. `CallRefused` and the refusals of `sendmsg` are `fail(e)`, which sets Linux's number
and must not be translated. The tables are taken for published here; how they come to be is
`HostTables`. `hosterr`, `before` and `reported` are what the host did, kept for the properties.

`ControlHonest` says that what the program finds is what came *with messages left out*, and not a
beginning of it: xnu_to_linux goes on after a message Linux does not know (net.rs:245-257), so that
one in the middle is missing between its neighbours, and MSG_CTRUNC is all the program is told.

Assumed of the constants: a program's buffer is one whose messages a walk finds (`OutgoingAssumption`;
that a length may lie about the *end* is in the model, `srclen` being any number); what arrives is as
long as its headers, only rights carry descriptors, and no two have one in common
(`IncomingAssumption`; the host has just made them); and of the tables what errno_to_linux takes for
granted (`ErrnoTables`: no name of errno's group twice, and a number that errno's group leaves as it is
is not changed by compat or junkerr unless std prefers it). TLC finds `ErrnoTables` true of the rows of
`MCCalls` and, in `MCHostCalls`, of the whole errno, compat and junkerr groups of `gen.rs`. Of poll's group
and the events a program asks for, `PollAssumption` says that they are told apart in either numbering
(`ToldApart`): their bits are disjoint, and another constant within their bits comes after one of them that
it overlaps. TLC finds that of poll's whole group in `MCCalls`. It is a restriction on what is asked:
not so are, on Windows, POLLIN together with POLLRDNORM, whose bits it has too, and such events do not
come back as they were (section 5).

### Gen, CallNames, NativeCalls and HostCalls

`Gen` is the data of `gen.rs`: each group's names, Linux's column and the two hosts'. `CallNames` says,
from POSIX and not from the wrappers, which names a call takes (a *thing*: the flags of a file, the
family in an address, the signal a child dies of), and from the columns what a name says on a host.
`NativeCalls` is the promise: a program that says something by Linux's numbers has the host hold what
a C program built with cosmocc would have it hold; what the host holds the program is told by Linux's
number for it; what it said itself it reads back. `HostCalls` has the wrappers, each number by the
function its wrapper puts it through (`Command` is fcntl's chain of three groups, `at_flags` the walk
over an enum whose values combine, `sigset_to_host` ppoll's second renumbering), and implements
`NativeCalls`: the run's property `LikeNative`. The abstract side never uses `ToHost` or `ToLinux`.
A name whose host number is 0 or -1 is one the host lacks; a program may use it, but nothing is said
of what comes back. Names that share a host number are told apart as far as the host can.

### TimedWait

A thread goes through `rebase_deadline` reading by reading (`real`, `mono`), through `futex`'s decoding
(`Unknown`, `FutexClock`, `Shared`, `FromNow`), and into the wait. `Tick` and `SetClock` come between any
two of those steps. Instants are counted in units of which `NsecPerSec` make a second, so that carries
and the boundary of 1.6e9 seconds (`RealSecs`) happen in small numbers. `reads` is the clock a host
reads for each of Linux's two numbers, worked out from its rows. `first`, `second` and `steady` are
history: when the call read its clocks, and whether anybody set the real one meanwhile. Cosmo's own
wait (`Enter`, `Timeout`, `Sleepers`, `Wake`) is external: it compares the word and sleeps in one step,
as a futex must, and keeps shared and private waits apart.

### SocketPair

One variable says what each descriptor number is (`fd`): free, a file of the rest of the program,
or a socket of a call with its connection and flags. Every system call of `make_pair` is a step of
its own (`pc` names the next), each may fail, and a failure goes to `Unwind`, which drops the
Sockets that are held, newest first. The descriptor a call gets is any free one. `OpenFile` and
`CloseFile` are other threads, `ForeignConnect` is another process that finds the port. A connect
to a full queue does not happen in the model (the real one waits or fails; waiting is the host's);
a connection reset before it is accepted is not modelled. The two `fcntl`s of one flag are one step.

`AtomicPair` is what a program is promised of all that: `Give` has two numbers that are not open become
the ends of one connection, with the flags asked for, `Fail` changes nothing but the answer, and there is
no step in between. `SocketPair` implements it, seen through `Files` (what the rest of the program has
open), `PairEnds` (what a call that has returned left open) and `Answer`; what a call under way holds is
not seen, and no other descriptor may change because of it.

### Cosmocc

A run of a build goes from `look` (is there a bin/apelink, line 71) through `fetch`, `download`,
`verify`, `open`, `unpack` and `copy` (an entry is created, then has its bytes), `convert` or
`patch`, to `ok`, or to `err`, or it is killed (`dead`). `attached` says whose open file is still
the one named `cosmocc.zip.part`: `File::create` truncates it under whoever writes, and
`remove_file` leaves him an open file nobody else sees. A program's `form` tells absent, being
written, APE and native. The host, one of the three the code distinguishes, is chosen in Init.
`MidUnpack` is the time between bin/apelink and the last converted program. Two variables are history:
`halfway`, a build was stopped in that time, and `overlapped`, two builds ran at once. The properties
say what holds without either, and `cosmocc_killed` what does not hold with `halfway` (section 5).
The links of the archive, `chmod` and the modification times are left out.

### BuildCache

Four artifacts are looked for, made beside their place and renamed into it; the order is
`materialize`'s and then `inject::build`'s. `temp[b]` are the files with b's process id, which a
dead build leaves behind and a later run of it (the same id again) finds. `RenameFails` is the rule
of rename: a directory is not replaced, on Windows a file in use is not either. The target spec is
one file that is truncated and written in place; `spec = "partial"` is the time in between. It is read
three times: for the key of the object, by the cargo that makes the object (`HasInputs`), and by the
inner cargo (`Link`), which may fail for itself too. A build for which it is not whole then is `astray`,
and not followed further: its key is of other bytes, so it makes an
object in a directory nobody uses, or cargo refuses the spec. A build that could not rename its
object is `lost`. Damage by a deletion is somebody's `rm`, not a build's. One architecture stands
for the two that are made one after the other under different names.

`alone` is history: the builds that no other runs beside. `LeftoversFailNobody` says that such a build
is neither `astray` nor `lost`, whatever others have left: a spec cut short by a kill, temporary
directories under a process id that is used again, sources without an object, a cache half deleted.
What may happen to builds that do overlap is in section 5.

`SharedCache` is what that comes to for the builds that share it, with no temporary file in it: an
artifact is in its place whole or not at all, `Have` finds it there or puts it there in one instant,
`Succeed` asks that the build has relied on all a link reads, and nothing goes away while anybody builds.
`place` is `final`; `State` and `Relies` are read off where each build is (`StateAt`, `ReliesAt`), so a
`Publish` that wins, one that loses to a whole directory and a `Look` that finds the artifact are the
same `Have`, and a build that fails, loses, strays or is killed is `Fail`. `PublishedWhole` follows from it.

### Project, LinkDriver and InnerBuild

`InnerBuild` is a build script in its cargo (`Outers`; two of them when their profiles differ, since
they lock different target directories), with the cargo it starts for each architecture, that cargo's
linkers, and the thread that echoes its stderr. `pc` walks `apeify_with`, `try_build_ape`, `driver::build`:
`pair`, `prepare`, `reads` (read_to_end, wait, join), `fuse`, `apelink`, `pecheck`; a script that has
ended was `ok` or `err`, had returned without building (`skipped`), was killed, or was not run at all,
cargo taking it for fresh (`kept`). `child` walks the inner
cargo as far as the code relies on it: it waits for its target directory's lock (`holder`), runs the
package's build script, compiles, has its executables linked side by side, writes a line of JSON for
each, exits. Both pipes hold `PipeSize` lines and block who writes. What an executable is made of is
the version of the sources its Rust and its C come from; `native_rlib`'s copy of an rlib is made under
the linker's own name and renamed, and found fresh by its time, counted in compilations.

A package has an `entry`, which of the three functions its build.rs calls, and `envs`, the environments
it is run in. `ran` is what cargo remembers of the script, for each target directory: the sources it
takes it for fresh of, or nothing. A script is run again when its package's files have changed, or
always if it asked for a path that is not there (`rerun_if_changed`), which apeify's do and the others'
do not. A script that panics leaves nothing to remember; of one that called `try_build_ape` that is open,
since it may carry on. In the inner cargo (`RunsScript`) the script is run again unless it is fresh
there, and one that does not decline (`try_build_ape` never does) becomes `nested`: it waits for the lock
of the cargo it runs in. `Recursing` names that state.

What the script reads first is in `Project`: the environment (`declines`), `Cargo.toml` as lines of
which each is a record of what `parse` tells apart, `Cargo.lock` of the nearest directory that has one.
`LinkDriver` has `ld`'s line: an argument is a sequence of which the first element is its kind and the
rest its characters, which is what the escaping and splitting of response files need (an end of line in a
name is escaped like a blank). These three are worked out once, in Init, since nothing changes them during
a run. `links` of a package says what its executables are to be linked from.

`disturbed` and `promised` are history. A build is disturbed when the sources were edited, or another
build failed or was killed, while it ran, or when it began beside such a build; `promised` is true from
the end of an undisturbed Ok build until something changes, and once cargo has said Finished of an
apeify script it did not run (which never happens, so that a deleted .com is missed). cargo itself (fingerprints, atomic
artifacts, `--bin` and `--example`) is external, and taken to be correct.

## 3. The runs

TLC explores each of these completely.

| Run | Bounds | Shows |
|---|---|---|
| `tables_threads` | 2 threads, a handler (1 signal), a child forked at any moment; 2 groups of 2 rows; only one thread and the handler fair | `TypeOK`, `ExclusiveFill`, `WholeTables`, `SockoptsNeverRaw`, `ConsultsFinish`, `OnlyForkAbandons`, and that it implements `OnceTable` |
| `pair_threads` | 2 calls, 5 descriptors, backlog 2 | `TypeOK`, `HeldIsOwned`, `NoLeak`, `FlagsAsAsked`, `AcceptNeverWaits`, and that it implements `AtomicPair` |
| `calls` | Windows and XNU with rows of `gen.rs`, 9 kinds of call, 1 signal with a call; 13 outgoing and 7 incoming lists of control messages, 4 buffer sizes, scratch of 64 bytes | `TypeOK`, `ErrnoTranslatedOnce`, `ErrnoOnlyByFailure`, `ErrorsAreStds`, `PollFaithful`, `SendsAllOrNone`, `RightsAccounted`, `ControlHonest` |
| `calls_stale` | XNU, calls that fail without setting errno | violated: `ErrnoOnlyByFailure` |
| `native` | Windows and XNU, 24 groups whole, flags up to 2 together, the exceptions of `MCExcepted` | `TypeOK`, `LikeNative` (implements `NativeCalls`) |
| `native_all` | the same with no exception | violated: `LikeNative` |
| `waits` | 2 hosts, 2 threads with a call each (and the wakes that follow a store), a second of 2 units, the boundary at 8 seconds, 5 instants, the clock set once | `TypeOK`, `InTime`, `OnlyBadTimes`, `WaitsEnd` |
| `cosmocc` | 2 builds, 3 runs one after the other or 2 overlapping, 3 programs, every host, stopped anywhere | `TypeOK`, `OkMeansReady`, `VerifiedOnly`, `BuildsEnd` |
| `cosmocc_killed` | Linux, stopped half way | violated: `OkAfterStops` |
| `cache_overlap` | 2 builds at once, run twice, both hosts, killed, failing, artifacts deleted | `TypeOK`, `GlueIsWhole`, `LeftoversFailNobody`, and that it implements `SharedCache` |
| `build` | 7 packages, 2 outer cargos started, 1 edit, deletion or kill, pipes of 1 line, every tool may fail | `TypeOK`, `RefusedIsReported`, `FinishedIsCurrent`, `LinkedAsAsked`, `BuildsEnd` |
| `build_direct` | the package whose build.rs calls `try_build_ape`, nobody interfering | violated: `EveryBuildEnds` |

Why these are enough. *Tables*: a table can be torn by one filler and one reader, and whether the
reader is a second thread, the handler over the filler or a child makes three cases, all present;
two rows are the least that can be torn and two groups the least one call can mix; an option and
its `errno` are a plan of consults that refuses and translates, before the call and after it. Consults
of a call's results (`after`) are the same steps once more; the run has no such call, which would
triple its states, and the proofs have any. A second signal finds the memory as the first could. *Pair*: a call holds three descriptors, so five let two calls overlap
with a file between them, and a call run out of descriptors fails; backlog 2 lets a foreign
connection stand before or behind the own one (the code asks for 1, which hosts round up).
*Calls*: the rows of errno are one of each kind there is: numbers that are swapped between Linux and
XNU (11 and 35, so that translating twice shows), shared by two names, absent, or only in a later
group; poll's group is whole. Buffers have room for no message, a header's part, one message and all,
and one is larger than the scratch space (`CtlMax`, 1024 in the code). One signal is enough: a second
finds the thread where the first could.
*Native*: a wrapper has no state from one call to the next, so two calls, the one that sets and the
one that asks, are all there is; an enum is checked value by value, and a mask's rows can only get in
each other's way two at a time, since each row is compared with what the ones before have left.
*Waits*: the deadlines stand before, at and after the boundary, the now and the end of a second; two
threads are a waiter and the one that wakes it, or two waiters of different clocks.
*Toolchain*: apelink and assimilate are the programs the code names, a third stands for those that
`walk` meets; three runs in a row let one be broken off while fetching, one while patching, and still
leave one to repair. *Cache*: a race needs two; the second run has an old process id and old
leftovers. *Build*: two cargos are the least that meet in `target/cosmo-inner`, or the least that come
one after the other with something between; one event is one reason to build again; two executables
with one rlib in common are two linkers that rename one copy; the packages are one with response files,
one whose library needs its example named, a pair of executables, one that builds nothing, one
whose graph has another major version, and two whose scripts call `build_ape` and `try_build_ape` with a
policy that declines. The proofs of section 4 do not depend on these bounds.

Deadlock is checked except in `waits`, `native` and `build`, which may come to rest: a program that has
made its calls, a wait nobody ends, a user who starts no more cargos. `BuildsEnd` and `WaitsEnd` say who
must not be left behind. Where all runs allowed have been used, `Exhausted` says that this is the end.

Fairness. `FairSpec` of `HostTables` assumes that a frame of `FairFrames` is scheduled again while
it is inside `group`, which contains no wait: the OS's promise to a runnable thread. In
`tables_threads` thread t1, over which the handler runs and which may be the filler, and the child are
not in it and may stop for ever in the middle; that is the case "nobody waits for the filler" is about.
That a table *is* published needs its filler to run, and that there is one, which `OnlyForkAbandons`
says of all but a child forked during the fill. A handler's real call is assumed to return, a thread's is not. `FairSpec` of `Cosmocc`
assumes that a build which is not killed goes on; system calls return, downloads end or break off.
`FairSpec` of `TimedWait` has threads that are not blocked go on and time pass; nobody must call, signal,
store or set a clock. `FairSpec` of `InnerBuild` has each build script with its thread and its inner
cargo go on, as processes that can (one fairness condition each, not one for every action), and
likewise the linkers; the user need do nothing.

## 4. The proofs

From the named assumptions of each module only (finite sets of programs, the shape of
constants; no bound on frames, groups, rows, callers, descriptors, builds or runs), TLAPS checks:

- **HostTablesProofs**: `TypeCorrect`, `ExclusiveFillHolds`, `WholeTablesHolds`,
  `PublishedForGoodHolds`, `SockoptsNeverRawHolds`, `OnlyForkAbandonsHolds` and `Refinement`. None of these is inductive
  alone. `FillInv` is: whoever is past the canary is in a process whose constants are loaded; the
  frame in `fill` is the only one, and the word is 1; the rows it no longer has to store have the
  host's values; a table at 2 is the host's column; whoever goes to `read` finds a 2; a process
  that is not born has all its frames idle. Fork is the interesting step: the child copies a word 1
  with a half-copied table and *no* filler, and the invariant says nothing about a table at 1 nobody
  fills; that is sound exactly because nobody reads at 1. `WholeTables` then follows step by step
  from what `Answer` adds. `SockoptsNeverRaw` has an invariant of its own (`LookupInv`).
  `OnlyForkAbandons` is a statement about steps: a word goes to 1 only by the frame that then fills
  (`ClaimFills`), and a frame that fills goes on doing so, handlers over it included, until it stores 2
  (`FillerStays`). The
  refinement maps a process to the set of its groups at 2 and `live` to the processes that are born;
  each step of a frame is a `Begin`, `Consult`, `Publish` or `Fork` of `OnceTable` or a stutter.
- **SocketPairProofs**: `PairTypeCorrect`, `HeldIsOwnedHolds`, `NoLeakHolds`, `PairIsPrivateHolds`
  (the two descriptors of a call that gives a pair are the ends of one connection, its own),
  from `PairInv`: how many Sockets are held at each call (`Count`), that the descriptors of a call
  are those it holds and, at the end, those it published (`Owner`, `Pending`), and where the
  connection is known to be its own (`Conn`): the comparison of addresses is what carries `PairIsPrivate`.
  `FlagsAsAskedHolds` and `AcceptNeverWaitsHolds` need `FlagInv` besides, which has, for each end, every
  flag either set already or still in the plan of options (`Awaits`), and `PlanValues` says what the plan
  of `OptionPlan` is made of; the connection's place in the queue is kept from connect to accept4.
  `PairRefinement` puts these together, for any callers, descriptors and backlog: a call's last step into
  `done` is `AtomicPair`'s `Give` or `Fail`, its end `Finish`, other threads' `OpenFile` and `CloseFile` are
  their own, and every other step, a foreign connection included, is a stutter. `Give` needs
  what the comparison has shown (`Conn`) and the flags at the instant of publication, `Fail` that nothing is held any more,
  and the stutters that what one call closes another has not returned.
- **BuildCacheProofs**: `CacheTypeCorrect`, `PublishedWholeHolds`, `GlueIsWholeHolds`, `LeftoversFailNobodyHolds`,
  `CacheRefinement`, on the condition that nobody deletes part of a directory (`~Damage`). `CacheInv` adds that what is in
  its place is there whole or not at all, and that a build which has come to the drivers has
  libcosmo: no rename of another build can take away what a build is past, because a rename only
  ever brings something whole. The same invariant makes the refinement go through: each step of a build
  is a `Have`, `Succeed`, `Fail` or `Begin` of `SharedCache` or a stutter, a `Delete` is its `Delete`.
  `LeftoversFailNobodyHolds` has `AloneInv` besides: no other build runs beside one of `alone`
  (`ByItself`), such a build has put the spec right before it reads it (`SpecIsRight`), and whoever makes an
  object has its sources whole, which nothing takes away while he runs (`SourcesThere`).
- **CosmoccProofs**: `ToolsTypeCorrect`, `VerifiedOnlyHolds`, `OkMeansReadyHolds`, for any number of
  programs and of runs one after the other. `FetchInv`: a build is alone, so the file it created, hashed
  and opens by name is one file. `UnpackInv` says how far a build has come (`Unpacked`), and what the two
  marks on the disk stand for (`Whole`): with bin/apelink there and nobody unpacking or converting,
  every program is as it was made; with `.patched`, patched as well. `halfway` and `overlapped` are its two ways out, and
  `cosmocc_killed` shows that the first is needed.
- **CallsProofs**: `ErrnoTranslatedOnceHolds`, and `ErrnoOnlyByFailureHolds` on the condition that no
  call fails without setting errno (`~Stale`). `IInv` follows one number from where the host gives it
  to where the program finds it: untranslated in errno up to `fix`, in `read` between the two halves,
  translated after; with `Err` for "errno as this frame will find it", which is `saved` for a thread
  under a handler. `ErrnoToLinux` stays unexpanded, so this holds of any tables; only that 0 stays 0 is
  used, for a directory's end.
  `BuffersInvariant` is about the rest: `CallsTypeCorrect`, `RightsAccountedHolds`, `ControlHonestHolds`,
  `SendsAllOrNoneHolds` follow from it, and with `ErrnoTranslatedOnce` so does `ErrorsAreStdsHolds`.
  `BuffersInv` has `TypeInv`, the types that do not hang on what a buffer holds; `FailedInv`, that what a
  frame that has failed was told is one of the host's errors; `StepsInv`, the thread's result while its
  call is under way;
  `RecvInv`, that what the host has filled is what XNU can have filled until the wrapper has read it, and
  what the program then gets is what the conversion makes of it; and `SendInv`, the same of what is sent.
  `ErrorsAreStds` needs that the row errno_to_linux takes for a preferred name has the host's number, no
  name being there twice (`PreferredRowIs`), and that compat and junkerr leave alone what errno's group
  has left as it is, and so rightly (`ErrnoToldIsStds`).
  Below that are the lemmas about control messages, for lists of any length. The walks are folds, and the
  induction over them is had from the least turn of the walk at which a statement fails (`LeastNumber` in
  `FoldProofs`), which needs no operator as a parameter: `WalkedRow` has, for a fold as the community
  modules define it, the row of its intermediate results, each made of the one before. `XnuToLinuxGives`
  (of what XNU can have put into a buffer: what is kept can be walked and lies within the program's buffer,
  is what came with messages left out, all of it or truncation is reported, and rights are kept, closed or
  cut off), `LinuxToXnuPasses` (all the messages or none, and none only for a reason) and `HostFillsHas`
  (what XNU can have put) are the three results.
  `PollFaithfulHolds` has an invariant of its own (`PollInv`: struct pollfd has the host's bits while the
  call is out, and Linux's else) and rests on `MaskTells`, for columns of any length: from the bits of rows
  that are told apart `mask` makes those rows' bits in the other column. `WalkIs` says that ranks make of
  the walk a permutation of the rows that keeps their order; after k turns what has been put out are the
  bits of the rows met so far, and what is left those of the others, so that a row outside cannot be found:
  one it overlaps with has been taken out before.
- **InnerBuildProofs**: `BuildTypeCorrect`; and, of packages whose manifest is read as it is meant
  (`ReadsAsWanted`), `BuildInvariant`, `RefusedIsReportedHolds` and `FinishedIsCurrentHolds`, for any number of cargos,
  executables, pipes and edits. The hypothesis is about fixed text only; TLC evaluates it of the
  packages of `MCInnerBuild` (`WantsAssumption` there), and section 5 has manifests of which it is not true.
  `IInv` says whose lock the inner directory's is (`Turns`) and how far script and cargo have come
  together (`Phase`), so that the files a cargo writes are its own while it does; that what a cargo will have told
  when it succeeds is what it was asked for (`Telling`), a line in the pipe counting as told; that
  the copy of an rlib is older than the rlib or is it (`Copies`), which is what makes the comparison of
  times sound under linkers side by side; that a refused .com has a writer who is not done
  (`Refusals`); and, of builds nobody disturbed, that all they hold is current (`Holds`) and that an APE which
  one of them is done with is current or in the hands of another that has yet to end (`DoneWith`).
  `Memory` has what cargo remembers of scripts: nothing of one that calls apeify, whose path is not among
  the package's files, and so `promised` comes about by a build that has run and not by one that was kept
  (`AlwaysRerun`).
  The last is the point of the proof: two builds write the same .com, and neither waits for the other.
  `ResponseFileFaithful` is about text alone: splitting a response file gives the arguments it was written
  for, whatever their characters, as long as none is empty. It is an induction over the characters of an
  argument and the arguments of a line, with the sequences made by `FlattenSeq` taken apart in `FoldProofs`.
  `LinkedAsAskedHolds` follows `ld` from rustc's line to gcc's: native rlibs go by their copies, `with_shim`
  adds the shim and one copy of compat, `reconcile` strips what fights cosmo's model and no input, and the
  line goes through a response file or not. Its hypothesis, `LinesAsAsked`, is about fixed text:
  that rustc's lines, opened, have one output, one injection and at most one compat (`RustcLine`), and that
  a package's `links` are their inputs. TLC evaluates it of the packages of `MCInnerBuild` (`LinesAssumption`).
- **TimedWaitProofs**: `TimesTypeCorrect`, `WaitsInTime`, `NoClockRefused`, on the condition that the host
  knows both clocks (`ClocksKnown`: what `ReadsOn` finds in the rows). The invariant ties the two
  readings to the clocks: while nobody sets the real clock, real minus mono is what it was when the
  call began, so a deadline rebased by readings of `first` and `second` is off by no more than the
  time between them. The arithmetic of `div` and `%` is in lemmas of its own (`Stamp` and `Ns` undo each
  other), for any `NsecPerSec`.

Only model-checked:

- everything with fairness (`ConsultsFinish`, `WaitsEnd`, both `BuildsEnd`), which
  the prover does not reach;
- `LikeNative`, and `HostCalls`' `TypeOK`: they are about the numbers of `gen.rs` themselves, finite
  tables, of which there is nothing to be said for every value of a constant.

What hypotheses remain are about constants, and TLC evaluates each in a run: the assumptions of the modules,
`WantsAssumption` and `LinesAssumption` of `MCInnerBuild`. A proof does not say that gen.rs's numbers or
a package's lines are so, but TLC does of those it is given.

## 5. Where the code and its words differ

Each has a run that ends in a counterexample, and is listed under `findings`.

- `cosmocc_killed`. bin/apelink is the sign of a complete toolchain (toolchain.rs:71) and in no
  order the last file unpacked. A build killed between it and the last conversion leaves a toolchain
  that every later build takes as it is.
- `calls_stale`. `fix_errno` is to run "exactly once per failed call, which is what keeps the
  translation from being applied twice" (shim.rs:88-90). It runs for every failure of `getaddrinfo`
  (539) and every -1 of `sysconf` and `lseek`, also those that do not set errno, and then translates
  the number of an earlier call a second time: on XNU EAGAIN, 11, becomes EDEADLK, 35.
- `native_all`. `at_flags` is to "translate each set bit" (shim.rs:103); AT_REMOVEDIR has the bit of
  AT_EACCESS, whose row stands first, so `unlinkat` asks Windows for 0 and XNU for 0x10. The other
  exceptions of `MCExcepted` are of the same kind: `O_PATH` goes by `O_EXEC`'s row and is lost; on XNU
  `O_SYNC` and `O_RSYNC` are all ones where 0x80 was meant; fcntl's `F_DUPFD` becomes `F_GETFD`, and `F_GETFD`
  `F_GETFL`, by a second table after the first left them alone; `SIGUSR1` comes back from waitpid as
  SIGPWR, and SIGRTMAX goes out as SIGEMT; ppoll's mask is renumbered although `sigaddset` has stored
  host numbers in it (shim.rs:639, 700); on Windows SO_REUSEADDR is refused, its number being
  negative (net.rs:76). That XNU's PROBE reads back as DO is documented (net.rs:142-143).

- `build_direct`. `try_build_ape` is "worth calling directly from a `build.rs`" (lib.rs:227-228). It does
  not look at COSMO_APE_INNER, which the other two entry points do (lib.rs:201, 217): the script runs again inside
  the inner cargo, starts a cargo of its own on `target/cosmo-inner`, and that one waits for the lock of the
  cargo which waits for it. "That pass must fall straight through or the builds nest forever" (lib.rs:199-200).
  `BuildsEnd` is what holds of all the others.

Seen while modelling, of the same kind, and without a run of their own. A child forked while another
thread fills a table has the word at 1 and no thread that will ever store 2, so that all its calls stay
untranslated (xlate.rs:46-47 speaks of "that one call"; `OnlyForkAbandons` leaves this one way open). In the
build: `build_ape` is to "always build" (lib.rs:148-149), but prints no directive (lib.rs:216-223), so
that after an Ok build a deleted .com is not missed and cargo says Finished, which is what apeify's directive
is there against (lib.rs:191-195; `FinishedIsCurrent` promises nothing of that case); of two *first* builds one can read the target spec between truncation and write, which is
"rewritten only when it changed: a concurrent build may be reading it" (cache.rs:91; a build is
`astray`); `materialize` "repairs a cache someone has moved or half-deleted" (cache.rs:71-73), but a
drivers' directory with a file missing is not repaired (`Damage`); a second build that begins
while the first unpacks the toolchain goes on at once; a program on which
`assimilate` fails stays an APE as long as another was converted (toolchain.rs:235); on Windows the second of two first builds can fail to rename its object over the one
being linked (a build is `lost`; inject.rs:38-39 calls this safe); "download to a sibling and
rename" (toolchain.rs:76-77) describes a rename there is not, the hash being what protects;
two cargos of one base profile and an edit between them can leave an APE of halves of two versions,
both builds ending Ok (`FinishedIsCurrent` is about undisturbed builds); a custom profile shares the
directory of its base; an APE pecheck refused stays in its place, though reported; an rlib of the same
time as its copy counts as unchanged (assets/shim.rs:248), which a coarse file system can make of two
compilations; an empty argument is lost in a response file; with a compat inside an LTO object and an
rlib left over, both copies are linked (assets/shim.rs:156); pairing looks at the first cosmo-compat
of the nearest lock only; an array in the manifest ends at the first `]`, one inside a string
included. In the waits: a real deadline before 2020 is waited for as a monotonic one, and
`rebase_deadline` makes an invalid nanosecond count valid. In the program:
`poll` gives back only the events whose host bit is theirs alone, so POLLRDHUP comes back as POLLHUP
and POLLWRNORM as POLLOUT, and a Windows host that reports only POLLRDNORM reports no
POLLIN (`PollFaithful` is checked for POLLPRI, POLLIN, POLLOUT and the three events one need not ask
for); the descriptors of a control message that is cut off are neither delivered nor closed
(net.rs:229), the program being told by MSG_CTRUNC; the errno chain goes on into the group compat, in
which not all rows are errors (an unknown Windows error 127 is told as 9); a signal handler gets the
host's number of its signal.

## 6. What is not modelled

- `assets/shim.rs` `cc` (lines 278-516), the driver for C and C++ sources: arguments in, arguments out,
  nothing kept; of the linker driver's environment, `COSMO_LD_DEBUG`.
- The layouts `shim.rs` copies between (`stat`, `sigaction`, `addrinfo`), `pthread_setschedparam`, the
  setxattr stubs, `__xpg_strerror_r`; `errno_to_host` and `name_of_linux`, which no wrapper calls; the
  groups of `gen.rs` no wrapper asks; hosts other than Linux, Windows and XNU.
- The environment the inner cargo is given beyond its target directory and COSMO_APE_INNER (`scrub`, the
  variables for cc-rs, jobs, profile overrides); progress output; `ensure_rust`; the bytes of archives
  and objects; SHA-256, a hash being the identity of what was hashed.
- Two versions of cosmo-build on one cache, whose patches differ (toolchain.rs:150).
- The overflow of `rebase_deadline`'s i64 (shim.rs:496) for a negative tv_sec of some 292 years or more:
  `TimedWait` counts in integers.
- Weak memory; Windows' sharing rules beyond the rename of a file in use; file times as clocks.
- `assets/compat`, a byte copy of `crates/cosmo-compat`; the older front end, generators, examples.

## 7. What would come next

1. `Cosmocc`: two versions of the patches on one cache, and overlapping builds at the archive as an
   invariant of their own.
2. `cc` in `LinkDriver`, with the flags it must not hand to an assembler.
3. Composition: one build through `Cosmocc`, `BuildCache` and `InnerBuild`, killed in any of them.
