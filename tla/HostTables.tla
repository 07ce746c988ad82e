------------------------------ MODULE HostTables -----------------------------
(***************************************************************************)
(* The lazily filled constant tables of crates/cosmo-compat (xlate.rs,     *)
(* gen.rs) and the calls that consult them (shim.rs, net.rs).              *)
(*                                                                         *)
(* Every group of constants has a state word (0 empty, 1 being filled, 2   *)
(* published) and a static table.  A wrapped call consults some groups,    *)
(* issues the real call, and consults others to translate the result or,   *)
(* on failure, errno.  Threads, the signal handlers that interrupt them    *)
(* and the processes they fork interleave at every access of shared        *)
(* memory.                                                                 *)
(***************************************************************************)
EXTENDS Integers, Sequences

CONSTANTS
  Procs, Root,           \* processes, and the one that exists from the start
  Frames, ProcOf,        \* frames that call wrappers, and their process
  Handlers, Over,        \* frames that are signal handlers, and the frame each interrupts
  Groups,                \* groups of constants
  Rows,                  \* rows of a table
  LinuxCol, HostCol,     \* the two numberings of each group
  SockGroups,            \* groups net.rs looks socket options up in
  ErrnoChain,            \* the groups errno_to_linux consults, in order
  Plans,                 \* what a wrapper consults before and after the real call
  MaxSignals,            \* bound: signals delivered in a behaviour
  FairFrames             \* frames the scheduler is assumed to keep running

ASSUME ProcsAssumption == Root \in Procs /\ ProcOf \in [Frames -> Procs]

ASSUME HandlersAssumption ==
  /\ Handlers \subseteq Frames
  /\ Over \in [Handlers -> Frames \ Handlers]
  /\ \A h \in Handlers : ProcOf[h] = ProcOf[Over[h]]

ASSUME TablesAssumption ==
  /\ LinuxCol \in [Groups -> [Rows -> Int]]
  /\ HostCol \in [Groups -> [Rows -> Int]]
  /\ SockGroups \subseteq Groups

ASSUME PlansAssumption ==
  /\ ErrnoChain \in Seq(Groups) /\ ErrnoChain # <<>>
  /\ \A pl \in Plans : pl.before \in Seq(Groups) /\ pl.after \in Seq(Groups)

ASSUME BoundAssumption == MaxSignals \in Nat

\* A handler over a fair frame must itself get to run, or the frame cannot.
ASSUME FairAssumption ==
  /\ FairFrames \subseteq Frames
  /\ \A h \in Handlers : Over[h] \in FairFrames => h \in FairFrames

VARIABLES
  loaded,     \* loaded[p]: cosmo has filled its constants in process p
  word,       \* word[p][g]: the state word of group g
  table,      \* table[p][g]: the static host table of group g
  live,       \* the frames that exist
  signals,    \* signals delivered so far
  pc,         \* where each frame is
  phase,      \* the part of its call a frame is in
  todo,       \* groups still to consult in this part, the head under way
  after,      \* groups to consult once the real call has succeeded
  left,       \* rows a filling frame has yet to store
  got         \* the answers the current (or last) call of a frame has had

memory == <<loaded, word, table>>
frame == <<pc, phase, todo, after, left, got>>
vars == <<memory, live, signals, frame>>

-------------------------------------------------------------------------------

\* Where a frame is inside xlate::group().
Consulting == {"load", "ready", "claim", "fill", "reload", "read"}

\* `Group` as the caller gets it: whose rows, and whether they are the static
\* table (net::lookup compares the pointers).
View == [grp : Groups, static : BOOLEAN, rows : [Rows -> Int]]

Grp(f) == Head(todo[f])
LinuxView(g) == [grp |-> g, static |-> FALSE, rows |-> LinuxCol[g]]
TableView(p, g) == [grp |-> g, static |-> TRUE, rows |-> table[p][g]]

\* cosmo's own constant, zero until the process's start-up code has run.
CosmoConst(p, g, r) == IF loaded[p] THEN HostCol[g][r] ELSE 0

\* A thread stands still while a handler runs on top of it.
Runnable(f) ==
  /\ f \in live
  /\ \A h \in Handlers : Over[h] = f => pc[h] = "idle"

Goto(f, l) == pc' = [pc EXCEPT ![f] = l]

\* Mutant: the lookup takes whatever rows it is given.
LookupFailsOpen(v) == BOOLEAN

\* Whether a socket-option lookup answers None (ENOPROTOOPT): always without the
\* host's table, and with it when the host lacks the option.
LookupFails(v) == IF v.static THEN BOOLEAN ELSE {TRUE}

\* Whether errno is translated once v has been consulted: at once when errno's
\* own rows agree, else at the first group that knows the number.
ErrnoDone(v) ==
  IF v.grp = Head(ErrnoChain) /\ v.rows = LinuxCol[v.grp] THEN {TRUE} ELSE BOOLEAN

\* The places a call may go once a consult has answered v.
Continuations(f, v) ==
  LET next == IF Len(todo[f]) > 1 THEN "load"
              ELSE IF phase[f] = "before" THEN "issue" ELSE "idle"
      stops == CASE phase[f] = "before" /\ v.grp \in SockGroups -> LookupFails(v)
                 [] phase[f] = "errno" -> ErrnoDone(v)
                 [] OTHER -> {FALSE}
  IN  {IF stop THEN "idle" ELSE next : stop \in stops}

\* group() returns v to the wrapper, which carries on.
Answer(f, v) ==
  /\ got' = [got EXCEPT ![f] = @ \union {v}]
  /\ \E l \in Continuations(f, v) :
       /\ Goto(f, l)
       /\ phase' = [phase EXCEPT ![f] = IF l = "idle" THEN "before" ELSE @]
       /\ todo' = [todo EXCEPT ![f] = IF l = "load" THEN Tail(@) ELSE <<>>]
  /\ UNCHANGED <<memory, live, signals, after, left>>

-------------------------------------------------------------------------------

Init ==
  /\ loaded = [p \in Procs |-> FALSE]
  /\ word = [p \in Procs |-> [g \in Groups |-> 0]]
  /\ table = [p \in Procs |-> [g \in Groups |-> [r \in Rows |-> 0]]]
  /\ live = {f \in Frames : ProcOf[f] = Root}
  /\ signals = 0
  /\ pc = [f \in Frames |-> "idle"]
  /\ phase = [f \in Frames |-> "before"]
  /\ todo = [f \in Frames |-> <<>>]
  /\ after = [f \in Frames |-> <<>>]
  /\ left = [f \in Frames |-> {}]
  /\ got = [f \in Frames |-> {}]

\* Cosmopolitan's start-up code fills its constants.
LoadConstants(p) ==
  /\ ~loaded[p]
  /\ \E f \in live : ProcOf[f] = p
  /\ loaded' = [loaded EXCEPT ![p] = TRUE]
  /\ UNCHANGED <<word, table, live, signals, frame>>

\* A thread calls a wrapper; a signal's handler does, over whatever its thread
\* was doing.
Enter(f) ==
  /\ Runnable(f)
  /\ pc[f] = "idle"
  /\ f \in Handlers => signals < MaxSignals
  /\ signals' = IF f \in Handlers THEN signals + 1 ELSE signals
  /\ \E plan \in Plans :
       /\ Goto(f, IF plan.before = <<>> THEN "issue" ELSE "load")
       /\ todo' = [todo EXCEPT ![f] = plan.before]
       /\ after' = [after EXCEPT ![f] = plan.after]
  /\ phase' = [phase EXCEPT ![f] = "before"]
  /\ got' = [got EXCEPT ![f] = {}]
  /\ UNCHANGED <<memory, live, left>>

\* state.load(Acquire) != 2
LoadWord(f) ==
  /\ Runnable(f)
  /\ pc[f] = "load"
  /\ Goto(f, IF word[ProcOf[f]][Grp(f)] = 2 THEN "read" ELSE "ready")
  /\ UNCHANGED <<memory, live, signals, phase, todo, after, left, got>>

\* Mutant: no canary, the table is filled whatever cosmo's constants hold.
CheckReadyNever(f) ==
  /\ Runnable(f)
  /\ pc[f] = "ready"
  /\ Goto(f, "claim")
  /\ UNCHANGED <<memory, live, signals, phase, todo, after, left, got>>

\* !tables_ready(): the identity, and the word is left alone.
CheckReady(f) ==
  /\ Runnable(f)
  /\ pc[f] = "ready"
  /\ \/ /\ ~loaded[ProcOf[f]]
        /\ Answer(f, LinuxView(Grp(f)))
     \/ /\ loaded[ProcOf[f]]
        /\ Goto(f, "claim")
        /\ UNCHANGED <<memory, live, signals, phase, todo, after, left, got>>

\* Mutant: fetch_add in place of the exchange.
ClaimByAdding(f) ==
  LET p == ProcOf[f]
      won == word[p][Grp(f)] = 0
  IN
  /\ Runnable(f)
  /\ pc[f] = "claim"
  /\ word' = [word EXCEPT ![p][Grp(f)] = @ + 1]
  /\ left' = [left EXCEPT ![f] = IF won THEN Rows ELSE {}]
  /\ Goto(f, IF won THEN "fill" ELSE "reload")
  /\ UNCHANGED <<loaded, table, live, signals, phase, todo, after, got>>

\* Mutant: store(1) in place of the exchange; whoever comes this far fills.
ClaimByStoring(f) ==
  /\ Runnable(f)
  /\ pc[f] = "claim"
  /\ word' = [word EXCEPT ![ProcOf[f]][Grp(f)] = 1]
  /\ left' = [left EXCEPT ![f] = Rows]
  /\ Goto(f, "fill")
  /\ UNCHANGED <<loaded, table, live, signals, phase, todo, after, got>>

\* compare_exchange(0, 1)
Claim(f) ==
  LET p == ProcOf[f] IN
  /\ Runnable(f)
  /\ pc[f] = "claim"
  /\ \/ /\ word[p][Grp(f)] = 0
        /\ word' = [word EXCEPT ![p][Grp(f)] = 1]
        /\ left' = [left EXCEPT ![f] = Rows]
        /\ Goto(f, "fill")
     \/ /\ word[p][Grp(f)] # 0
        /\ Goto(f, "reload")
        /\ UNCHANGED <<word, left>>
  /\ UNCHANGED <<loaded, table, live, signals, phase, todo, after, got>>

\* *host = fill(): the rows reach memory one at a time, in no set order.
StoreRow(f) ==
  LET p == ProcOf[f] IN
  /\ Runnable(f)
  /\ pc[f] = "fill"
  /\ \E r \in left[f] :
       /\ table' = [table EXCEPT ![p][Grp(f)][r] = CosmoConst(p, Grp(f), r)]
       /\ left' = [left EXCEPT ![f] = @ \ {r}]
  /\ UNCHANGED <<loaded, word, live, signals, pc, phase, todo, after, got>>

\* Mutant: the word is published before the last row is stored.
PublishEarly(f) ==
  LET p == ProcOf[f] IN
  /\ Runnable(f)
  /\ pc[f] = "fill"
  /\ word' = [word EXCEPT ![p][Grp(f)] = 2]
  /\ left' = [left EXCEPT ![f] = {}]
  /\ Goto(f, "read")
  /\ UNCHANGED <<loaded, table, live, signals, phase, todo, after, got>>

\* Mutant: the second store is forgotten.
PublishNothing(f) ==
  /\ Runnable(f)
  /\ pc[f] = "fill"
  /\ left[f] = {}
  /\ Goto(f, "read")
  /\ UNCHANGED <<memory, live, signals, phase, todo, after, left, got>>

\* state.store(2, Release)
Publish(f) ==
  LET p == ProcOf[f] IN
  /\ Runnable(f)
  /\ pc[f] = "fill"
  /\ left[f] = {}
  /\ word' = [word EXCEPT ![p][Grp(f)] = 2]
  /\ Goto(f, "read")
  /\ UNCHANGED <<loaded, table, live, signals, phase, todo, after, left, got>>

\* Mutant: the word is not looked at again after a lost exchange.
ReloadBlind(f) ==
  /\ Runnable(f)
  /\ pc[f] = "reload"
  /\ Answer(f, LinuxView(Grp(f)))

\* Mutant: the loser waits for the filler, as a lock or OnceLock would.
ReloadSpin(f) ==
  /\ Runnable(f)
  /\ pc[f] = "reload"
  /\ word[ProcOf[f]][Grp(f)] = 2
  /\ Goto(f, "read")
  /\ UNCHANGED <<memory, live, signals, phase, todo, after, left, got>>

\* The exchange was lost: another thread is filling, or has just published.
Reload(f) ==
  LET p == ProcOf[f] IN
  /\ Runnable(f)
  /\ pc[f] = "reload"
  /\ \/ /\ word[p][Grp(f)] # 2
        /\ Answer(f, LinuxView(Grp(f)))
     \/ /\ word[p][Grp(f)] = 2
        /\ Goto(f, "read")
        /\ UNCHANGED <<memory, live, signals, phase, todo, after, left, got>>

ReadTable(f) ==
  /\ Runnable(f)
  /\ pc[f] = "read"
  /\ Answer(f, TableView(ProcOf[f], Grp(f)))

\* The real call succeeds, and its results are translated, or fails, and errno is.
Issue(f) ==
  /\ Runnable(f)
  /\ pc[f] = "issue"
  /\ \E ok \in BOOLEAN :
       LET groups == IF ok THEN after[f] ELSE ErrnoChain IN
       /\ phase' = [phase EXCEPT ![f] = IF groups = <<>> THEN "before"
                                       ELSE IF ok THEN "after" ELSE "errno"]
       /\ todo' = [todo EXCEPT ![f] = groups]
       /\ Goto(f, IF groups = <<>> THEN "idle" ELSE "load")
  /\ UNCHANGED <<memory, live, signals, after, left, got>>

\* The real fork: the child has the parent's memory as it stands and, of its
\* threads, a copy of the one that forked.
Fork(f, c) ==
  LET p == ProcOf[f]
      q == ProcOf[c]
  IN
  /\ Runnable(f)
  /\ pc[f] = "idle"
  /\ f \notin Handlers
  /\ c \notin Handlers
  /\ \A x \in live : ProcOf[x] # q
  /\ live' = live \union {c} \union {h \in Handlers : Over[h] = c}
  /\ loaded' = [loaded EXCEPT ![q] = loaded[p]]
  /\ word' = [word EXCEPT ![q] = word[p]]
  /\ table' = [table EXCEPT ![q] = table[p]]
  /\ UNCHANGED <<signals, frame>>

-------------------------------------------------------------------------------

\* One step of xlate::group().
Consult(f) ==
  \/ LoadWord(f)
  \/ CheckReady(f)
  \/ Claim(f)
  \/ StoreRow(f)
  \/ Publish(f)
  \/ Reload(f)
  \/ ReadTable(f)

Next ==
  \/ \E p \in Procs : LoadConstants(p)
  \/ \E f \in Frames : Enter(f) \/ Consult(f) \/ Issue(f)
  \/ \E f, c \in Frames : Fork(f, c)

Spec == Init /\ [][Next]_vars

\* Only the frames of FairFrames are assumed to keep running, and only inside
\* group(): the others may stall anywhere, a thread's real call may block for
\* ever.  A handler's does not: one that never returned would hold its thread.
FairSpec ==
  /\ Spec
  /\ \A f \in FairFrames : WF_vars(Consult(f))
  /\ \A h \in Handlers \intersect FairFrames : WF_vars(Issue(h))

-------------------------------------------------------------------------------

TypeOK ==
  /\ loaded \in [Procs -> BOOLEAN]
  /\ word \in [Procs -> [Groups -> 0..2]]
  /\ table \in [Procs -> [Groups -> [Rows -> Int]]]
  /\ live \subseteq Frames
  /\ signals \in 0..MaxSignals
  /\ pc \in [Frames -> Consulting \union {"idle", "issue"}]
  /\ phase \in [Frames -> {"before", "after", "errno"}]
  /\ todo \in [Frames -> Seq(Groups)]
  /\ after \in [Frames -> Seq(Groups)]
  /\ left \in [Frames -> SUBSET Rows]
  /\ got \in [Frames -> SUBSET View]
  /\ \A f \in Frames : pc[f] \in Consulting => todo[f] # <<>>

Filling(f, p, g) == pc[f] = "fill" /\ ProcOf[f] = p /\ Grp(f) = g

\* The table is written only between the exchange and the publication, and by
\* one frame: at state 2 it is never written again (xlate.rs:42-47), so the
\* shared borrow of the static is sound.
ExclusiveFill ==
  \A f \in Frames : pc[f] = "fill" =>
    /\ word[ProcOf[f]][Grp(f)] = 1
    /\ \A e \in Frames : Filling(e, ProcOf[f], Grp(f)) => e = f

\* No call translates by a table some rows of which are missing: not when two
\* threads race to fill it, not when a handler interrupts the fill, not when the
\* constants were not there yet, and not in a child forked half way.
WholeTables ==
  \A f \in Frames : \A v \in got[f] :
    v.rows = IF v.static THEN HostCol[v.grp] ELSE LinuxCol[v.grp]

\* No socket option reaches the real call under its Linux number while its
\* table is being filled (shim.rs:291-292, net.rs:70-72).
SockoptsNeverRaw ==
  \A f \in Frames : pc[f] = "issue" =>
    \A v \in got[f] : v.grp \in SockGroups => v.static

\* Publication is never undone and a published table never changes.
PublishedForGood ==
  [][\A p \in Procs, g \in Groups :
       word[p][g] = 2 => word'[p][g] = 2 /\ table'[p][g] = table[p][g]]_vars

\* group() waits for nobody (xlate.rs:46-47): a frame that keeps running gets
\* its answer although every other frame, the one filling the table included,
\* may stall for ever.
ConsultsFinish ==
  \A f \in FairFrames : pc[f] \in Consulting ~> pc[f] \notin Consulting

\* The word says that a table is being filled, and nobody fills it.
Orphaned(p, g) == word[p][g] = 1 /\ ~\E f \in live : Filling(f, p, g)

\* The identity is for the calls made during a fill (xlate.rs:45-47): no step of a process,
\* and no handler or fork of its own, leaves a table of it half filled and the word at 1; a
\* fill that was begun is somebody's, whose consult comes to its end.  Only a child that is
\* forked during a fill has such a word from birth, and every call of it gets the identity,
\* against "that one call".
OnlyForkAbandons ==
  [][\A p \in Procs, g \in Groups :
       Orphaned(p, g)' => Orphaned(p, g) \/ \A f \in live : ProcOf[f] # p]_vars

\* The promise made to the wrappers: one consult is one instant.
Once == INSTANCE OnceTable WITH
  born <- {ProcOf[f] : f \in live},
  published <- [p \in Procs |-> {g \in Groups : word[p][g] = 2}]

ImplementsOnceTable == Once!Spec

==============================================================================
