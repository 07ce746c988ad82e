------------------------------ MODULE SocketPair -----------------------------
(***************************************************************************)
(* crates/cosmo-compat/src/socketpair.rs: the pair of connected loopback   *)
(* TCP sockets that stands for socketpair(AF_UNIX, SOCK_STREAM) on a       *)
(* Windows host.  Threads of one process build pairs at the same time,     *)
(* share one descriptor table with code that opens and closes files of its *)
(* own, and any local process may connect to a listener while it listens.  *)
(* Every operating-system call may fail.                                   *)
(***************************************************************************)
EXTENDS Integers, Sequences

CONSTANTS
  Callers,    \* threads that call socketpair
  Fds,        \* the descriptor numbers of the process; which free one a call gets is open
  Backlog,    \* connections a listener queues: listen(fd, 1)
  Free,       \* a descriptor that is not open
  Foreign,    \* a connection from another process
  Unset       \* what the caller's two ints held before the call

\* An open descriptor: who owns it, the connection it is an end of, its flags.
OpenFds == [owner : Callers \union {"file"}, conn : Callers \union {Foreign, Free},
            nodelay : BOOLEAN, nonblock : BOOLEAN, cloexec : BOOLEAN]

ASSUME BacklogAssumption == Backlog \in Nat \ {0}
ASSUME NamesAssumption ==
  /\ Unset \notin Fds
  /\ Foreign \notin Callers
  /\ "file" \notin Callers
  /\ Free \notin OpenFds

VARIABLES
  fd,       \* fd[n]: Free, or what the open descriptor is
  pc,       \* the call each caller makes next
  ask,      \* the SOCK_* bits of its type argument
  held,     \* the Socket values it owns, in the order they were declared
  queue,    \* connections waiting at its listener
  opts,     \* options it still has to set
  sv,       \* the caller's two ints
  errno,    \* what the thread's errno tells: nothing, EFAULT, the setup call that
            \* failed, or a close made while cleaning up
  ret       \* what socketpair returned

call == <<pc, ask, held, queue, opts, sv, errno, ret>>
vars == <<fd, call>>

-------------------------------------------------------------------------------

\* A new socket is close-on-exec: every socket and accept4 here asks for it.
OpenFd(owner, conn) ==
  [owner |-> owner, conn |-> conn, nodelay |-> FALSE, nonblock |-> FALSE, cloexec |-> TRUE]

Asks == [nonblock : BOOLEAN, cloexec : BOOLEAN]
Plain == [nonblock |-> FALSE, cloexec |-> FALSE]

FreeFds == {n \in Fds : fd[n] = Free}

\* Mutant: F_SETFD left out of the loop.
OptionPlanNoClear(a) ==
  LET each(i) == <<[end |-> i, opt |-> "nodelay"]>>
                 \o (IF a.nonblock THEN <<[end |-> i, opt |-> "nonblock"]>> ELSE <<>>)
  IN  each(1) \o each(2)

\* The options set on each of the two ends, client first.
OptionPlan(a) ==
  LET each(i) == <<[end |-> i, opt |-> "nodelay"]>>
                 \o (IF a.nonblock THEN <<[end |-> i, opt |-> "nonblock"]>> ELSE <<>>)
                 \o (IF a.cloexec THEN <<>> ELSE <<[end |-> i, opt |-> "clear_cloexec"]>>)
  IN  each(1) \o each(2)

\* Sockets are dropped newest first.
Newest(s) == s[Len(s)]
Older(s) == SubSeq(s, 1, Len(s) - 1)

Listening(c) == pc[c] \in {"name_listener", "client", "connect", "name_client",
                           "accept", "compare", "drop_listener"}

Goto(c, l) == pc' = [pc EXCEPT ![c] = l]

\* An Err: every Socket still held is dropped on the way out.
Fail(c) ==
  /\ Goto(c, "unwind")
  /\ errno' = [errno EXCEPT ![c] = "setup"]

-------------------------------------------------------------------------------

Init ==
  /\ fd = [n \in Fds |-> Free]
  /\ pc = [c \in Callers |-> "idle"]
  /\ ask = [c \in Callers |-> Plain]
  /\ held = [c \in Callers |-> <<>>]
  /\ queue = [c \in Callers |-> <<>>]
  /\ opts = [c \in Callers |-> <<>>]
  /\ sv = [c \in Callers |-> <<Unset, Unset>>]
  /\ errno = [c \in Callers |-> "none"]
  /\ ret = [c \in Callers |-> 0]

\* tcp_socketpair(ty, sv): a null sv is EFAULT before anything is made.
Start(c) ==
  /\ pc[c] = "idle"
  /\ \/ /\ Goto(c, "listener")
        /\ UNCHANGED <<errno, ret>>
     \/ /\ Goto(c, "done")
        /\ errno' = [errno EXCEPT ![c] = "EFAULT"]
        /\ ret' = [ret EXCEPT ![c] = -1]
  /\ \E a \in Asks : ask' = [ask EXCEPT ![c] = a]
  /\ UNCHANGED <<fd, held, queue, opts, sv>>

\* socket(AF_INET, SOCK_STREAM | SOCK_CLOEXEC), for the listener and the client.
MakeSocket(c, at, next) ==
  /\ pc[c] = at
  /\ \/ /\ \E n \in FreeFds :
             /\ fd' = [fd EXCEPT ![n] = OpenFd(c, Free)]
             /\ held' = [held EXCEPT ![c] = Append(@, n)]
        /\ Goto(c, next)
        /\ UNCHANGED errno
     \/ /\ Fail(c)
        /\ UNCHANGED <<fd, held>>
  /\ UNCHANGED <<ask, queue, opts, sv, ret>>

\* bind, listen, getsockname: they change nothing a property looks at, the
\* listener is open to the world once listen has returned (Listening).
Prepare(c, at, next) ==
  /\ pc[c] = at
  /\ \/ Goto(c, next) /\ UNCHANGED errno
     \/ Fail(c)
  /\ UNCHANGED <<fd, ask, held, queue, opts, sv, ret>>

\* Mutant: the result of connect is not checked.
ConnectUnchecked(c) ==
  /\ pc[c] = "connect"
  /\ \/ /\ Len(queue[c]) < Backlog
        /\ queue' = [queue EXCEPT ![c] = Append(@, c)]
        /\ fd' = [fd EXCEPT ![held[c][2]].conn = c]
     \/ UNCHANGED <<fd, queue>>
  /\ Goto(c, "name_client")
  /\ UNCHANGED <<ask, held, opts, sv, errno, ret>>

\* connect to the caller's own listener: refused when the queue is full.
Connect(c) ==
  /\ pc[c] = "connect"
  /\ \/ /\ Len(queue[c]) < Backlog
        /\ queue' = [queue EXCEPT ![c] = Append(@, c)]
        /\ fd' = [fd EXCEPT ![held[c][2]].conn = c]
        /\ Goto(c, "name_client")
        /\ UNCHANGED errno
     \/ /\ Fail(c)
        /\ UNCHANGED <<fd, queue>>
  /\ UNCHANGED <<ask, held, opts, sv, ret>>

\* Mutant: accept and a later fcntl in place of accept4.
AcceptInheritable(c) ==
  /\ pc[c] = "accept"
  /\ \/ /\ queue[c] # <<>>
        /\ \E n \in FreeFds :
             /\ fd' = [fd EXCEPT ![n] = [OpenFd(c, Head(queue[c])) EXCEPT !.cloexec = FALSE]]
             /\ held' = [held EXCEPT ![c] = Append(@, n)]
        /\ queue' = [queue EXCEPT ![c] = Tail(@)]
        /\ Goto(c, "compare")
        /\ UNCHANGED errno
     \/ /\ Fail(c)
        /\ UNCHANGED <<fd, held, queue>>
  /\ UNCHANGED <<ask, opts, sv, ret>>

\* accept4(.., SOCK_CLOEXEC): blocks while nothing is queued.
Accept(c) ==
  /\ pc[c] = "accept"
  /\ queue[c] # <<>>
  /\ \/ /\ \E n \in FreeFds :
             /\ fd' = [fd EXCEPT ![n] = OpenFd(c, Head(queue[c]))]
             /\ held' = [held EXCEPT ![c] = Append(@, n)]
        /\ queue' = [queue EXCEPT ![c] = Tail(@)]
        /\ Goto(c, "compare")
        /\ UNCHANGED errno
     \/ /\ Fail(c)
        /\ UNCHANGED <<fd, held, queue>>
  /\ UNCHANGED <<ask, opts, sv, ret>>

\* Mutant: whoever was accepted is the peer.
CompareNothing(c) ==
  /\ pc[c] = "compare"
  /\ Goto(c, "drop_listener")
  /\ UNCHANGED <<fd, ask, held, queue, opts, sv, errno, ret>>

\* The accepted address must be the client's: EIO for an unrelated connection.
Compare(c) ==
  /\ pc[c] = "compare"
  /\ \/ /\ fd[held[c][3]].conn = fd[held[c][2]].conn
        /\ Goto(c, "drop_listener")
        /\ UNCHANGED errno
     \/ /\ fd[held[c][3]].conn # fd[held[c][2]].conn
        /\ Fail(c)
  /\ UNCHANGED <<fd, ask, held, queue, opts, sv, ret>>

\* drop(listener): whoever is still queued is reset.
DropListener(c) ==
  /\ pc[c] = "drop_listener"
  /\ fd' = [fd EXCEPT ![held[c][1]] = Free]
  /\ held' = [held EXCEPT ![c] = Tail(@)]
  /\ queue' = [queue EXCEPT ![c] = <<>>]
  /\ opts' = [opts EXCEPT ![c] = OptionPlan(ask[c])]
  /\ Goto(c, "options")
  /\ UNCHANGED <<ask, sv, errno, ret>>

\* setsockopt(TCP_NODELAY); F_GETFL, F_SETFL; F_GETFD, F_SETFD.
SetOption(c) ==
  /\ pc[c] = "options"
  /\ opts[c] # <<>>
  /\ LET o == Head(opts[c])
         n == held[c][o.end]
     IN  \/ /\ fd' = [fd EXCEPT ![n] =
                        CASE o.opt = "nodelay" -> [@ EXCEPT !.nodelay = TRUE]
                          [] o.opt = "nonblock" -> [@ EXCEPT !.nonblock = TRUE]
                          [] o.opt = "clear_cloexec" -> [@ EXCEPT !.cloexec = FALSE]]
            /\ opts' = [opts EXCEPT ![c] = Tail(@)]
            /\ UNCHANGED <<pc, errno>>
         \/ /\ Fail(c)
            /\ opts' = [opts EXCEPT ![c] = <<>>]
            /\ UNCHANGED fd
  /\ UNCHANGED <<ask, held, queue, sv, ret>>

\* Mutant: Socket::take without -1; Drop closes the published descriptors.
PublishUntaken(c) ==
  /\ pc[c] = "options"
  /\ opts[c] = <<>>
  /\ sv' = [sv EXCEPT ![c] = held[c]]
  /\ ret' = [ret EXCEPT ![c] = 0]
  /\ Goto(c, "unwind")
  /\ UNCHANGED <<fd, ask, held, queue, opts, errno>>

\* Both descriptors are taken out of their Sockets and stored for the caller.
Publish(c) ==
  /\ pc[c] = "options"
  /\ opts[c] = <<>>
  /\ sv' = [sv EXCEPT ![c] = held[c]]
  /\ held' = [held EXCEPT ![c] = <<>>]
  /\ ret' = [ret EXCEPT ![c] = 0]
  /\ Goto(c, "done")
  /\ UNCHANGED <<fd, ask, queue, opts, errno>>

\* Mutant: Drop closes the descriptor and leaves it in the Socket once more.
UnwindTwice(c) ==
  /\ pc[c] = "unwind"
  /\ held[c] # <<>>
  /\ fd' = [fd EXCEPT ![Newest(held[c])] = Free]
  /\ held' = [held EXCEPT ![c] = IF fd[Newest(@)] = Free THEN Older(@) ELSE @]
  /\ queue' = [queue EXCEPT ![c] = IF Len(held[c]) = 1 THEN <<>> ELSE @]
  /\ UNCHANGED <<pc, ask, opts, sv, errno, ret>>

\* Mutant: Drop does not put errno back after close.
UnwindClobbers(c) ==
  /\ pc[c] = "unwind"
  /\ held[c] # <<>>
  /\ fd' = [fd EXCEPT ![Newest(held[c])] = Free]
  /\ held' = [held EXCEPT ![c] = Older(@)]
  /\ queue' = [queue EXCEPT ![c] = IF Len(held[c]) = 1 THEN <<>> ELSE @]
  /\ \E e \in {errno[c], "close"} : errno' = [errno EXCEPT ![c] = e]
  /\ UNCHANGED <<pc, ask, opts, sv, ret>>

\* Socket::drop, last declared first: close, whatever it returns, errno kept.
Unwind(c) ==
  /\ pc[c] = "unwind"
  /\ held[c] # <<>>
  /\ fd' = [fd EXCEPT ![Newest(held[c])] = Free]
  /\ held' = [held EXCEPT ![c] = Older(@)]
  /\ queue' = [queue EXCEPT ![c] = IF Len(held[c]) = 1 THEN <<>> ELSE @]
  /\ UNCHANGED <<pc, ask, opts, sv, errno, ret>>

\* make_pair's Err leaves tcp_socketpair as -1.
ReturnErr(c) ==
  /\ pc[c] = "unwind"
  /\ held[c] = <<>>
  /\ Goto(c, "done")
  /\ ret' = [ret EXCEPT ![c] = -1]
  /\ UNCHANGED <<fd, ask, held, queue, opts, sv, errno>>

\* The program closes its pair and may ask for another, with ints of its own.
Finish(c) ==
  /\ pc[c] = "done"
  /\ fd' = [n \in Fds |-> IF n \in {sv[c][1], sv[c][2]} THEN Free ELSE fd[n]]
  /\ Goto(c, "idle")
  /\ ask' = [ask EXCEPT ![c] = Plain]
  /\ sv' = [sv EXCEPT ![c] = <<Unset, Unset>>]
  /\ errno' = [errno EXCEPT ![c] = "none"]
  /\ ret' = [ret EXCEPT ![c] = 0]
  /\ UNCHANGED <<held, queue, opts>>

\* Another process reaches the listener while it listens.
ForeignConnect(c) ==
  /\ Listening(c)
  /\ Len(queue[c]) < Backlog
  /\ queue' = [queue EXCEPT ![c] = Append(@, Foreign)]
  /\ UNCHANGED <<fd, pc, ask, held, opts, sv, errno, ret>>

\* The rest of the program opens and closes descriptors of its own.
OpenFile(n) ==
  /\ fd[n] = Free
  /\ fd' = [fd EXCEPT ![n] = OpenFd("file", Free)]
  /\ UNCHANGED call

CloseFile(n) ==
  /\ fd[n] # Free
  /\ fd[n].owner = "file"
  /\ fd' = [fd EXCEPT ![n] = Free]
  /\ UNCHANGED call

Call(c) ==
  \/ MakeSocket(c, "listener", "bind")
  \/ Prepare(c, "bind", "listen")
  \/ Prepare(c, "listen", "name_listener")
  \/ Prepare(c, "name_listener", "client")
  \/ MakeSocket(c, "client", "connect")
  \/ Connect(c)
  \/ Prepare(c, "name_client", "accept")
  \/ Accept(c)
  \/ Compare(c)
  \/ DropListener(c)
  \/ SetOption(c)
  \/ Publish(c)
  \/ Unwind(c)
  \/ ReturnErr(c)

Next ==
  \/ \E c \in Callers : Start(c) \/ Call(c) \/ Finish(c) \/ ForeignConnect(c)
  \/ \E n \in Fds : OpenFile(n) \/ CloseFile(n)

Spec == Init /\ [][Next]_vars

-------------------------------------------------------------------------------

Steps == {"idle", "listener", "bind", "listen", "name_listener", "client", "connect",
          "name_client", "accept", "compare", "drop_listener", "options", "unwind", "done"}

Errnos == {"none", "EFAULT", "setup"}

\* The state is well formed: Socket values of make_pair (at most listener, client
\* and peer), descriptors and the caller's two ints hold what the code stores there.
TypeOK ==
  /\ fd \in [Fds -> OpenFds \union {Free}]
  /\ pc \in [Callers -> Steps]
  /\ ask \in [Callers -> Asks]
  /\ held \in [Callers -> Seq(Fds)]
  /\ queue \in [Callers -> Seq(Callers \union {Foreign})]
  /\ \A c \in Callers : Len(queue[c]) <= Backlog
  /\ opts \in [Callers -> Seq([end : {1, 2}, opt : {"nodelay", "nonblock", "clear_cloexec"}])]
  /\ sv \in [Callers -> (Fds \union {Unset}) \X (Fds \union {Unset})]
  /\ errno \in [Callers -> Errnos]
  /\ ret \in [Callers -> {0, -1}]

OwnedBy(c) == {n \in Fds : fd[n] # Free /\ fd[n].owner = c}
Result(c) == {sv[c][1], sv[c][2]}

\* A Socket that will be closed by Drop names a descriptor this call opened and
\* nobody closed since: no number is held twice, by two calls, or after its close
\* (where Drop would close a file another thread opened under the same number).
HeldIsOwned ==
  \A c \in Callers :
    /\ \A i \in DOMAIN held[c] : held[c][i] \in OwnedBy(c)
    /\ \A i, j \in DOMAIN held[c] : i # j => held[c][i] # held[c][j]

\* When socketpair returns, the descriptors it opened and left open are exactly the
\* two it published, and none if it failed, whatever call failed and whatever other
\* threads opened and closed meanwhile; a failure leaves the caller's ints alone and
\* reports the call that failed, not a close of the cleanup (socketpair.rs:55, :70).
NoLeak ==
  \A c \in Callers : pc[c] = "done" =>
    IF ret[c] = 0 THEN OwnedBy(c) = Result(c) /\ sv[c][1] # sv[c][2]
                  ELSE OwnedBy(c) = {} /\ sv[c] = <<Unset, Unset>>
                       /\ errno[c] \in {"EFAULT", "setup"}

\* A published pair is one private connection: both ends belong to the connection
\* of this call, never to a process that reached the listener first, nor to the
\* pair another thread is building (make_pair's comparison of addresses).
PairIsPrivate ==
  \A c \in Callers : pc[c] = "done" /\ ret[c] = 0 =>
    \A n \in Result(c) : fd[n].conn = c

\* A published pair has on both ends what the type argument asked for and the
\* TCP_NODELAY a wakeup pipe needs, though every option is set by a call that may fail;
\* and until the connection is established and compared, no descriptor of the call
\* survives an exec of another thread ("Keep setup sockets blocking and non-inheritable
\* until connection establishment").
FlagsAsAsked ==
  \A c \in Callers :
    /\ \A n \in OwnedBy(c) : Listening(c) \/ ask[c].cloexec => fd[n].cloexec
    /\ pc[c] = "done" /\ ret[c] = 0 =>
         \A n \in Result(c) :
           fd[n].nodelay /\ fd[n].nonblock = ask[c].nonblock /\ fd[n].cloexec = ask[c].cloexec

\* accept4 never waits: whoever connects to the listener and however full it is, a
\* call that has come to accept4 has its own connection, or an earlier one, queued.
AcceptNeverWaits == \A c \in Callers : pc[c] = "accept" => queue[c] # <<>>

\* What the program sees: its files, the ends that calls which have returned left open,
\* and what each call has come to.
Files == {n \in Fds : fd[n] # Free /\ fd[n].owner = "file"}
Shown == {n \in Fds : fd[n] # Free /\ fd[n].owner # "file" /\ pc[fd[n].owner] = "done"}
PairEnds ==
  [n \in Shown |-> [conn |-> fd[n].conn, nodelay |-> fd[n].nodelay,
                    nonblock |-> fd[n].nonblock, cloexec |-> fd[n].cloexec]]
Answer ==
  [c \in Callers |-> CASE pc[c] = "idle" -> "idle"
                      [] pc[c] = "done" -> IF ret[c] = 0 THEN "given" ELSE errno[c]
                      [] OTHER -> "waiting"]

\* The promise made to the program: a pair, or its failure, is one instant.
Atomic == INSTANCE AtomicPair WITH files <- Files, ends <- PairEnds, answer <- Answer

\* Whichever of its calls fails, whatever other threads open, close and connect to in
\* between, socketpair does nothing but give a private pair with the flags asked for, or
\* fail with everything as it was: no descriptor is closed but its own, none is left
\* behind, and nothing of a half-made pair shows ("Does not publish descriptors unless
\* every setup operation succeeded").
ImplementsAtomicPair == Atomic!Spec

==============================================================================
