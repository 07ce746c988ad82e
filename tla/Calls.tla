-------------------------------- MODULE Calls --------------------------------
(***************************************************************************)
(* A thread's system calls through the wrappers of crates/cosmo-compat     *)
(* (shim.rs, and gen.rs for those that only translate the failure): the    *)
(* arguments in the host's terms, cosmo's function, its results and its    *)
(* errno back in Linux's.  A signal handler over the thread makes calls of *)
(* its own at any point of the thread's; they share one errno.             *)
(*                                                                         *)
(* The tables are published (HostTables has how they come to be).          *)
(***************************************************************************)
EXTENDS Xlate, Cmsg

CONSTANTS
  Hosts,        \* hosts to run on, of those whose numbers are not Linux's
  Tables,       \* Tables[h]: errno, compat, junkerr, preferred and poll on host h
  PollAsked,    \* the sets of events a program polls for
  Outgoing,     \* control buffers a program sends: [src, srclen]
  Incoming,     \* lists of control messages that arrive
  Caps,         \* sizes of the control buffers a program receives into
  CtlMax,       \* the wrappers' scratch space for control messages
  Stale,        \* whether calls fail, or seem to, that leave errno alone
  MaxSignals    \* bound: signals delivered in a behaviour

ASSUME HostsAssumption == Hosts \subseteq {"windows", "xnu"}
\* errno_to_linux can rely on the tables, and poll's numbers are sets of bits.
ASSUME TablesAssumption ==
  \A h \in Hosts :
    /\ ErrnoTables(Tables[h])
    /\ DOMAIN Tables[h].poll.host = DOMAIN Tables[h].poll.names
    /\ \A i \in DOMAIN Tables[h].poll.names : Tables[h].poll.host[i] \subseteq AllBits
\* The events a program polls for, and those it is told of, are constants of their own in
\* either numbering, and of a short's bits.
Unasked == {"POLLERR", "POLLHUP", "POLLNVAL"}
ASSUME PollAssumption ==
  \A h \in Hosts : LET g == Tables[h].poll IN
    /\ g.kind = "mask" /\ g.names \in Seq(STRING) /\ DOMAIN g.linux = DOMAIN g.names
    /\ \A i \in DOMAIN g.names : g.linux[i] \subseteq AllBits
    /\ \A asked \in PollAsked : ToldApart(g.linux, NamedRows(g, asked), FALSE)
    /\ \A asked \in PollAsked : \A names \in SUBSET (asked \union Unasked) :
         /\ ToldApart(g.host, NamedRows(g, names), TRUE)
         /\ \A i \in NamedRows(g, names) : g.host[i] \union g.linux[i] \subseteq 0..15
ASSUME CtlAssumption == CtlMax \in Nat /\ Caps \subseteq Nat
\* What a program sends are the messages a walk of its buffer finds; those that arrive are
\* as long as their headers at least, only rights carry descriptors, and each message its own.
ASSUME OutgoingAssumption ==
  \A c \in Outgoing : c.src \in Seq(Message) /\ c.srclen \in Nat /\ Walkable(c.src, 8)
ASSUME IncomingAssumption ==
  \A list \in Incoming :
    /\ list \in Seq(Message)
    /\ \A i \in DOMAIN list : list[i].len >= BsdHdr /\ (list[i].type # "rights" => list[i].fds = <<>>)
    /\ \A i, j \in DOMAIN list : \A a \in DOMAIN list[i].fds, b \in DOMAIN list[j].fds :
         list[i].fds[a] = list[j].fds[b] => i = j
ASSUME BoundAssumption == MaxSignals \in Nat /\ Stale \in BOOLEAN

Frames == {"thread", "handler"}

VARIABLES
  host,       \* the host the program has started on
  errno,      \* the thread's errno, its handler's too
  pc,         \* where each frame is
  kind,       \* the kind of each frame's current or last call
  res,        \* what has come of it
  code,       \* the error number it returned itself, where a call does that
  hosterr,    \* the number the host gave as its error
  read,       \* what fix_errno has read
  before,     \* errno as the call found it
  saved,      \* errno as the handler found it
  signals,    \* signals delivered so far
  pollfd,     \* the program's struct pollfd, and what it asked for
  reported,   \* the events the host reported
  control,    \* the scratch buffer of recvmsg as the host has filled it
  got,        \* what recvmsg gave the program
  sent        \* what sendmsg was given, and what it gave the host

errs == <<errno, hosterr, code, read, before>>
io == <<pollfd, reported, control, got, sent>>
vars == <<host, pc, kind, res, errs, saved, signals, io>>

-------------------------------------------------------------------------------

\* Linux's numbers for the errors the wrappers find themselves.
EFAULT_LINUX == 14
EINVAL_LINUX == 22
ENOPROTOOPT_LINUX == 92
OwnErrors == {EFAULT_LINUX, EINVAL_LINUX, ENOPROTOOPT_LINUX}

\* How a call tells that it failed: -1 or NULL with errno set; the number
\* itself; getaddrinfo's own codes, one of which means errno.
PlainKinds == {"int", "ptr", "readdir", "number", "addrinfo"}
Kinds == PlainKinds \union {"own", "poll", "sendmsg", "recvmsg"}

\* A handler may call what is safe in one.
KindsOf(f) == IF f = "handler" THEN {"int"} ELSE PlainKinds

\* The thread stands still while a handler runs over it.
Runs(f) == f = "thread" => pc["handler"] = "away"
Idle(f) == pc[f] = "idle" /\ Runs(f)
At(f, l) == pc[f] = l /\ Runs(f)

Goto(f, l) == pc' = [pc EXCEPT ![f] = l]

\* The call returns to the frame that made it.
Return(f) == Goto(f, IF f = "handler" THEN "leave" ELSE "idle")

\* The numbers the host's functions may set errno to.
HostErrors == ErrorsOf(Tables[host].errno)

NoMessages == [msgs |-> <<>>, len |-> 0]
NoPoll == [asked |-> {}, events |-> {}, revents |-> {}]
NothingGot == [msgs |-> <<>>, len |-> 0, trunc |-> FALSE, closed |-> {}]
NothingSent == [given |-> NoMessages, passed |-> NoMessages]

NoIO ==
  /\ pollfd' = NoPoll
  /\ reported' = {}
  /\ control' = NoControl
  /\ got' = NothingGot
  /\ sent' = NothingSent

Init ==
  /\ host \in Hosts
  /\ errno = 0
  /\ pc = [f \in Frames |-> IF f = "thread" THEN "idle" ELSE "away"]
  /\ kind = [f \in Frames |-> "int"]
  /\ res = [f \in Frames |-> "ok"]
  /\ code = [f \in Frames |-> 0]
  /\ hosterr = [f \in Frames |-> 0]
  /\ read = [f \in Frames |-> 0]
  /\ before = [f \in Frames |-> 0]
  /\ saved = 0
  /\ signals = 0
  /\ pollfd = NoPoll
  /\ reported = {}
  /\ control = NoControl
  /\ got = NothingGot
  /\ sent = NothingSent

\* Frame f is inside a wrapper, which has errno e before it.
Begin(f, k, e) ==
  /\ Goto(f, "real")
  /\ kind' = [kind EXCEPT ![f] = k]
  /\ res' = [res EXCEPT ![f] = "none"]
  /\ code' = [code EXCEPT ![f] = 0]
  /\ hosterr' = [hosterr EXCEPT ![f] = 0]
  /\ before' = [before EXCEPT ![f] = e]
  /\ errno' = e
  /\ UNCHANGED <<host, read, saved, signals>>

\* A wrapper with no table to consult before the real call.  A program that reads
\* a directory clears errno first, to tell the end from an error.
Call(f) ==
  /\ Idle(f)
  /\ \E k \in KindsOf(f) : Begin(f, k, IF k = "readdir" THEN 0 ELSE errno)
  /\ IF f = "thread" THEN NoIO ELSE UNCHANGED io

\* Mutant: refusals take the way of the host's errors.
RefuseAsHost(e) ==
  /\ errno' = e
  /\ hosterr' = [hosterr EXCEPT !["thread"] = e]
  /\ res' = [res EXCEPT !["thread"] = "refused"]
  /\ code' = [code EXCEPT !["thread"] = 0]
  /\ before' = [before EXCEPT !["thread"] = errno]
  /\ Goto("thread", "fix")
  /\ UNCHANGED <<host, read, saved, signals>>

\* fail(e): the wrapper sets errno to Linux's e and makes no call.
Refuse(e) ==
  /\ errno' = e
  /\ hosterr' = [hosterr EXCEPT !["thread"] = e]
  /\ res' = [res EXCEPT !["thread"] = "refused"]
  /\ code' = [code EXCEPT !["thread"] = 0]
  /\ before' = [before EXCEPT !["thread"] = errno]
  /\ UNCHANGED <<host, pc, read, saved, signals>>

\* An option the host lacks, a null pointer.
CallRefused ==
  /\ Idle("thread")
  /\ kind' = [kind EXCEPT !["thread"] = "own"]
  /\ \E e \in OwnErrors : Refuse(e)
  /\ NoIO

-------------------------------------------------------------------------------

\* The bits of some named constants in one of a group's columns.
Bits(g, col, names) == BitsOf(col, NamedRows(g, names))

\* short
Bits16(m) == m \intersect 0..15

Poll == Tables[host].poll

\* poll and ppoll rewrite events in place.
CallPoll ==
  /\ Idle("thread")
  /\ Begin("thread", "poll", errno)
  /\ \E asked \in PollAsked :
       LET events == Bits(Poll, Poll.linux, asked) IN
       pollfd' = [asked |-> asked, events |-> Bits16(ToHost(Poll, events)), revents |-> {}]
  /\ reported' = {}
  /\ control' = NoControl
  /\ got' = NothingGot
  /\ sent' = NothingSent

\* Control messages are converted on XNU, if they fit, and refused elsewhere.
CallSendmsg ==
  /\ Idle("thread")
  /\ \E c \in Outgoing :
       LET x == LinuxToXnu(c.src, c.srclen, CtlMax)
           passes == c.srclen = 0 \/ (host = "xnu" /\ c.srclen <= CtlMax /\ x.ok)
       IN
       \/ /\ passes
          /\ Begin("thread", "sendmsg", errno)
          /\ sent' = [given |-> [msgs |-> c.src, len |-> c.srclen],
                      passed |-> [msgs |-> x.msgs, len |-> x.len]]
       \/ /\ ~passes
          /\ kind' = [kind EXCEPT !["thread"] = "sendmsg"]
          /\ Refuse(EINVAL_LINUX)
          /\ sent' = [NothingSent EXCEPT !.given = [msgs |-> c.src, len |-> c.srclen]]
  /\ pollfd' = NoPoll
  /\ reported' = {}
  /\ control' = NoControl
  /\ got' = NothingGot

\* The host gets a scratch buffer as large as the program's, in its own layout,
\* and none at all but on XNU.
CallRecvmsg ==
  /\ Idle("thread")
  /\ Begin("thread", "recvmsg", errno)
  /\ \E cap \in Caps : control' = [NoControl EXCEPT !.cap = cap]
  /\ pollfd' = NoPoll
  /\ reported' = {}
  /\ got' = NothingGot
  /\ sent' = NothingSent

-------------------------------------------------------------------------------

\* cosmo's function fails and sets errno, or returns its error.
RealFails(f) ==
  /\ At(f, "real")
  /\ \E n \in HostErrors :
       /\ hosterr' = [hosterr EXCEPT ![f] = n]
       /\ IF kind[f] = "number"
            THEN code' = [code EXCEPT ![f] = n] /\ UNCHANGED errno
            ELSE errno' = n /\ UNCHANGED code
  /\ res' = [res EXCEPT ![f] = "failed"]
  /\ Goto(f, "back")
  /\ UNCHANGED <<host, kind, read, before, saved, signals, io>>

\* It fails, or seems to, without setting errno: a directory has ended; a name is
\* not known (EAI_NONAME); an offset or a limit is -1 in its low 32 bits.
RealLeavesErrno(f) ==
  /\ At(f, "real")
  /\ \/ kind[f] = "readdir"
     \/ Stale /\ kind[f] \in {"int", "addrinfo"}
  /\ res' = [res EXCEPT ![f] = "unset"]
  /\ Goto(f, "back")
  /\ UNCHANGED <<host, kind, errs, saved, signals, io>>

RealSucceeds(f) ==
  /\ At(f, "real")
  /\ kind[f] \in PlainKinds \union {"sendmsg"}
  /\ res' = [res EXCEPT ![f] = "ok"]
  /\ Goto(f, "back")
  /\ UNCHANGED <<host, kind, errs, saved, signals, io>>

\* The events asked for that have happened, and those nobody has to ask for.
RealPoll ==
  /\ At("thread", "real")
  /\ kind["thread"] = "poll"
  /\ \E names \in SUBSET (pollfd.asked \union Unasked) :
       /\ reported' = names
       /\ pollfd' = [pollfd EXCEPT !.revents = Bits(Poll, Poll.host, names)]
  /\ res' = [res EXCEPT !["thread"] = "ok"]
  /\ Goto("thread", "back")
  /\ UNCHANGED <<host, kind, errs, saved, signals, control, got, sent>>

RealRecvmsg ==
  /\ At("thread", "real")
  /\ kind["thread"] = "recvmsg"
  /\ \E list \in Incoming :
       control' = IF host = "xnu"
                    THEN [HostFills(list, Smaller(control.cap, CtlMax)) EXCEPT !.cap = control.cap]
                    ELSE control
  /\ res' = [res EXCEPT !["thread"] = "ok"]
  /\ Goto("thread", "back")
  /\ UNCHANGED <<host, kind, errs, saved, signals, pollfd, reported, got, sent>>

-------------------------------------------------------------------------------

\* Mutant: errno is rewritten whatever the call has returned.
AsksForFixAlways(f) == kind[f] # "number"

\* Whether the wrapper goes on to fix_errno: after a -1, a NULL, an EAI code.
AsksForFix(f) == res[f] \in {"failed", "unset"} /\ kind[f] # "number"

\* What a call that returns an error number tells the program.
CodeBack(f) == IF kind[f] = "number" THEN ErrnoToLinux(Tables[host], code[f]) ELSE code[f]

\* poll and ppoll put Linux's bits back, whatever has come of them.
PollBack ==
  IF kind["thread"] = "poll"
    THEN [pollfd EXCEPT !.events = Bits16(ToLinux(Poll, @)),
                        !.revents = Bits16(ToLinux(Poll, @))]
    ELSE pollfd

\* What has come into recvmsg's scratch buffer, in the program's.
ControlBack ==
  IF kind["thread"] = "recvmsg" /\ res["thread"] = "ok" /\ host = "xnu"
    THEN LET x == XnuToLinux(control.msgs, control.len, control.cap) IN
         [x EXCEPT !.trunc = @ \/ control.cut]
    ELSE got

\* The results back in Linux's numbers.
Back(f) ==
  /\ At(f, "back")
  /\ IF AsksForFix(f) THEN Goto(f, "fix") ELSE Return(f)
  /\ code' = [code EXCEPT ![f] = CodeBack(f)]
  /\ pollfd' = IF f = "thread" THEN PollBack ELSE pollfd
  /\ got' = IF f = "thread" THEN ControlBack ELSE got
  /\ UNCHANGED <<host, kind, res, errno, hosterr, read, before, saved, signals, reported, control, sent>>

\* fix_errno reads errno ...
FixRead(f) ==
  /\ At(f, "fix")
  /\ read' = [read EXCEPT ![f] = errno]
  /\ Goto(f, "write")
  /\ UNCHANGED <<host, kind, res, errno, hosterr, code, before, saved, signals, io>>

\* Mutant: the real function goes through a wrapper itself, as cosmo's open() did
\* through openat().
FixWriteTwice(f) ==
  LET once == ErrnoToLinux(Tables[host], read[f]) IN
  /\ At(f, "write")
  /\ errno' = ErrnoToLinux(Tables[host], once)
  /\ read' = [read EXCEPT ![f] = 0]
  /\ Return(f)
  /\ UNCHANGED <<host, kind, res, hosterr, code, before, saved, signals, io>>

\* ... and writes Linux's number for it.
FixWrite(f) ==
  /\ At(f, "write")
  /\ errno' = ErrnoToLinux(Tables[host], read[f])
  /\ read' = [read EXCEPT ![f] = 0]
  /\ Return(f)
  /\ UNCHANGED <<host, kind, res, hosterr, code, before, saved, signals, io>>

-------------------------------------------------------------------------------

\* The frame is gone and what it has had with it.
Forget(f) ==
  /\ kind' = [kind EXCEPT ![f] = "int"]
  /\ res' = [res EXCEPT ![f] = "ok"]
  /\ code' = [code EXCEPT ![f] = 0]
  /\ hosterr' = [hosterr EXCEPT ![f] = 0]
  /\ before' = [before EXCEPT ![f] = 0]

\* A signal arrives; its handler puts errno aside, makes a call and puts it back.
Deliver ==
  /\ pc["handler"] = "away"
  /\ signals < MaxSignals
  /\ signals' = signals + 1
  /\ saved' = errno
  /\ Goto("handler", "idle")
  /\ UNCHANGED <<host, kind, res, errs, io>>

Leave ==
  /\ pc["handler"] = "leave"
  /\ errno' = saved
  /\ saved' = 0
  /\ Goto("handler", "away")
  /\ Forget("handler")
  /\ UNCHANGED <<host, read, signals, io>>

Next ==
  \/ \E f \in Frames : Call(f) \/ RealFails(f) \/ RealLeavesErrno(f) \/ RealSucceeds(f)
  \/ CallRefused \/ CallPoll \/ CallSendmsg \/ CallRecvmsg
  \/ RealPoll \/ RealRecvmsg
  \/ \E f \in Frames : Back(f) \/ FixRead(f) \/ FixWrite(f)
  \/ Deliver \/ Leave

Spec == Init /\ [][Next]_vars

-------------------------------------------------------------------------------

Labels == {"idle", "real", "back", "fix", "write", "away", "leave"}

\* The variables' types; lengths stay within the buffers they are of, the
\* wrapper's scratch buffer and the program's (net.rs:189-259).
TypeOK ==
  /\ host \in Hosts
  /\ errno \in Int /\ saved \in Int
  /\ pc \in [Frames -> Labels] /\ pc["thread"] \notin {"away", "leave"}
  /\ kind \in [Frames -> Kinds]
  /\ res \in [Frames -> {"none", "ok", "failed", "unset", "refused"}]
  /\ {code, hosterr, read, before} \subseteq [Frames -> Int]
  /\ signals \in 0..MaxSignals
  /\ pollfd \in [asked : PollAsked \union {{}}, events : SUBSET AllBits, revents : SUBSET AllBits]
  /\ control.cap \in Nat /\ control.len \in 0..control.cap
  /\ got.len \in 0..control.cap
  /\ sent.passed.len \in 0..CtlMax

\* The frame has the result of its last call before it.
Ended(f) ==
  IF f = "thread" THEN pc[f] = "idle" /\ pc["handler"] = "away" ELSE pc[f] = "leave"

\* fix_errno runs once for each failed call, and never over what the wrapper has
\* set itself (shim.rs:88-90, 286-289): what the program finds, in errno or as the
\* result, is the translation of what the host gave, although a handler may have
\* made failing calls of its own before and in the middle of fix_errno.
ErrnoTranslatedOnce ==
  \A f \in Frames : Ended(f) =>
    /\ res[f] = "refused" => errno = hosterr[f]
    /\ res[f] = "failed" =>
         (IF kind[f] = "number" THEN code[f] ELSE errno) = ErrnoToLinux(Tables[host], hosterr[f])

\* errno is rewritten for failures only (shim.rs:88-90, 94-95): a call that
\* succeeds, that returns its error, or that ends a directory leaves it as it was.
ErrnoOnlyByFailure ==
  \A f \in Frames : Ended(f) /\ (res[f] \in {"ok", "unset"} \/ kind[f] = "number") =>
    errno = before[f]

\* What a host's error number may be called, and Linux's numbers for that.
NamesOf(n) ==
  LET g == Tables[host].errno IN {i \in DOMAIN g.host : g.host[i] = n}
StdKnows(i) ==
  \E k \in DOMAIN Tables[host].preferred :
    Tables[host].preferred[k] = Tables[host].errno.names[i]

\* The error the program is told is one that the host's number stands for, and one
\* std has a name for, if there is one (xlate.rs:131-135).
ErrorsAreStds ==
  \A f \in Frames : Ended(f) /\ res[f] = "failed" =>
    LET told == IF kind[f] = "number" THEN code[f] ELSE errno
        names == NamesOf(hosterr[f])
        known == {i \in names : StdKnows(i)}
    IN  \E i \in IF known = {} THEN names ELSE known : Tables[host].errno.linux[i] = told

\* poll leaves events as the program put them there and reports, in Linux's bits,
\* the events the host did, whether it succeeds or fails (shim.rs:587-595).
PollFaithful ==
  Ended("thread") /\ kind["thread"] = "poll" =>
    /\ pollfd.events = Bits(Poll, Poll.linux, pollfd.asked)
    /\ pollfd.revents = Bits(Poll, Poll.linux, reported)

\* The messages that begin in the buffer.
Begun(c) == {i \in DOMAIN c.msgs : c.msgs[i].at + LinuxHdr <= c.len}

Expressible(c) ==
  /\ c.len = 0 \/ c.len >= LinuxHdr
  /\ \A i \in Begun(c) : c.msgs[i].len \in LinuxHdr..(c.len - c.msgs[i].at) /\ c.msgs[i].type \in ToXnuTypes

\* sendmsg passes on all the messages of a buffer XNU can express, in their order
\* and where XNU looks for them, and none of any other (net.rs:186-188).
SendsAllOrNone ==
  Ended("thread") /\ kind["thread"] = "sendmsg" =>
    LET given == sent.given
        passed == sent.passed
    IN  IF res["thread"] = "refused"
          THEN host = "xnu" => ~Expressible(given) \/ given.len > CtlMax
          ELSE /\ Expressible(given)
               /\ DOMAIN passed.msgs = Begun(given)
               /\ \A i \in Begun(given) : Data(passed.msgs, BsdHdr)[i] = Data(given.msgs, LinuxHdr)[i]
               /\ Walkable(passed.msgs, 4)

Received == kind["thread"] = "recvmsg" /\ res["thread"] = "ok" /\ Ended("thread")

\* Those of the messages that the host has put into the buffer whole.
Handed == FdsAt(control.msgs, {i \in DOMAIN control.msgs : control.msgs[i].at + control.msgs[i].len <= control.len})

\* A descriptor that came in a message reaches the program or is closed, never
\* both, never neither (net.rs:248-249).
RightsAccounted ==
  Received =>
    LET delivered == FdsOf(got.msgs) IN
    /\ delivered \intersect got.closed = {}
    /\ Handed \subseteq delivered \union got.closed

\* One list is another with messages left out.
Thinned(found, came) ==
  \E of \in [DOMAIN found -> DOMAIN came] :
    /\ \A i, j \in DOMAIN found : i < j => of[i] < of[j]
    /\ \A i \in DOMAIN found : found[i] = came[of[i]]

\* The messages the program finds are those that came, in their order, all of them
\* unless MSG_CTRUNC is set (net.rs:216-219).
ControlHonest ==
  Received /\ host = "xnu" =>
    LET came == Data(control.msgs, BsdHdr)
        found == Data(got.msgs, LinuxHdr)
    IN  /\ Walkable(got.msgs, 8)
        /\ \A i \in DOMAIN got.msgs : got.msgs[i].at + got.msgs[i].len <= got.len
        /\ found = came \/ (got.trunc /\ Thinned(found, came))

==============================================================================
