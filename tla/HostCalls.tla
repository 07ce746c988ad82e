------------------------------ MODULE HostCalls ------------------------------
(***************************************************************************)
(* The numbers that cross the wrappers of crates/cosmo-compat/src/shim.rs  *)
(* and net.rs, both ways, once the groups are published.                   *)
(***************************************************************************)
EXTENDS CallNames

VARIABLES host, thing, kept, told, by, answer

vars == <<host, thing, kept, told, by, answer>>

\* The state has its type: a family in an address has 16 bits, a signal in a
\* wait status 8, whatever the groups make of them.
TypeOK ==
  /\ host \in Hosts
  /\ thing \in Things
  /\ by \in {"none", "program", "host"}
  /\ answer \in {"none", "given", "told", "refused"}
  /\ Len(kept) <= 1 /\ Len(told) <= 1
  /\ by = "none" <=> kept = <<>>
  /\ thing = "address" /\ kept # <<>> => kept[1] \in 0..65535
  /\ thing = "signal" /\ answer = "told" => told[1] \in 1..255

Init ==
  /\ host \in Hosts
  /\ thing \in Things
  /\ kept = <<>> /\ told = <<>>
  /\ by = "none" /\ answer = "none"

-------------------------------------------------------------------------------

\* A call that gives the host what in(v) makes of the program's number v.
Sets(t, asked, in(_)) ==
  /\ thing = t
  /\ \E v \in asked \intersect Asked[host][t] : kept' = <<in(v)>> /\ told' = <<v>>
  /\ by' = "program" /\ answer' = "given"
  /\ UNCHANGED <<host, thing>>

\* Only what is there already, an open file, is set more than once.
Gives(t, in(_)) == kept = <<>> /\ Sets(t, Asked[host][t], in)

\* A call that gives the program what out(k) makes of the host's number k.
Tells(t, out(_)) ==
  /\ thing = t
  /\ kept # <<>> /\ kept[1] \in Reported[host][t]   \* the host has it
  /\ told' = <<out(kept[1])>>
  /\ answer' = "told"
  /\ UNCHANGED <<host, thing, kept, by>>

-------------------------------------------------------------------------------
(* Files. *)

open_flags(f) == ToHost(open[host], f)
at_fd(fd) == ToHost(at[host], fd)

\* Mutant: the AT_ flags translated as the enum their group is.
at_flags_enum(f) ==
  LET g == at[host]
      v == FoldSet(LAMBDA b, acc : acc + 2^b, 0, f)
  IN  Bits(ToHost(g, v))

\* The group is an enum but its flags combine: row by row, each flag found in
\* what is left is taken out of it.
at_flags(f) ==
  LET g == at[host]
      take(acc, i) ==
        IF g.linux[i] > 0 /\ Bits(g.linux[i]) \subseteq acc.rest
          THEN [out |-> acc.out \union Bits(g.host[i]), rest |-> acc.rest \ Bits(g.linux[i])]
          ELSE acc
      end == FoldLeft(take, [out |-> {}, rest |-> f], [i \in DOMAIN g.names |-> i])
  IN  end.out \union end.rest

\* The command of an fcntl, by the first of its groups that changes it.
Command(cmd) ==
  FoldLeft(LAMBDA c, g : IF c = cmd THEN ToHost(g, cmd) ELSE c,
           cmd, <<fcntl[host], fcntl2[host], fcntl3[host]>>)

\* The host takes command c for what it calls by that name.
IsCommand(c, name) == \E r \in RowsOf(fcntl2[host], {name}) : c = r.host

Open == Gives("file", open_flags)     \* and openat, and the flags of a pipe2
SetFl ==
  /\ kept # <<>>
  /\ IsCommand(Command(4), "F_SETFL")
  /\ Sets("file", StatusFlags(host), open_flags)
GetFl ==
  /\ IsCommand(Command(3), "F_GETFL")
  /\ Tells("file", LAMBDA k : ToLinux(open[host], k))

Openat == Gives("dirfd", at_fd)       \* and every other call of a directory
Unlinkat == Gives("unlinkat", at_flags)
Linkat == Gives("linkat", at_flags)
Fchmodat == Gives("fchmodat", at_flags)
Fcntl == Gives("command", Command)
Ioctl == Gives("request", LAMBDA v : ToHost(ioctl[host], v))

MmapFlags == Gives("mapping", LAMBDA v : ToHost(mmap[host], v))
MmapProt == Gives("protection", LAMBDA v : ToHost(mprot[host], v))

-------------------------------------------------------------------------------
(* Sockets. *)

sock_to_host(v) == ToHost(sock[host], v)
sock_to_linux(k) == ToLinux(sock[host], k)
family_to_host(v) == ToHost(af[host], v)
family_to_linux(k) == ToLinux(af[host], k)

\* A type with its flags, or accept4's flags alone.
Socket == Gives("socket", sock_to_host)
Type == Gives("type", sock_to_host)
GetType == Tells("type", sock_to_linux)

Family == Gives("family", family_to_host)
GetFamily == Tells("family", family_to_linux)

\* Lengths of addresses: of IPv4, of IPv6, of AF_UNIX.
Lengths == {16, 28, 110}

\* Mutant: the family as wide as an int.
with_host_addr_int(v, alen) == family_to_host(v)

\* The family in an address is 16 bits wide, and is rewritten in a copy of the
\* address if the copy's buffer can hold it.
with_host_addr(v, alen) == IF alen \notin 2..128 THEN v ELSE family_to_host(v) % 65536

Bind == \E alen \in Lengths : Gives("address", LAMBDA v : with_host_addr(v, alen))
Getsockname == Tells("address", LAMBDA k : family_to_linux(k) % 65536)

SendFlags == Gives("message", LAMBDA v : ToHost(msg[host], v))

Interfaces == Tells("interface", LAMBDA k : ToLinux(iff[host], k))

-------------------------------------------------------------------------------
(* Socket options, <<level, name>>. *)

\* The host's number, if it has one, of the name among names that is v.
lookup(g, names, v) ==
  LET rows == {i \in DOMAIN g.names : g.names[i] \in names /\ g.linux[i] = v}
  IN  {g.host[i] : i \in {j \in rows : j = Min(rows) /\ g.host[j] > 0}}

\* What is settled before a table is asked: the discovery of a path's MTU, what
\* Windows could not deliver, and the numbers cosmo lacks for XNU.
Settled ==
  CASE host = "windows" ->
         [o \in {<<0, 10>>, <<41, 23>>} |-> {<<o[1], 71>>}]
         @@ [o \in {<<0, 8>>, <<0, 12>>, <<0, 13>>, <<41, 49>>, <<41, 51>>, <<41, 66>>} |-> {}]
    [] host = "xnu" ->
         (<<0, 10>> :> {<<0, 28>>}) @@ (<<41, 23>> :> {<<41, 62>>})
         @@ (<<41, 49>> :> {<<41, 61>>}) @@ (<<41, 50>> :> {<<41, 46>>})
         @@ (<<41, 51>> :> {<<41, 37>>}) @@ (<<41, 52>> :> {<<41, 47>>})
         @@ (<<41, 62>> :> {<<41, 62>>})

\* The option the host is asked for, or none: ENOPROTOOPT.
sockopt(o) ==
  LET found(g, names) == lookup(g[host], names, o[2])
      of(level, g) == {<<level, n>> : n \in found(g, NamesOf(g[host]))}
  IN  CASE host = "linux" -> {o}
        [] host # "linux" /\ o \in DOMAIN Settled -> Settled[o]
        [] host # "linux" /\ o[1] = 1 ->
             lookup(so[host], {"SOL_SOCKET"}, 1) \X found(so, OptionsOf(so[host]))
        [] host # "linux" /\ o[1] = 6 -> of(6, tcp)
        [] host # "linux" /\ o[1] = 0 /\ o \notin DOMAIN Settled -> of(0, ip)
        [] OTHER -> of(41, ipv6)

\* An option's value, where it is not an int that every host takes alike.
val_to_host(x) ==
  CASE host = "linux" -> {x}
    [] host = "windows" -> {n \in {2, 1, 3} : <<x, n>> \in {<<0, 2>>, <<2, 1>>, <<3, 3>>}}
    [] host = "xnu" -> {n \in {0, 1} : <<x, n>> \in {<<0, 0>>, <<2, 1>>, <<3, 1>>}}

val_to_linux(k) ==
  CASE host = "linux" -> k
    [] host = "windows" -> (0 :> 1 @@ 1 :> 2 @@ 2 :> 0 @@ 3 :> 3)[k]
    [] host = "xnu" -> IF k # 0 THEN 2 ELSE 0

\* A call whose number may be refused before the host is asked.
MayGive(t, in(_)) ==
  /\ thing = t /\ told = <<>> /\ by = "none"
  /\ \E v \in Asked[host][t] :
       \/ /\ in(v) # {}
          /\ \E k \in in(v) : kept' = <<k>>
          /\ told' = <<v>> /\ by' = "program" /\ answer' = "given"
       \/ /\ in(v) = {}
          /\ told' = <<v>> /\ answer' = "refused" /\ UNCHANGED <<kept, by>>
  /\ UNCHANGED <<host, thing>>

Setsockopt == MayGive("option", sockopt)
SetDiscovery == MayGive("discovery", val_to_host)
GetDiscovery == Tells("discovery", val_to_linux)

-------------------------------------------------------------------------------
(* Errors, signals, processes and clocks. *)

errno_to_linux(k) ==
  ErrnoToLinux([errno |-> errno[host], compat |-> compat[host], junkerr |-> junkerr[host],
                preferred |-> ERRNO_PREFERRED], k)

Errno == Tells("error", errno_to_linux)   \* of a failed call, and SO_ERROR's

PollEvents == Gives("events", LAMBDA v : ToHost(poll[host], v))
PollResults == Tells("ready", LAMBDA k : ToLinux(poll[host], k))

sig_to_host(n) == ToHost(sig[host], n)
sigs(s) == {sig_to_host(n) : n \in s}
sig_back(n) == ToLinux(sig[host], n)

Sigaction == Gives("handler", LAMBDA v : ToHost(sigact[host], v))
OldAction == Tells("handler", LAMBDA k : ToLinux(sigact[host], k))

\* sigaddset numbers a set as the host does, and sigaction hands it on as it is.
sigset(s) == sigs(s) \intersect 1..128
Sigaddset == Gives("blocked", sigset)

\* ppoll renumbers what it is given, be it of sigaddset's making.
sigset_to_host(s) == {h \in sigs(s) : h \in 1..128}
PpollMask ==
  Gives("awaited", LAMBDA v : IF host = "linux" THEN sigset(v) ELSE sigset_to_host(sigset(v)))

Kill == Gives("signal", sig_to_host)      \* and killpg, signal, sigaction

\* A wait status says in its low 7 bits what killed the child, or with all of
\* them set, and in the byte above, what stopped it.
WaitStatus(s) ==
  CASE s.low = 0 -> s
    [] s.low \in 1..126 -> [s EXCEPT !.low = sig_back(s.low) % 128]
    [] s.low = 127 -> [s EXCEPT !.high = sig_back(s.high) % 256]

Killed == Tells("signal", LAMBDA k : WaitStatus([low |-> k, high |-> 0]).low)
Stopped == Tells("signal", LAMBDA k : WaitStatus([low |-> 127, high |-> k]).high)

WaitOptions == Gives("wait", LAMBDA v : ToHost(waitpid[host], v))
Clock == Gives("clock", LAMBDA v : ToHost(clock[host], v))

-------------------------------------------------------------------------------

\* The host sets an error, a signal, a flag of its own accord.
HostSets ==
  /\ kept = <<>>
  /\ \E k \in Reported[host][thing] : kept' = <<k>>
  /\ told' = <<>> /\ by' = "host" /\ answer' = "none"
  /\ UNCHANGED <<host, thing>>

Next ==
  \/ Open \/ SetFl \/ GetFl \/ Openat \/ Unlinkat \/ Linkat \/ Fchmodat \/ Fcntl \/ Ioctl
  \/ MmapFlags \/ MmapProt
  \/ Socket \/ Type \/ GetType \/ Family \/ GetFamily \/ Bind \/ Getsockname
  \/ SendFlags \/ Interfaces
  \/ Setsockopt \/ SetDiscovery \/ GetDiscovery
  \/ Errno \/ PollEvents \/ PollResults
  \/ Sigaction \/ OldAction \/ Sigaddset \/ PpollMask \/ Kill \/ Killed \/ Stopped
  \/ WaitOptions \/ Clock
  \/ HostSets

Spec == Init /\ [][Next]_vars

-------------------------------------------------------------------------------

N == INSTANCE NativeCalls

\* Whatever a program says through the wrappers the host takes as a C
\* program's that says the same by its names, whatever the host says the
\* program takes as that program would, and what it said itself it reads back:
\* across fcntl's F_SETFL and F_GETFL, kill and waitpid, sigaction and its old
\* flags.  An option the host lacks is refused and never passed on (net.rs).
LikeNative == N!Spec

==============================================================================
