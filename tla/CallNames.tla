------------------------------ MODULE CallNames ------------------------------
(***************************************************************************)
(* The names a program may give to a libc call, or be given by it, and     *)
(* what they say: a number on Linux, another on each host.  A thing is one *)
(* such use of numbers: the flags of a file, the family in an address, the *)
(* signal a child dies of.  Which names a thing takes is POSIX's and       *)
(* Linux's; what they say on a host is gen.rs's, or the host SDK's.        *)
(***************************************************************************)
EXTENDS Gen

CONSTANTS
  Hosts,     \* the hosts: a subset of {"linux", "windows", "xnu"}
  MaxNames,  \* how many flags a program puts together, at most
  Excepted   \* <<host, thing, name>>s a program does without

ASSUME HostsAssumption == Hosts \subseteq {"linux", "windows", "xnu"}
ASSUME MaxNamesAssumption == MaxNames \in Nat \ {0}

-------------------------------------------------------------------------------

Row(name, linux, host) == [name |-> name, linux |-> linux, host |-> host]

\* The rows of group g for the names that are taken.
RowsOf(g, takes) ==
  {Row(g.names[i], g.linux[i], g.host[i]) : i \in {j \in DOMAIN g.names : g.names[j] \in takes}}

\* The bits of a number.
Bits(n) == {i \in 0..30 : (n \div 2^i) % 2 = 1}

\* Rows of a group of integers whose names are put together as flags.
AsFlags(rows) == {Row(r.name, Bits(r.linux), Bits(r.host)) : r \in rows}

\* Rows of numbers that are put together as a set of them.
SetsOf(rows) == {Row(r.name, {r.linux}, {r.host} \intersect 1..128) : r \in rows}

\* Rows of options, with the row of the level they are of.
AtLevel(levels, rows) ==
  {Row(r.name, <<l.linux, r.linux>>, <<l.host, r.host>>) : l \in levels, r \in rows}
Level(n) == {Row("level", n, n)}

\* Every host agrees on the access modes of open.
AccessModes == {Row("O_WRONLY", {0}, {0}), Row("O_RDWR", {1}, {1})}

NamesOf(g) == ToSet(g.names)

-------------------------------------------------------------------------------

FileFlags ==
  {"O_APPEND", "O_ASYNC", "O_CLOEXEC", "O_CREAT", "O_DIRECT", "O_DIRECTORY", "O_DSYNC",
   "O_EXCL", "O_NOATIME", "O_NOCTTY", "O_NOFOLLOW", "O_NONBLOCK", "O_PATH", "O_RSYNC",
   "O_SYNC", "O_TMPFILE", "O_TRUNC"}

Commands ==
  {"F_DUPFD", "F_DUPFD_CLOEXEC", "F_GETFD", "F_SETFD", "F_GETFL", "F_SETFL", "F_GETLK",
   "F_SETLK", "F_SETLKW", "F_GETOWN", "F_SETOWN", "F_GETSIG", "F_SETSIG", "F_OFD_GETLK",
   "F_OFD_SETLK", "F_OFD_SETLKW", "F_GETPIPE_SZ", "F_SETPIPE_SZ"}

MapFlags ==
  {"MAP_ANONYMOUS", "MAP_FIXED", "MAP_FIXED_NOREPLACE", "MAP_HUGETLB", "MAP_LOCKED",
   "MAP_NONBLOCK", "MAP_NORESERVE", "MAP_POPULATE", "MAP_PRIVATE", "MAP_SHARED",
   "MAP_SHARED_VALIDATE", "MAP_SYNC"}

SocketTypes == {"SOCK_STREAM", "SOCK_DGRAM", "SOCK_RAW", "SOCK_RDM", "SOCK_SEQPACKET"}
SocketFlags == {"SOCK_CLOEXEC", "SOCK_NONBLOCK"}

\* SIGEMT, SIGINFO and SIGTHR have no number of Linux's own.
Signals == NamesOf(sig["linux"]) \ {"SIGEMT", "SIGINFO", "SIGTHR"}

Families == NamesOf(af["linux"]) \ {"AF_LINK", "PF_CAN"}

Requests == {n \in NamesOf(ioctl["linux"]) :
               \E r \in RowsOf(ioctl["linux"], {n}) : r.linux \notin {0, -1}}

\* A level's own row of `so` is no option.
OptionsOf(g) == NamesOf(g) \ {"SOL_SOCKET"}
SolSocket(h) == RowsOf(so[h], {"SOL_SOCKET"})

\* Options the host's own headers number where cosmo's table has nothing.
SdkOptions(h) ==
  CASE h = "windows" -> {Row("IP_MTU_DISCOVER", <<0, 10>>, <<0, 71>>),
                         Row("IPV6_MTU_DISCOVER", <<41, 23>>, <<41, 71>>)}
    [] h = "xnu" -> {Row("IP_MTU_DISCOVER", <<0, 10>>, <<0, 28>>),
                     Row("IPV6_MTU_DISCOVER", <<41, 23>>, <<41, 62>>),
                     Row("IPV6_RECVPKTINFO", <<41, 49>>, <<41, 61>>),
                     Row("IPV6_PKTINFO", <<41, 50>>, <<41, 46>>),
                     Row("IPV6_RECVHOPLIMIT", <<41, 51>>, <<41, 37>>),
                     Row("IPV6_HOPLIMIT", <<41, 52>>, <<41, 47>>),
                     Row("IPV6_DONTFRAG", <<41, 62>>, <<41, 62>>)}
    [] OTHER -> {}

Options(h) ==
  LET table == AtLevel(SolSocket(h), RowsOf(so[h], OptionsOf(so[h])))
               \union AtLevel(Level(6), RowsOf(tcp[h], NamesOf(tcp[h])))
               \union AtLevel(Level(0), RowsOf(ip[h], NamesOf(ip[h])))
               \union AtLevel(Level(41), RowsOf(ipv6[h], NamesOf(ipv6[h])))
      sdk == SdkOptions(h)
               \union {Row("SO_BINDTODEVICE", <<1, 25>>, IF h = "linux" THEN <<1, 25>> ELSE <<1, 0>>)}
  IN  sdk \union {r \in table : \A s \in sdk : s.name # r.name}

\* What a path's MTU discovery may be set to.
Discovery(h) ==
  LET names == <<"DONT", "WANT", "DO", "PROBE">>
      says == [linux |-> <<0, 1, 2, 3>>, windows |-> <<2, 0, 1, 3>>, xnu |-> <<0, -1, 1, 1>>]
  IN  {Row(names[i], i - 1, says[h][i]) : i \in 1..4}

-------------------------------------------------------------------------------

Rows(h) ==
  [file |-> RowsOf(open[h], FileFlags) \union AccessModes,
   dirfd |-> RowsOf(at[h], {"AT_FDCWD"}),
   unlinkat |-> AsFlags(RowsOf(at[h], {"AT_REMOVEDIR"})),
   linkat |-> AsFlags(RowsOf(at[h], {"AT_EMPTY_PATH", "AT_SYMLINK_FOLLOW"})),
   fchmodat |-> AsFlags(RowsOf(at[h], {"AT_EMPTY_PATH", "AT_SYMLINK_NOFOLLOW"})),
   command |-> UNION {RowsOf(g[h], Commands) : g \in {fcntl, fcntl2, fcntl3}},
   mapping |-> RowsOf(mmap[h], MapFlags),
   protection |-> RowsOf(mprot[h], {"PROT_EXEC", "PROT_READ", "PROT_WRITE"}),
   request |-> RowsOf(ioctl[h], Requests),
   socket |-> RowsOf(sock[h], SocketTypes \union SocketFlags),
   type |-> RowsOf(sock[h], SocketTypes),
   family |-> RowsOf(af[h], Families),
   address |-> {Row(r.name, r.linux, r.host % 65536) : r \in RowsOf(af[h], Families)},
   option |-> Options(h),
   discovery |-> Discovery(h),
   error |-> UNION {RowsOf(g[h], NamesOf(g[h]) \ NamesOf(mmap[h])) : g \in {errno, junkerr}},
   message |-> RowsOf(msg[h], NamesOf(msg[h])),
   events |-> RowsOf(poll[h], NamesOf(poll[h])),
   ready |-> RowsOf(poll[h], NamesOf(poll[h])),
   handler |-> RowsOf(sigact[h], NamesOf(sigact[h])),
   signal |-> RowsOf(sig[h], Signals),
   blocked |-> SetsOf(RowsOf(sig[h], Signals)),
   awaited |-> SetsOf(RowsOf(sig[h], Signals)),
   wait |-> RowsOf(waitpid[h], NamesOf(waitpid[h])),
   clock |-> RowsOf(clock[h], NamesOf(clock[h])),
   interface |-> RowsOf(iff[h], NamesOf(iff[h]))]

Things == DOMAIN Rows("linux")
Flags == {"file", "unlinkat", "linkat", "fchmodat", "mapping", "protection", "socket", "type", "message",
          "events", "ready", "handler", "blocked", "awaited", "wait", "interface"}


\* A name the host says nothing by.
Lacks(t, r) ==
  CASE t \in Flags -> r.linux # {} /\ r.host \in {{}, Word, AllBits}
    [] t = "option" -> r.host[2] \in {0, -1}
    [] t = "address" -> r.host = 65535
    [] t = "discovery" -> r.host = -1
    [] OTHER -> r.host = -1 \/ (r.linux # 0 /\ r.host = 0)

\* A name Linux has a number for.
InLinux(t, r) ==
  CASE t \in Flags -> r.linux \notin {{}, Word, AllBits}
    [] t = "option" -> r.linux[2] # 0
    [] OTHER -> r.linux # -1

Free(h, t, rows) == {r \in rows : <<h, t, r.name>> \notin Excepted}

\* The sets of at most MaxNames rows that go together: of the types of a socket
\* it has one.
Few(t, rows) ==
  LET few[n \in 0..MaxNames] ==
        IF n = 0 THEN {{}} ELSE few[n-1] \union {s \union {r} : s \in few[n-1], r \in rows}
      types(s) == {r \in s : r.name \in SocketTypes}
  IN  {s \in few[MaxNames] : t \in {"socket", "type"} => Cardinality(types(s)) <= 1}

\* What can be said with some rows, or with one where they cannot be put
\* together: the number it is on Linux, the number it is on the host, and
\* whether the host has all of them.
Says(t, rows) ==
  IF t \in Flags
    THEN {[linux |-> UNION {r.linux : r \in s}, host |-> UNION {r.host : r \in s},
           had |-> \A r \in s : ~Lacks(t, r)] : s \in Few(t, rows)}
    ELSE {[linux |-> r.linux, host |-> r.host, had |-> ~Lacks(t, r)] : r \in rows}

\* A value for every host and thing.
ForEach(val(_, _)) == [h \in Hosts |-> [t \in Things |-> val(h, t)]]

Sayings == ForEach(LAMBDA h, t : Says(t, Rows(h)[t]))
Spoken == ForEach(LAMBDA h, t : Says(t, Free(h, t, {r \in Rows(h)[t] : InLinux(t, r)})))

\* Flags of a file that can be changed once it is open.
StatusFlags(h) ==
  UNION {{r.linux : r \in RowsOf(open[h], {n})} :
           n \in {"O_APPEND", "O_ASYNC", "O_DIRECT", "O_NOATIME", "O_NONBLOCK"}}

\* Linux's numbers for what a program may say.
Asked == ForEach(LAMBDA h, t : {w.linux : w \in Spoken[h][t]})

\* The host's numbers for what it may report of its own.
Reported == ForEach(LAMBDA h, t : {w.host : w \in {x \in Spoken[h][t] : x.had}})

\* The host's numbers for what Linux's number v may stand for; where the host
\* has some of those names, by them.
HostNumbers(sayings, v) ==
  LET all == {w \in sayings : w.linux = v}
      had == {w \in all : w.had}
  IN  {w.host : w \in IF had = {} THEN all ELSE had}

Meant ==
  ForEach(LAMBDA h, t : [v \in Asked[h][t] |-> HostNumbers(Sayings[h][t], v)])

\* Linux's numbers for what the host can say all of.
Had == ForEach(LAMBDA h, t : {w.linux : w \in {x \in Sayings[h][t] : x.had}})

\* Linux's numbers for names that say the host's number k.
Heard ==
  ForEach(LAMBDA h, t : [k \in Reported[h][t] |->
     {w.linux : w \in {x \in Sayings[h][t] : x.had /\ x.host = k}}])

\* Options net.rs turns down though the host has them: it could not deliver
\* what they ask for.  Nor is "as the host likes" a thing to be set.
Refused(h, t) ==
  CASE h = "windows" /\ t = "option"
         -> {<<0, 8>>, <<0, 12>>, <<0, 13>>, <<41, 49>>, <<41, 51>>, <<41, 66>>}
    [] h # "linux" /\ t = "discovery" -> {1}
    [] OTHER -> {}

\* What may be turned down: those, and the options the host lacks.
TurnedDown ==
  ForEach(LAMBDA h, t :
     IF t \in {"option", "discovery"} THEN (Asked[h][t] \ Had[h][t]) \union Refused(h, t) ELSE {})

==============================================================================
