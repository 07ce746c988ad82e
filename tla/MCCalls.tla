------------------------------- MODULE MCCalls -------------------------------
(***************************************************************************)
(* Instances of Calls for TLC.  The columns are rows of gen.rs: errno's    *)
(* swapped, shared, missing and agreeing numbers, and the whole of poll.   *)
(***************************************************************************)
EXTENDS Calls

Errno(col) ==
  [kind |-> "enum",
   names |-> <<"EAGAIN", "EBADF", "EBADFD", "EDEADLK", "EILSEQ", "EINTR", "ETIME", "ETIMEDOUT">>,
   linux |-> <<11, 9, 77, 35, 84, 4, 62, 110>>,
   host |-> col]

Compat(col) ==
  [kind |-> "enum",
   names |-> <<"EWOULDBLOCK", "O_LARGEFILE", "RLIMIT_VMEM", "SIGPOLL">>,
   linux |-> <<11, 32768, 9, 29>>,
   host |-> col]

Junkerr ==
  [kind |-> "enum", names |-> <<"EADV">>, linux |-> <<68>>, host |-> <<-1>>]

\* The order of preference of the names above.
Preferred == <<"EINTR", "ETIMEDOUT", "EBADF", "EAGAIN", "EDEADLK">>

PollGroup(col) ==
  [kind |-> "mask",
   names |-> <<"POLLERR", "POLLHUP", "POLLIN", "POLLNVAL", "POLLOUT", "POLLPRI",
               "POLLRDBAND", "POLLRDHUP", "POLLRDNORM", "POLLWRBAND", "POLLWRNORM">>,
   linux |-> <<{3}, {4}, {0}, {5}, {2}, {1}, {7}, {13}, {6}, {9}, {8}>>,
   host |-> col]

MCTables ==
  [h \in {"windows", "xnu"} |->
    IF h = "windows"
      THEN [errno |-> Errno(<<10035, 6, 0, 1131, 582, 10004, 1460, 1460>>),
            compat |-> Compat(<<10035, 0, 127, 29>>),
            junkerr |-> Junkerr,
            preferred |-> Preferred,
            poll |-> PollGroup(<<{0}, {1}, {8, 9}, {2}, {4}, {10}, {9}, {1}, {8}, {5}, {4}>>)]
      ELSE [errno |-> Errno(<<35, 9, 9, 11, 92, 4, 101, 60>>),
            compat |-> Compat(<<35, 0, 5, 23>>),
            junkerr |-> Junkerr,
            preferred |-> Preferred,
            poll |-> PollGroup(<<{3}, {4}, {0}, {5}, {2}, {1}, {7}, {4}, {6}, {8}, {2}>>)]]

Asked == {{"POLLPRI"}, {"POLLIN", "POLLOUT"}}

\* Control messages as they stand in a buffer of one layout, one after the other.
Msg(t, n, fds) == [type |-> t, n |-> n, fds |-> fds]
Laid(list, hdr, to) ==
  FoldLeft(LAMBDA acc, m :
             [msgs |-> Append(acc.msgs, [type |-> m.type, len |-> hdr + m.n, fds |-> m.fds, at |-> acc.len]),
              len |-> acc.len + Align(hdr + m.n, to)],
           [msgs |-> <<>>, len |-> 0], list)

TwoFiles == Msg("rights", 8, <<3, 4>>)
OneFile == Msg("rights", 4, <<5>>)
Tclass == Msg("tclass", 4, <<>>)
Pktinfo == Msg("pktinfo", 20, <<>>)
Dontfrag == Msg("dontfrag", 4, <<>>)
Tos == Msg("tos", 4, <<>>)
Dstaddr == Msg("dstaddr", 4, <<>>)

Sends == {<<>>, <<OneFile>>, <<OneFile, Tclass>>, <<Pktinfo, Dontfrag, OneFile>>, <<Tclass, Tos>>}

\* Whole, without the padding of the last message, cut, and with a few bytes more.
MCOutgoing ==
  UNION {LET x == Laid(list, LinuxHdr, 8) IN
         {[src |-> x.msgs, srclen |-> n] : n \in {x.len, x.len - 4, x.len - 8} \intersect Nat} :
         list \in Sends}

Arrivals ==
  {<<>>, <<OneFile>>, <<TwoFiles, Tclass>>, <<Dstaddr, OneFile>>, <<Tclass, OneFile, TwoFiles>>,
   <<Tclass, Dstaddr, OneFile>>, <<Pktinfo, OneFile>>}

\* In XNU's layout; HostFills places them.
MCIncoming == {[i \in DOMAIN l |-> [type |-> l[i].type, len |-> BsdHdr + l[i].n, fds |-> l[i].fds, at |-> 0]] :
             l \in Arrivals}

==============================================================================
