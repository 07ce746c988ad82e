--------------------------------- MODULE Cmsg --------------------------------
(***************************************************************************)
(* Control messages between Linux's layout and XNU's: linux_to_xnu and     *)
(* xnu_to_linux of crates/cosmo-compat/src/net.rs.                         *)
(*                                                                         *)
(* A message is [type, len, fds, at]: its length as its header claims it,  *)
(* the descriptors it carries, if it is of rights, and the byte of its     *)
(* buffer it begins at.  A buffer is a sequence of messages and a number   *)
(* of bytes.  A walk that comes to a byte where no message begins finds    *)
(* there a length that lies.                                               *)
(***************************************************************************)
EXTENDS Integers, Sequences, SequencesExt

LinuxHdr == 16
BsdHdr == 12

Align(n, to) == ((n + to - 1) \div to) * to
\* Mutant: one alignment for both.
LinuxAlignBsd(n) == Align(n, 4)
LinuxAlign(n) == Align(n, 8)
BsdAlign(n) == Align(n, 4)

\* The types each side has an equivalent for on the other.
ToXnuTypes == {"rights", "tclass", "pktinfo", "hoplimit", "dontfrag"}
FromXnuTypes == {"rights", "tclass", "pktinfo", "hoplimit"}

Smaller(a, b) == IF a < b THEN a ELSE b

Message == [type : STRING, len : Nat, fds : Seq(Nat), at : Nat]

\* The message where it is written, with the length its header claims there.
Placed(m, len, at) == [m EXCEPT !.len = len, !.at = at]

\* Where a walk with CMSG_NXTHDR goes, it finds the messages.
Walkable(msgs, to) ==
  \A i \in DOMAIN msgs :
    msgs[i].at = IF i = 1 THEN 0 ELSE msgs[i - 1].at + Align(msgs[i - 1].len, to)

\* What messages say, whichever header they are behind.
Data(msgs, hdr) == [i \in DOMAIN msgs |-> [type |-> msgs[i].type, n |-> msgs[i].len - hdr, fds |-> msgs[i].fds]]

\* The descriptors a message carries, and messages of a list.
Files(m) == {m.fds[i] : i \in DOMAIN m.fds}
FdsAt(msgs, at) == UNION {Files(msgs[i]) : i \in at}
FdsOf(msgs) == FdsAt(msgs, DOMAIN msgs)

-------------------------------------------------------------------------------

\* linux_to_xnu comes to a message: one XNU cannot express, a length that lies or a
\* dst that is full refuses all.
LinuxMessage(acc, m, srclen, dstcap) ==
  LET n == m.len - LinuxHdr
      space == BsdHdr + BsdAlign(n)
      over == ~acc.ok \/ acc.off + LinuxHdr > srclen
      good == /\ m.at = acc.off
              /\ m.len \in LinuxHdr..(srclen - acc.off)
              /\ m.type \in ToXnuTypes
              /\ space <= dstcap - acc.out
  IN  CASE over -> acc
        [] ~over /\ ~good -> [acc EXCEPT !.ok = FALSE]
        [] ~over /\ good -> [acc EXCEPT !.msgs = Append(@, Placed(m, BsdHdr + n, acc.out)),
                                        !.out = @ + space,
                                        !.off = @ + LinuxAlign(m.len)]

\* linux_to_xnu: [ok, msgs, len] of what is written for the messages in the
\* first srclen bytes of src.
LinuxToXnu(src, srclen, dstcap) ==
  LET start == [ok |-> srclen = 0 \/ srclen >= LinuxHdr, msgs |-> <<>>, out |-> 0, off |-> 0]
      end == FoldLeft(LAMBDA acc, m : LinuxMessage(acc, m, srclen, dstcap), start, src)
  IN  [ok |-> end.ok, msgs |-> end.msgs, len |-> end.out]

\* Mutant: the descriptors of a message that has no room are forgotten.
DroppedFdsNone(m) == {}

\* The descriptors to close with a message that is dropped.
DroppedFds(m) == IF m.type = "rights" THEN Files(m) ELSE {}

\* Mutant: padding is written past the end of the caller's buffer.
RoomPadded(n, left) == LinuxHdr + LinuxAlign(n)

\* Mutant: the next header stands where XNU would put it.
RoomBsd(n, left) == Smaller(LinuxHdr + BsdAlign(n), left)

\* The bytes a message takes: padded, unless it is the last that fits.
Room(n, left) == Smaller(LinuxHdr + LinuxAlign(n), left)

\* xnu_to_linux comes to a message: one cut off by the end of the buffer ends it, one
\* that Linux does not know or that has no room is dropped.
XnuMessage(acc, m, srclen, dstcap) ==
  LET n == m.len - BsdHdr
      left == dstcap - acc.out
      over == acc.cut \/ acc.off + BsdHdr > srclen
      whole == m.at = acc.off /\ m.len \in BsdHdr..(srclen - acc.off)
      kept == m.type \in FromXnuTypes /\ LinuxHdr + n <= left
  IN  CASE over -> acc
        [] ~over /\ ~whole -> [acc EXCEPT !.cut = TRUE, !.trunc = TRUE]
        [] ~over /\ whole /\ kept ->
             [acc EXCEPT !.msgs = Append(@, Placed(m, LinuxHdr + n, acc.out)),
                         !.out = @ + Room(n, left),
                         !.off = @ + BsdAlign(m.len)]
        [] ~over /\ whole /\ ~kept ->
             [acc EXCEPT !.trunc = TRUE,
                         !.closed = @ \union DroppedFds(m),
                         !.off = @ + BsdAlign(m.len)]

\* xnu_to_linux: what reaches the caller's dstcap bytes of the srclen bytes the
\* host has filled, whether some did not, and the descriptors closed for it.
XnuToLinux(src, srclen, dstcap) ==
  LET start == [msgs |-> <<>>, out |-> 0, off |-> 0, cut |-> FALSE,
                trunc |-> srclen \in 1..(BsdHdr - 1), closed |-> {}]
      end == FoldLeft(LAMBDA acc, m : XnuMessage(acc, m, srclen, dstcap), start, src)
  IN  [msgs |-> end.msgs, len |-> end.out, trunc |-> end.trunc, closed |-> end.closed]

-------------------------------------------------------------------------------
(* XNU, as recvmsg of shim.rs uses it.                                        *)

NoControl == [msgs |-> <<>>, len |-> 0, cap |-> 0, cut |-> FALSE]

\* XNU comes to a message: it puts it into the buffer while there is room, and of the
\* first that has none as much as there is room for.
HostPuts(acc, m, cap) ==
  CASE acc.cut -> acc
    [] ~acc.cut /\ acc.len + m.len <= cap ->
         [acc EXCEPT !.msgs = Append(@, Placed(m, m.len, acc.len)),
                     !.len = Smaller(@ + BsdAlign(m.len), cap)]
    [] ~acc.cut /\ acc.len + m.len > cap ->
         [acc EXCEPT !.cut = TRUE, !.len = cap,
                     !.msgs = IF acc.len < cap THEN Append(@, Placed(m, m.len, acc.len)) ELSE @]

HostFills(list, cap) ==
  FoldLeft(LAMBDA acc, m : HostPuts(acc, m, cap), [NoControl EXCEPT !.cap = cap], list)

==============================================================================
