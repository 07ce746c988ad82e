--------------------------- MODULE SocketPairProofs --------------------------
(***************************************************************************)
(* The descriptor discipline of SocketPair, for any number of callers and  *)
(* of descriptors and any backlog.                                         *)
(***************************************************************************)
EXTENDS SocketPair, SequenceTheorems, TLAPS

\* How many Socket values make_pair holds at each of its calls.
Count(c) ==
  /\ pc[c] \in {"idle", "listener", "done"} => Len(held[c]) = 0
  /\ pc[c] \in {"bind", "listen", "name_listener", "client"} => Len(held[c]) = 1
  /\ pc[c] \in {"connect", "name_client", "accept", "options"} => Len(held[c]) = 2
  /\ pc[c] \in {"compare", "drop_listener"} => Len(held[c]) = 3

\* The descriptors of a call are those of its Socket values and those it published.
Owner(c) ==
  /\ \A n \in Fds : n \in OwnedBy(c) => (\E i \in DOMAIN held[c] : held[c][i] = n) \/ n \in Result(c)
  /\ \A i \in DOMAIN held[c] : held[c][i] \in OwnedBy(c)
  /\ \A i, j \in DOMAIN held[c] : i # j => held[c][i] # held[c][j]

\* Nothing is published but by a call that succeeded.
Pending(c) ==
  /\ pc[c] # "done" \/ ret[c] # 0 => sv[c] = <<Unset, Unset>>
  /\ pc[c] = "done" /\ ret[c] = 0 => Result(c) \subseteq OwnedBy(c) /\ sv[c][1] # sv[c][2]
  /\ pc[c] = "unwind" => errno[c] = "setup"
  /\ pc[c] = "done" /\ ret[c] # 0 => errno[c] \in {"EFAULT", "setup"}

\* What is known of the connection, call by call.
Conn(c) ==
  /\ pc[c] \in {"name_client", "accept", "compare", "drop_listener"} => fd[held[c][2]].conn = c
  /\ pc[c] = "drop_listener" => fd[held[c][3]].conn = c
  /\ pc[c] = "options" => fd[held[c][1]].conn = c /\ fd[held[c][2]].conn = c
  /\ pc[c] = "done" /\ ret[c] = 0 => \A n \in Result(c) : fd[n].conn = c

CallInv(c) == Count(c) /\ Owner(c) /\ Pending(c) /\ Conn(c)

\* The inductive invariant.
PairInv == TypeOK /\ \A c \in Callers : CallInv(c)

-------------------------------------------------------------------------------
(* Sequences of Socket values *)

\* What is left after the newest Socket is dropped.
LEMMA OlderProperties ==
  ASSUME NEW S, NEW s \in Seq(S), s # <<>>
  PROVE  /\ Older(s) \in Seq(S) 
         /\ DOMAIN Older(s) = 1..(Len(s)-1)
         /\ Len(s) \in DOMAIN s
         /\ DOMAIN s = 1 .. Len(s)
         /\ \A i \in 1..(Len(s)-1) : Older(s)[i] = s[i] /\ i \in DOMAIN s /\ i # Len(s)
         /\ \A i \in DOMAIN s : i # Len(s) => i \in 1..(Len(s)-1)
<1>1. Len(s) \in Nat /\ Len(s) # 0 /\ DOMAIN s = 1..Len(s) /\ \A i \in 1..Len(s) : s[i] \in S
  OBVIOUS
<1>2. DEFINE n == Len(s)
<1>3. n-1 \in Int /\ n \in Nat /\ n # 0
  BY <1>1 
<1>4. \A i \in 1..(n-1) : i \in 1..n /\ i # n
  <2> HIDE DEF n
  <2>. QED BY <1>3
<1>5. n \in 1..n /\ \A i \in 1..n : i # n => i \in 1..(n-1)
  <2> HIDE DEF n
  <2>. QED BY <1>3
<1>6. \A i \in 1..(n-1) : s[i] \in S
  BY <1>4, <1>1
<1>7. /\ SubSeq(s,1,n-1) \in Seq(S)
      /\ Len(SubSeq(s,1,n-1)) = IF 1<=n-1 THEN n-1-1+1 ELSE 0
      /\ \A i \in 1 .. n-1-1+1 : SubSeq(s,1,n-1)[i] = s[1+i-1]
  <2> HIDE DEF n
  <2>. QED BY SubSeqProperties, <1>3, <1>6
<1>8. Len(SubSeq(s,1,n-1)) = n-1 /\ \A i \in 1..n-1 : SubSeq(s,1,n-1)[i] = s[i]
  <2> HIDE DEF n
  <2>. QED BY <1>7, <1>3
<1>9. DOMAIN SubSeq(s,1,n-1) = 1..(n-1)
  <2> HIDE DEF n
  <2>. QED BY <1>7, <1>8
<1>. QED BY <1>1, <1>4, <1>5, <1>7, <1>8, <1>9 DEF Older

\* What is left of three Sockets after the listener is dropped.
LEMMA TailOfThree ==
  ASSUME NEW S, NEW s \in Seq(S), Len(s) = 3
  PROVE  /\ Tail(s) \in Seq(S)
         /\ Len(Tail(s)) = 2
         /\ Tail(s)[1] = s[2]
         /\ Tail(s)[2] = s[3]
<1>1. s # <<>>
  OBVIOUS
<1>2. /\ Tail(s) \in Seq(S)
      /\ Len(Tail(s)) = Len(s) - 1
      /\ \A i \in 1..Len(Tail(s)) : Tail(s)[i] = s[i+1]
  BY HeadTailProperties, <1>1, Zenon
<1>3. Len(Tail(s)) = 2
  BY <1>2
<1>4. \A i \in 1..2 : Tail(s)[i] = s[i+1]
  BY <1>2, <1>3, Zenon
<1>5. 1 \in 1..2 /\ 2 \in 1..2 /\ 1 + 1 = 2 /\ 2 + 1 = 3
  OBVIOUS
<1>6. Tail(s)[1] = s[1+1] /\ Tail(s)[2] = s[2+1]
  BY <1>4, <1>5, Zenon
<1>. QED BY <1>2, <1>3, <1>5, <1>6, Zenon

\* A Socket declared after the others.
LEMMA AppendDomain ==
  ASSUME NEW S, NEW s \in Seq(S), NEW n \in S
  PROVE  /\ Append(s, n) \in Seq(S)
         /\ DOMAIN Append(s, n) = DOMAIN s \union {Len(s)+1}
         /\ Append(s, n)[Len(s)+1] = n
         /\ \A i \in DOMAIN s : Append(s, n)[i] = s[i]
         /\ Len(s)+1 \notin DOMAIN s
<1>1. Len(s) \in Nat /\ DOMAIN s = 1..Len(s)
  OBVIOUS
<1>2. /\ Append(s, n) \in Seq(S)
      /\ Len(Append(s,n)) = Len(s)+1
      /\ \A i \in 1..Len(s) : Append(s,n)[i] = s[i]
      /\ Append(s,n)[Len(s)+1] = n
  BY AppendProperties
<1>3. DOMAIN Append(s, n) = 1..(Len(s)+1)
  BY <1>2
<1>4. \A k \in Nat : 1..(k+1) = (1..k) \union {k+1} /\ k+1 \notin 1..k
  OBVIOUS
<1>5. 1..(Len(s)+1) = (1..Len(s)) \union {Len(s)+1} /\ Len(s)+1 \notin 1..Len(s)
  BY <1>4, <1>1
<1>. QED BY <1>1, <1>2, <1>3, <1>5

\* The same, by how many there were.
LEMMA AppendShort ==
  ASSUME NEW S, NEW s \in Seq(S), NEW n \in S PROVE  
  /\ Len(s) = 0 => Len(Append(s, n)) = 1
  /\ Len(s) = 1 => Len(Append(s, n)) = 2 /\ Append(s, n)[1] = s[1] /\ Append(s, n)[2] = n
  /\ Len(s) = 2 => Len(Append(s, n)) = 3 /\ Append(s, n)[1] = s[1] /\ Append(s, n)[2] = s[2] /\ Append(s, n)[3] = n
<1>1. /\ Append(s, n) \in Seq(S)
      /\ Len(Append(s,n)) = Len(s)+1
      /\ \A i \in 1..Len(s) : Append(s,n)[i] = s[i]
      /\ Append(s,n)[Len(s)+1] = n
  BY AppendProperties
<1>2. 0+1=1 /\ 1+1=2 /\ 2+1=3 /\ 1 \in 1..1 /\ 1 \in 1..2 /\ 2 \in 1..2
  OBVIOUS
<1>. QED BY <1>1, <1>2

\* The indices of two and of three Sockets.
LEMMA Indices ==
  ASSUME NEW S, NEW s \in Seq(S)
  PROVE  /\ Len(s) = 0 => DOMAIN s = {}
         /\ Len(s) = 1 => DOMAIN s = {1}
         /\ Len(s) = 2 => DOMAIN s = {1, 2}
         /\ Len(s) = 3 => DOMAIN s = {1, 2, 3}
<1>1. DOMAIN s = 1..Len(s)
  OBVIOUS
<1>2. 1..0 = {} /\ 1..1 = {1} /\ 1..2 = {1, 2} /\ 1..3 = {1, 2, 3}
  OBVIOUS
<1>. QED BY <1>1, <1>2

-------------------------------------------------------------------------------
(* Steps of one caller against the others *)

\* What a step of o leaves alone: the call of every other thread and the
\* descriptors of everyone else.
Frame(o) ==
  /\ \A d \in Callers \ {o} :
       /\ pc'[d] = pc[d] /\ held'[d] = held[d] /\ sv'[d] = sv[d]
       /\ errno'[d] = errno[d] /\ ret'[d] = ret[d]
  /\ \A n \in Fds : fd'[n] # fd[n] =>
       /\ fd[n] = Free \/ fd[n].owner = o
       /\ fd'[n] = Free \/ fd'[n].owner = o

\* A step that touches only o's descriptors keeps the invariant of other callers.
LEMMA OthersKeep ==
  ASSUME NEW o, NEW d \in Callers \ {o}, TypeOK, TypeOK', Frame(o), CallInv(d)
  PROVE  CallInv(d)'
<1>1. \A n \in OwnedBy(d) : fd'[n] = fd[n]
  BY DEF Frame, OwnedBy
<1>2. OwnedBy(d)' = OwnedBy(d)
  BY <1>1 DEF Frame, OwnedBy
<1>3. /\ pc'[d] = pc[d] /\ held'[d] = held[d] /\ sv'[d] = sv[d]
      /\ errno'[d] = errno[d] /\ ret'[d] = ret[d]
  BY DEF Frame
<1>4. Count(d)'
  BY <1>3 DEF CallInv, Count
<1>5. Owner(d)'
  BY <1>2, <1>3 DEF CallInv, Owner, Result
<1>6. Pending(d)'
  BY <1>2, <1>3 DEF CallInv, Pending, Result
<1>7. \A i \in DOMAIN held[d] : fd'[held[d][i]] = fd[held[d][i]]
  BY <1>1 DEF CallInv, Owner
<1>8. held[d] \in Seq(Fds)
  BY DEF TypeOK
<1>9. /\ pc[d] \in {"name_client", "accept", "options"} => DOMAIN held[d] = {1, 2}
      /\ pc[d] \in {"compare", "drop_listener"} => DOMAIN held[d] = {1, 2, 3}
  BY <1>8, Indices DEF CallInv, Count
<1>10. pc[d] = "done" /\ ret[d] = 0 => \A n \in Result(d) : fd'[n] = fd[n]
  BY <1>1 DEF CallInv, Pending
<1>11. Conn(d)'
  BY <1>3, <1>7, <1>9, <1>10 DEF CallInv, Conn, Result
<1>. QED BY <1>4, <1>5, <1>6, <1>11 DEF CallInv

-------------------------------------------------------------------------------
(* One lemma per action *)

\* A new descriptor is well formed.
LEMMA OpenFdType ==
  ASSUME NEW o \in Callers \union {"file"}, NEW k \in Callers \union {Foreign, Free}
  PROVE  /\ OpenFd(o, k) \in OpenFds
         /\ OpenFd(o, k) # Free
         /\ OpenFd(o, k).owner = o
         /\ OpenFd(o, k).conn = k
<1>1. OpenFd(o, k) \in OpenFds
  BY DEF OpenFd, OpenFds
<1>. QED BY <1>1, NamesAssumption DEF OpenFd

\* An Err keeps everything the call holds; the Sockets are dropped next.
LEMMA FailStep ==
  ASSUME NEW c \in Callers, TypeOK, CallInv(c), Fail(c), pc[c] # "done",
         UNCHANGED <<fd, ask, held, queue, sv, ret>>,
         opts' \in [Callers -> Seq([end : {1, 2}, opt : {"nodelay", "nonblock", "clear_cloexec"}])]
  PROVE  TypeOK' /\ CallInv(c)' /\ Frame(c)
<1>1. pc'[c] = "unwind" /\ errno'[c] = "setup"
  BY DEF TypeOK, Fail, Goto
<1>2. TypeOK'
  BY DEF TypeOK, Fail, Goto, Errnos, Steps
<1>3. Frame(c)
  BY DEF TypeOK, Fail, Goto, Frame
<1>4. Count(c)' /\ Conn(c)'
  BY <1>1 DEF Count, Conn
<1>5. Owner(c)' /\ Pending(c)'
  BY <1>1 DEF CallInv, Owner, Pending, OwnedBy, Result
<1>. QED BY <1>2, <1>3, <1>4, <1>5 DEF CallInv

\* A step that only moves on to the next call.
LEMMA GotoStep ==
  ASSUME NEW c \in Callers, TypeOK, NEW next \in Steps, Goto(c, next),
         UNCHANGED <<fd, ask, held, queue, opts, sv, errno, ret>>
  PROVE  TypeOK' /\ Frame(c) /\ pc'[c] = next
BY DEF TypeOK, Goto, Frame

\* A Socket made at "listener" or at "client".
LEMMA MakeSocketStep ==
  ASSUME NEW c \in Callers, TypeOK, CallInv(c), NEW at, NEW next,
         <<at, next>> \in {<<"listener", "bind">>, <<"client", "connect">>},
         MakeSocket(c, at, next)
  PROVE  TypeOK' /\ CallInv(c)' /\ Frame(c)
<1>0. /\ pc[c] = at /\ at # "done" /\ next \in Steps /\ at # "unwind"
      /\ \/ at = "listener" /\ next = "bind"
         \/ at = "client" /\ next = "connect"
  BY DEF MakeSocket, Steps
<1>1. CASE Fail(c) /\ UNCHANGED <<fd, held>>
  BY <1>0, <1>1, FailStep DEF MakeSocket, TypeOK
<1>2. CASE Goto(c, next) /\ UNCHANGED errno /\ \E n \in FreeFds :
             /\ fd' = [fd EXCEPT ![n] = OpenFd(c, Free)]
             /\ held' = [held EXCEPT ![c] = Append(@, n)]
  <2>1. PICK n \in FreeFds : /\ fd' = [fd EXCEPT ![n] = OpenFd(c, Free)]
                             /\ held' = [held EXCEPT ![c] = Append(@, n)]
    BY <1>2
  <2>2. n \in Fds /\ fd[n] = Free /\ held[c] \in Seq(Fds)
    BY DEF FreeFds, TypeOK
  <2>3. /\ Append(held[c], n) \in Seq(Fds)
        /\ DOMAIN Append(held[c], n) = DOMAIN held[c] \union {Len(held[c]) + 1}
        /\ Append(held[c], n)[Len(held[c]) + 1] = n
        /\ \A i \in DOMAIN held[c] : Append(held[c], n)[i] = held[c][i]
    BY <2>2, AppendDomain
  <2>4. /\ held'[c] = Append(held[c], n) /\ fd'[n] = OpenFd(c, Free) /\ pc'[c] = next
        /\ \A m \in Fds \ {n} : fd'[m] = fd[m]
        /\ sv' = sv /\ ret' = ret /\ errno' = errno
    BY <1>2, <2>1, <2>2 DEF TypeOK, Goto, MakeSocket
  <2>5. TypeOK'
    <3>1. fd' \in [Fds -> OpenFds \union {Free}]
      BY <2>1, <2>2, OpenFdType DEF TypeOK
    <3>2. held' \in [Callers -> Seq(Fds)]
      BY <2>1, <2>3 DEF TypeOK
    <3>. QED BY <1>0, <1>2, <3>1, <3>2 DEF MakeSocket, TypeOK, Goto
  <2>6. Frame(c)
    <3>1. \A m \in Fds : fd'[m] # fd[m] => m = n
      BY <2>4
    <3>. QED BY <1>2, <2>1, <2>2, <2>4, <3>1, OpenFdType DEF MakeSocket, TypeOK, Goto, Frame
  <2>7. Count(c)'
    <3>1. at = "listener" => Len(held[c]) = 0
      BY <1>0 DEF CallInv, Count
    <3>2. at = "client" => Len(held[c]) = 1
      BY <1>0 DEF CallInv, Count
    <3>. QED BY <1>0, <2>2, <2>4, <3>1, <3>2, AppendShort DEF Count
  <2>8. OwnedBy(c)' = OwnedBy(c) \union {n} /\ n \notin OwnedBy(c)
    BY <2>2, <2>4, OpenFdType DEF OwnedBy
  <2>9. Owner(c)'
    <3>1. \A m \in Fds : m \in OwnedBy(c)' =>
            (\E i \in DOMAIN held'[c] : held'[c][i] = m) \/ m \in Result(c)'
      BY <2>3, <2>4, <2>8 DEF CallInv, Owner, Result
    <3>2. \A i \in DOMAIN held'[c] : held'[c][i] \in OwnedBy(c)'
      BY <2>3, <2>4, <2>8 DEF CallInv, Owner
    <3>3. \A i, j \in DOMAIN held'[c] : i # j => held'[c][i] # held'[c][j]
      BY <2>3, <2>4, <2>8 DEF CallInv, Owner
    <3>. QED BY <3>1, <3>2, <3>3 DEF Owner
  <2>10. Pending(c)' /\ Conn(c)'
    BY <1>0, <2>4 DEF CallInv, Pending, Conn, Result
  <2>. QED BY <2>5, <2>6, <2>7, <2>9, <2>10 DEF CallInv
<1>. QED BY <1>1, <1>2 DEF MakeSocket

\* bind, listen and the two getsockname.
LEMMA PrepareStep ==
  ASSUME NEW c \in Callers, TypeOK, CallInv(c), NEW at, NEW next,
         <<at, next>> \in {<<"bind", "listen">>, <<"listen", "name_listener">>,
                           <<"name_listener", "client">>, <<"name_client", "accept">>},
         Prepare(c, at, next)
  PROVE  TypeOK' /\ CallInv(c)' /\ Frame(c)
<1>0. /\ pc[c] = at /\ at # "done" /\ next \in Steps
      /\ \/ at = "bind" /\ next = "listen"
         \/ at = "listen" /\ next = "name_listener"
         \/ at = "name_listener" /\ next = "client"
         \/ at = "name_client" /\ next = "accept"
  BY DEF Prepare, Steps
<1>1. CASE Fail(c)
  BY <1>0, <1>1, FailStep DEF Prepare, TypeOK
<1>2. CASE Goto(c, next) /\ UNCHANGED errno
  <2>1. TypeOK' /\ Frame(c) /\ pc'[c] = next
    BY <1>0, <1>2, GotoStep DEF Prepare
  <2>2. Count(c)'
    BY <1>0, <2>1 DEF CallInv, Count, Prepare
  <2>3. Owner(c)'
    BY DEF CallInv, Owner, OwnedBy, Result, Prepare
  <2>4. Pending(c)' /\ Conn(c)'
    BY <1>0, <2>1 DEF CallInv, Pending, Conn, Prepare
  <2>. QED BY <2>1, <2>2, <2>3, <2>4 DEF CallInv
<1>. QED BY <1>1, <1>2 DEF Prepare

\* The client becomes an end of the call's own connection.
LEMMA ConnectStep ==
  ASSUME NEW c \in Callers, TypeOK, CallInv(c), Connect(c)
  PROVE  TypeOK' /\ CallInv(c)' /\ Frame(c)
<1>0. pc[c] = "connect"
  BY DEF Connect
<1>1. CASE Fail(c) /\ UNCHANGED <<fd, queue>>
  BY <1>0, <1>1, FailStep DEF Connect, TypeOK
<1>2. CASE /\ Len(queue[c]) < Backlog
           /\ queue' = [queue EXCEPT ![c] = Append(@, c)]
           /\ fd' = [fd EXCEPT ![held[c][2]].conn = c]
           /\ Goto(c, "name_client")
           /\ UNCHANGED errno
  <2>0. DOMAIN held[c] = {1, 2} /\ Len(held[c]) = 2
    BY <1>0, Indices DEF CallInv, Count, TypeOK
  <2>1. PICK n \in Fds : n = held[c][2]
    BY <2>0 DEF CallInv, Owner, OwnedBy
  <2>2. n \in OwnedBy(c) /\ fd[n] \in OpenFds /\ fd[n].owner = c
    BY <2>0, <2>1 DEF CallInv, Owner, OwnedBy, TypeOK
  <2>3. /\ [fd[n] EXCEPT !.conn = c] \in OpenFds
        /\ [fd[n] EXCEPT !.conn = c].conn = c
        /\ [fd[n] EXCEPT !.conn = c].owner = c
    BY <2>2 DEF OpenFds
  <2>4. /\ fd' = [fd EXCEPT ![n] = [fd[n] EXCEPT !.conn = c]]
        /\ pc' = [pc EXCEPT ![c] = "name_client"] /\ pc'[c] = "name_client"
        /\ held' = held /\ sv' = sv /\ ret' = ret /\ errno' = errno /\ ask' = ask /\ opts' = opts
    BY <1>2, <2>1 DEF Connect, Goto, TypeOK
  <2>5. fd' \in [Fds -> OpenFds \union {Free}]
    BY <2>3, <2>4 DEF TypeOK
  <2>6. /\ queue' \in [Callers -> Seq(Callers \union {Foreign})]
        /\ \A d \in Callers : Len(queue'[d]) <= Backlog
    <3>1. queue[c] \in Seq(Callers \union {Foreign}) /\ Len(queue[c]) \in Nat
      BY DEF TypeOK
    <3>2. /\ Append(queue[c], c) \in Seq(Callers \union {Foreign})
          /\ Len(Append(queue[c], c)) <= Backlog
      BY <1>2, <3>1, BacklogAssumption
    <3>. QED BY <1>2, <3>2 DEF TypeOK
  <2>7. TypeOK'
    BY <2>4, <2>5, <2>6 DEF TypeOK, Steps
  <2>8. fd'[n].owner = c /\ fd'[n].conn = c /\ fd'[n] # Free /\ \A m \in Fds \ {n} : fd'[m] = fd[m]
    BY <2>3, <2>4, NamesAssumption DEF TypeOK
  <2>9. Frame(c)
    BY <2>2, <2>4, <2>8 DEF Frame, TypeOK
  <2>10. OwnedBy(c)' = OwnedBy(c)
    BY <2>2, <2>8 DEF OwnedBy
  <2>11. Owner(c)'
    BY <2>4, <2>10 DEF CallInv, Owner, Result
  <2>12. Count(c)' /\ Pending(c)' /\ Conn(c)'
    BY <1>0, <2>0, <2>1, <2>4, <2>8 DEF CallInv, Count, Pending, Conn
  <2>. QED BY <2>7, <2>9, <2>11, <2>12 DEF CallInv
<1>. QED BY <1>1, <1>2 DEF Connect

\* The peer is whatever connection was queued first.
LEMMA AcceptStep ==
  ASSUME NEW c \in Callers, TypeOK, CallInv(c), Accept(c)
  PROVE  TypeOK' /\ CallInv(c)' /\ Frame(c)
<1>0. pc[c] = "accept"
  BY DEF Accept
<1>1. CASE Fail(c) /\ UNCHANGED <<fd, held, queue>>
  BY <1>0, <1>1, FailStep DEF Accept, TypeOK
<1>2. CASE /\ \E n \in FreeFds :
                /\ fd' = [fd EXCEPT ![n] = OpenFd(c, Head(queue[c]))]
                /\ held' = [held EXCEPT ![c] = Append(@, n)]
           /\ queue' = [queue EXCEPT ![c] = Tail(@)]
           /\ Goto(c, "compare")
           /\ UNCHANGED errno
  <2>1. PICK n \in FreeFds : /\ fd' = [fd EXCEPT ![n] = OpenFd(c, Head(queue[c]))]
                             /\ held' = [held EXCEPT ![c] = Append(@, n)]
    BY <1>2
  <2>2. n \in Fds /\ fd[n] = Free /\ held[c] \in Seq(Fds)
    BY DEF FreeFds, TypeOK
  <2>3. /\ Append(held[c], n) \in Seq(Fds)
        /\ DOMAIN Append(held[c], n) = DOMAIN held[c] \union {Len(held[c]) + 1}
        /\ Append(held[c], n)[Len(held[c]) + 1] = n
        /\ \A i \in DOMAIN held[c] : Append(held[c], n)[i] = held[c][i]
    BY <2>2, AppendDomain
  <2>4. /\ queue[c] # <<>> /\ queue[c] \in Seq(Callers \union {Foreign})
        /\ Head(queue[c]) \in Callers \union {Foreign}
        /\ Tail(queue[c]) \in Seq(Callers \union {Foreign})
        /\ Len(Tail(queue[c])) = Len(queue[c]) - 1
    <3>1. queue[c] # <<>> /\ queue[c] \in Seq(Callers \union {Foreign})
      BY DEF Accept, TypeOK
    <3>. QED BY <3>1, HeadTailProperties
  <2>5. Len(Tail(queue[c])) <= Backlog
    <3>1. Len(queue[c]) \in Nat /\ Len(queue[c]) <= Backlog
      BY <2>4 DEF TypeOK
    <3>. QED BY <3>1, <2>4, BacklogAssumption
  <2>6. PICK r \in OpenFds : r = OpenFd(c, Head(queue[c])) /\ r # Free /\ r.owner = c
    BY <2>4, OpenFdType
  <2>7. /\ held'[c] = Append(held[c], n) /\ fd'[n] = r /\ pc'[c] = "compare"
        /\ \A m \in Fds \ {n} : fd'[m] = fd[m]
        /\ sv' = sv /\ ret' = ret /\ errno' = errno
    BY <1>2, <2>1, <2>2, <2>6 DEF TypeOK, Goto, Accept
  <2>8. TypeOK'
    <3>1. fd' \in [Fds -> OpenFds \union {Free}]
      BY <2>1, <2>2, <2>6 DEF TypeOK
    <3>2. held' \in [Callers -> Seq(Fds)]
      BY <2>1, <2>3 DEF TypeOK
    <3>3. /\ queue' \in [Callers -> Seq(Callers \union {Foreign})]
          /\ \A d \in Callers : Len(queue'[d]) <= Backlog
      BY <1>2, <2>4, <2>5 DEF TypeOK
    <3>. QED BY <1>2, <3>1, <3>2, <3>3 DEF Accept, TypeOK, Goto, Steps
  <2>9. Frame(c)
    <3>1. \A m \in Fds : fd'[m] # fd[m] => m = n
      BY <2>7
    <3>. QED BY <1>2, <2>1, <2>2, <2>6, <2>7, <3>1 DEF Accept, TypeOK, Goto, Frame
  <2>10. Len(held[c]) = 2 /\ DOMAIN held[c] = {1, 2}
    BY <1>0, <2>2, Indices DEF CallInv, Count
  <2>11. Count(c)'
    BY <2>2, <2>7, <2>10, AppendShort DEF Count
  <2>12. OwnedBy(c)' = OwnedBy(c) \union {n} /\ n \notin OwnedBy(c)
    BY <2>2, <2>6, <2>7 DEF OwnedBy
  <2>13. Owner(c)'
    <3>1. \A m \in Fds : m \in OwnedBy(c)' =>
            (\E i \in DOMAIN held'[c] : held'[c][i] = m) \/ m \in Result(c)'
      BY <2>3, <2>7, <2>12 DEF CallInv, Owner, Result
    <3>2. \A i \in DOMAIN held'[c] : held'[c][i] \in OwnedBy(c)'
      BY <2>3, <2>7, <2>12 DEF CallInv, Owner
    <3>3. \A i, j \in DOMAIN held'[c] : i # j => held'[c][i] # held'[c][j]
      BY <2>3, <2>7, <2>12 DEF CallInv, Owner
    <3>. QED BY <3>1, <3>2, <3>3 DEF Owner
  <2>14. Pending(c)'
    BY <1>0, <2>7 DEF CallInv, Pending
  <2>15. Conn(c)'
    <3>1. held[c][2] \in OwnedBy(c) /\ held'[c][2] = held[c][2]
      BY <2>3, <2>7, <2>10 DEF CallInv, Owner
    <3>2. fd'[held[c][2]] = fd[held[c][2]]
      BY <2>7, <2>12, <3>1 DEF OwnedBy
    <3>. QED BY <1>0, <2>7, <3>1, <3>2 DEF CallInv, Conn
  <2>. QED BY <2>8, <2>9, <2>11, <2>13, <2>14, <2>15 DEF CallInv
<1>. QED BY <1>1, <1>2 DEF Accept

\* Going on means that the peer is an end of the client's connection.
LEMMA CompareStep ==
  ASSUME NEW c \in Callers, TypeOK, CallInv(c), Compare(c)
  PROVE  TypeOK' /\ CallInv(c)' /\ Frame(c)
<1>0. pc[c] = "compare"
  BY DEF Compare
<1>1. CASE Fail(c)
  BY <1>0, <1>1, FailStep DEF Compare, TypeOK
<1>2. CASE fd[held[c][3]].conn = fd[held[c][2]].conn /\ Goto(c, "drop_listener") /\ UNCHANGED errno
  <2>1. TypeOK' /\ Frame(c) /\ pc'[c] = "drop_listener"
    BY <1>2, GotoStep DEF Compare, Steps
  <2>2. Count(c)' /\ Pending(c)' /\ Conn(c)'
    BY <1>0, <1>2, <2>1 DEF CallInv, Count, Pending, Conn, Compare
  <2>3. Owner(c)'
    BY DEF CallInv, Owner, OwnedBy, Result, Compare
  <2>. QED BY <2>1, <2>2, <2>3 DEF CallInv
<1>. QED BY <1>1, <1>2 DEF Compare

\* The options are a sequence of the three kinds, for ends 1 and 2.
LEMMA OptionPlanType ==
  ASSUME NEW a
  PROVE  OptionPlan(a) \in Seq([end : {1, 2}, opt : {"nodelay", "nonblock", "clear_cloexec"}])
<1> DEFINE Os == [end : {1, 2}, opt : {"nodelay", "nonblock", "clear_cloexec"}]
<1>1. ASSUME NEW i \in {1, 2}
      PROVE  /\ <<[end |-> i, opt |-> "nodelay"]>> \in Seq(Os)
             /\ <<[end |-> i, opt |-> "nonblock"]>> \in Seq(Os)
             /\ <<[end |-> i, opt |-> "clear_cloexec"]>> \in Seq(Os)
  <2>1. /\ [end |-> i, opt |-> "nodelay"] \in Os
        /\ [end |-> i, opt |-> "nonblock"] \in Os
        /\ [end |-> i, opt |-> "clear_cloexec"] \in Os
    OBVIOUS
  <2> HIDE DEF Os
  <2>. QED BY <2>1
<1>2. <<>> \in Seq(Os)
  OBVIOUS
<1>3. ASSUME NEW s \in Seq(Os), NEW t \in Seq(Os)
      PROVE  s \o t \in Seq(Os)
  <2> HIDE DEF Os
  <2>. QED BY <1>3
<1> HIDE DEF Os
<1>4. \A i \in {1, 2} :
        <<[end |-> i, opt |-> "nodelay"]>>
          \o (IF a.nonblock THEN <<[end |-> i, opt |-> "nonblock"]>> ELSE <<>>)
          \o (IF a.cloexec THEN <<>> ELSE <<[end |-> i, opt |-> "clear_cloexec"]>>) \in Seq(Os)
  <2> TAKE i \in {1, 2}
  <2>1. (IF a.nonblock THEN <<[end |-> i, opt |-> "nonblock"]>> ELSE <<>>) \in Seq(Os)
    BY <1>1, <1>2
  <2>2. (IF a.cloexec THEN <<>> ELSE <<[end |-> i, opt |-> "clear_cloexec"]>>) \in Seq(Os)
    BY <1>1, <1>2
  <2>. QED BY <1>1, <1>3, <2>1, <2>2
<1>5. OptionPlan(a) \in Seq(Os)
  BY <1>3, <1>4 DEF OptionPlan
<1>. QED BY <1>5 DEF Os

\* The listener goes; client and peer become the first and the second.
LEMMA DropListenerStep ==
  ASSUME NEW c \in Callers, TypeOK, CallInv(c), DropListener(c)
  PROVE  TypeOK' /\ CallInv(c)' /\ Frame(c)
<1>1. /\ pc[c] = "drop_listener" /\ held[c] \in Seq(Fds)
      /\ Len(held[c]) = 3 /\ DOMAIN held[c] = {1, 2, 3}
  BY Indices DEF DropListener, TypeOK, CallInv, Count
<1>2. /\ Tail(held[c]) \in Seq(Fds) /\ Len(Tail(held[c])) = 2
      /\ Tail(held[c])[1] = held[c][2] /\ Tail(held[c])[2] = held[c][3]
      /\ DOMAIN Tail(held[c]) = {1, 2}
  BY <1>1, TailOfThree, Indices
<1>3. PICK n \in Fds : n = held[c][1] /\ n \in OwnedBy(c)
  BY <1>1 DEF CallInv, Owner, OwnedBy
<1>4. /\ fd' = [fd EXCEPT ![n] = Free] /\ held'[c] = Tail(held[c]) /\ pc'[c] = "options"
      /\ sv' = sv /\ ret' = ret /\ errno' = errno
  BY <1>3 DEF DropListener, Goto, TypeOK
<1>5. TypeOK'
  <2>1. fd' \in [Fds -> OpenFds \union {Free}]
    BY <1>4 DEF TypeOK
  <2>2. held' \in [Callers -> Seq(Fds)]
    BY <1>2 DEF TypeOK, DropListener
  <2>3. /\ queue' \in [Callers -> Seq(Callers \union {Foreign})]
        /\ \A d \in Callers : Len(queue'[d]) <= Backlog
    <3>1. Len(<<>>) <= Backlog /\ <<>> \in Seq(Callers \union {Foreign})
      BY BacklogAssumption
    <3>. QED BY <3>1 DEF TypeOK, DropListener
  <2>4. opts' \in [Callers -> Seq([end : {1, 2}, opt : {"nodelay", "nonblock", "clear_cloexec"}])]
    BY OptionPlanType DEF TypeOK, DropListener
  <2>. QED BY <2>1, <2>2, <2>3, <2>4 DEF DropListener, TypeOK, Goto, Steps
<1>6. Frame(c)
  BY <1>3, <1>4 DEF DropListener, Goto, TypeOK, Frame, OwnedBy
<1>7. OwnedBy(c)' = OwnedBy(c) \ {n}
  BY <1>3, <1>4 DEF OwnedBy, TypeOK
<1>8. /\ held[c][2] \in OwnedBy(c) /\ held[c][3] \in OwnedBy(c) /\ held[c][2] # held[c][3]
      /\ held[c][2] # n /\ held[c][3] # n
      /\ \A m \in OwnedBy(c) : m \in {n, held[c][2], held[c][3]} \/ m \in Result(c)
  <2>1. 1 \in DOMAIN held[c] /\ 2 \in DOMAIN held[c] /\ 3 \in DOMAIN held[c]
    BY <1>1
  <2>2. /\ held[c][2] \in OwnedBy(c) /\ held[c][3] \in OwnedBy(c)
        /\ held[c][2] # held[c][3] /\ held[c][2] # n /\ held[c][3] # n
    BY <1>3, <2>1 DEF CallInv, Owner
  <2>3. ASSUME NEW m \in OwnedBy(c), m \notin Result(c)
        PROVE  m \in {n, held[c][2], held[c][3]}
    <3>1. PICK i \in DOMAIN held[c] : held[c][i] = m
      BY <2>3 DEF CallInv, Owner, OwnedBy
    <3>. QED BY <1>1, <1>3, <3>1
  <2>. QED BY <2>2, <2>3
<1>9. Owner(c)'
  <2>1. \A m \in Fds : m \in OwnedBy(c)' =>
          (\E i \in DOMAIN held'[c] : held'[c][i] = m) \/ m \in Result(c)'
    <3>1. \A m \in OwnedBy(c)' : m \in {held[c][2], held[c][3]} \/ m \in Result(c)
      BY <1>7, <1>8
    <3>2. 1 \in DOMAIN held'[c] /\ 2 \in DOMAIN held'[c]
      BY <1>2, <1>4
    <3>. QED BY <1>2, <1>4, <3>1, <3>2 DEF Result
  <2>2. \A i \in DOMAIN held'[c] : held'[c][i] \in OwnedBy(c)'
    BY <1>2, <1>4, <1>7, <1>8
  <2>3. \A i, j \in DOMAIN held'[c] : i # j => held'[c][i] # held'[c][j]
    BY <1>2, <1>4, <1>8
  <2>. QED BY <2>1, <2>2, <2>3 DEF Owner
<1>10. Count(c)' /\ Pending(c)'
  BY <1>1, <1>2, <1>4 DEF CallInv, Count, Pending
<1>11. Conn(c)'
  <2>1. fd'[held[c][2]] = fd[held[c][2]] /\ fd'[held[c][3]] = fd[held[c][3]]
    BY <1>4, <1>8 DEF OwnedBy, TypeOK
  <2>. QED BY <1>1, <1>2, <1>4, <2>1 DEF CallInv, Conn
<1>. QED BY <1>5, <1>6, <1>9, <1>10, <1>11 DEF CallInv

\* An option changes flags, neither the owner nor the connection.
LEMMA SetOptionStep ==
  ASSUME NEW c \in Callers, TypeOK, CallInv(c), SetOption(c)
  PROVE  TypeOK' /\ CallInv(c)' /\ Frame(c)
<1> DEFINE Os == [end : {1, 2}, opt : {"nodelay", "nonblock", "clear_cloexec"}]
<1>0. /\ pc[c] = "options" /\ opts[c] # <<>> /\ opts[c] \in Seq(Os) /\ held[c] \in Seq(Fds)
  BY DEF SetOption, TypeOK
<1>1. Head(opts[c]) \in Os /\ Tail(opts[c]) \in Seq(Os)
  <2> HIDE DEF Os
  <2>. QED BY <1>0, HeadTailProperties
<1>2. Len(held[c]) = 2 /\ DOMAIN held[c] = {1, 2}
  BY <1>0, Indices DEF CallInv, Count
<1>3. PICK n \in Fds : n = held[c][Head(opts[c]).end] /\ n \in OwnedBy(c)
  BY <1>1, <1>2 DEF CallInv, Owner, OwnedBy
<1>4. fd[n] \in OpenFds /\ fd[n] # Free /\ fd[n].owner = c
  BY <1>3 DEF OwnedBy, TypeOK
<1>5. CASE Fail(c) /\ opts' = [opts EXCEPT ![c] = <<>>] /\ UNCHANGED fd
  <2>1. opts' \in [Callers -> Seq(Os)]
    BY <1>5 DEF TypeOK
  <2>. QED BY <1>0, <1>5, <2>1, FailStep DEF SetOption
<1>6. CASE UNCHANGED <<pc, errno>>
  <2>1. PICK r \in OpenFds : fd' = [fd EXCEPT ![n] = r] /\ r.owner = c /\ r.conn = fd[n].conn
                             /\ opts' = [opts EXCEPT ![c] = Tail(@)]
    <3> DEFINE o == Head(opts[c]).opt
    <3> DEFINE r0 == CASE o = "nodelay" -> [fd[n] EXCEPT !.nodelay = TRUE]
                       [] o = "nonblock" -> [fd[n] EXCEPT !.nonblock = TRUE]
                       [] o = "clear_cloexec" -> [fd[n] EXCEPT !.cloexec = FALSE]
    <3>1. o \in {"nodelay", "nonblock", "clear_cloexec"}
      BY <1>1
    <3>2. r0 \in OpenFds /\ r0.owner = c /\ r0.conn = fd[n].conn
      BY <1>4, <3>1 DEF OpenFds
    <3>3. ~Fail(c)
      BY <1>0, <1>6 DEF Fail, Goto, TypeOK
    <3>4. fd' = [fd EXCEPT ![n] = r0] /\ opts' = [opts EXCEPT ![c] = Tail(@)]
      BY <1>3, <3>3 DEF SetOption, TypeOK
    <3> HIDE DEF r0
    <3>. QED BY <3>2, <3>4
  <2>2. fd'[n] = r /\ r # Free /\ \A m \in Fds \ {n} : fd'[m] = fd[m]
    BY <2>1, NamesAssumption DEF TypeOK
  <2>3. TypeOK'
    <3>1. fd' \in [Fds -> OpenFds \union {Free}]
      BY <2>1 DEF TypeOK
    <3>2. opts' \in [Callers -> Seq(Os)]
      BY <1>1, <2>1 DEF TypeOK
    <3>. QED BY <1>6, <3>1, <3>2 DEF SetOption, TypeOK
  <2>4. Frame(c)
    BY <1>4, <1>6, <2>1, <2>2 DEF SetOption, Frame
  <2>5. OwnedBy(c)' = OwnedBy(c)
    <3>1. fd'[n] # Free /\ fd'[n].owner = c
      BY <2>1, <2>2
    <3>2. \A m \in Fds : fd'[m] # Free /\ fd'[m].owner = c <=> fd[m] # Free /\ fd[m].owner = c
      BY <1>4, <2>2, <3>1
    <3>. QED BY <3>2 DEF OwnedBy
  <2>6. Owner(c)' /\ Count(c)'
    BY <1>6, <2>5, ZenonT(60) DEF CallInv, Owner, Count, SetOption, Result
  <2>7. Pending(c)' /\ Conn(c)'
    <3>1. \A m \in OwnedBy(c) : fd'[m].conn = fd[m].conn
      BY <2>1, <2>2 DEF OwnedBy
    <3>2. held[c][1] \in OwnedBy(c) /\ held[c][2] \in OwnedBy(c)
      BY <1>2 DEF CallInv, Owner
    <3>. QED BY <1>0, <1>6, <3>1, <3>2 DEF CallInv, Pending, Conn, SetOption
  <2>. QED BY <2>3, <2>4, <2>6, <2>7 DEF CallInv
<1>. QED BY <1>5, <1>6 DEF SetOption

\* The two descriptors become the caller's: they were its Sockets, and are no more.
LEMMA PublishStep ==
  ASSUME NEW c \in Callers, TypeOK, CallInv(c), Publish(c)
  PROVE  TypeOK' /\ CallInv(c)' /\ Frame(c)
<1>1. /\ pc[c] = "options" /\ held[c] \in Seq(Fds) /\ Len(held[c]) = 2
      /\ DOMAIN held[c] = {1, 2}
  BY Indices DEF Publish, TypeOK, CallInv, Count
<1>2. /\ held'[c] = <<>> /\ pc'[c] = "done" /\ sv'[c] = held[c] /\ ret'[c] = 0
      /\ fd' = fd /\ errno' = errno
  BY DEF Publish, TypeOK, Goto
<1>3. held[c][1] \in Fds /\ held[c][2] \in Fds
  BY <1>1
<1>4. held[c] = <<held[c][1], held[c][2]>>
  BY <1>1
<1>5. held[c] \in (Fds \union {Unset}) \X (Fds \union {Unset})
  BY <1>3, <1>4
<1>6. TypeOK'
  <2>1. sv' \in [Callers -> (Fds \union {Unset}) \X (Fds \union {Unset})]
    BY <1>5 DEF Publish, TypeOK
  <2>2. held' \in [Callers -> Seq(Fds)]
    BY DEF Publish, TypeOK
  <2>. QED BY <2>1, <2>2 DEF Publish, TypeOK, Goto, Steps
<1>7. Frame(c)
  BY DEF Publish, TypeOK, Goto, Frame
<1>8. Result(c)' = {held[c][1], held[c][2]} /\ DOMAIN held'[c] = {}
  BY <1>2 DEF Result
<1>9. /\ sv[c] = <<Unset, Unset>> /\ Result(c) \intersect Fds = {}
  BY <1>1, NamesAssumption DEF CallInv, Pending, Result
<1>10. OwnedBy(c)' = OwnedBy(c) /\ OwnedBy(c) = {held[c][1], held[c][2]}
  <2>1. OwnedBy(c)' = OwnedBy(c)
    BY <1>2 DEF OwnedBy
  <2>2. held[c][1] \in OwnedBy(c) /\ held[c][2] \in OwnedBy(c)
    BY <1>1 DEF CallInv, Owner
  <2>3. ASSUME NEW m \in OwnedBy(c)
        PROVE  m \in {held[c][1], held[c][2]}
    <3>1. m \in Fds /\ m \notin Result(c)
      BY <1>9 DEF OwnedBy
    <3>2. PICK i \in DOMAIN held[c] : held[c][i] = m
      BY <3>1 DEF CallInv, Owner
    <3>. QED BY <1>1, <3>2
  <2>. QED BY <2>1, <2>2, <2>3
<1>11. Owner(c)'
  BY <1>8, <1>10 DEF Owner
<1>12. Count(c)' /\ Pending(c)'
  BY <1>1, <1>2, <1>8, <1>10 DEF CallInv, Owner, Count, Pending
<1>13. Conn(c)'
  BY <1>1, <1>2, <1>8 DEF CallInv, Conn
<1>. QED BY <1>6, <1>7, <1>11, <1>12, <1>13 DEF CallInv

\* Drop closes the newest Socket's descriptor and no other.
LEMMA UnwindStep ==
  ASSUME NEW c \in Callers, TypeOK, CallInv(c), Unwind(c)
  PROVE  TypeOK' /\ CallInv(c)' /\ Frame(c)
<1> DEFINE h == held[c]
<1> DEFINE k == Len(h)
<1>1. pc[c] = "unwind" /\ h \in Seq(Fds) /\ h # <<>>
  BY DEF Unwind, TypeOK
<1>2. /\ Older(h) \in Seq(Fds)
      /\ DOMAIN Older(h) = 1..(k - 1)
      /\ k \in DOMAIN h
      /\ \A i \in 1..(k - 1) : Older(h)[i] = h[i] /\ i \in DOMAIN h /\ i # k
      /\ \A i \in DOMAIN h : i # k => i \in 1..(k - 1)
  BY <1>1, OlderProperties
<1>3. PICK n \in Fds : n = h[k] /\ n \in OwnedBy(c)
  BY <1>2 DEF CallInv, Owner, OwnedBy
<1>4. /\ fd' = [fd EXCEPT ![n] = Free] /\ held'[c] = Older(h) /\ pc' = pc
      /\ sv' = sv /\ ret' = ret /\ errno' = errno
  BY <1>3 DEF Unwind, Newest, TypeOK
<1>5. TypeOK'
  <2>1. fd' \in [Fds -> OpenFds \union {Free}]
    BY <1>4 DEF TypeOK
  <2>2. held' \in [Callers -> Seq(Fds)]
    BY <1>2 DEF TypeOK, Unwind
  <2>3. /\ queue' \in [Callers -> Seq(Callers \union {Foreign})]
        /\ \A d \in Callers : Len(queue'[d]) <= Backlog
    <3>1. Len(<<>>) <= Backlog /\ <<>> \in Seq(Callers \union {Foreign})
      BY BacklogAssumption
    <3>. QED BY <3>1 DEF TypeOK, Unwind
  <2>. QED BY <2>1, <2>2, <2>3 DEF Unwind, TypeOK
<1>6. Frame(c)
  BY <1>3, <1>4 DEF Unwind, TypeOK, Frame, OwnedBy
<1>7. OwnedBy(c)' = OwnedBy(c) \ {n}
  BY <1>3, <1>4 DEF OwnedBy, TypeOK
<1> HIDE DEF h, k
<1>8. Owner(c)'
  <2>1. /\ \A m \in Fds : m \in OwnedBy(c) => (\E i \in DOMAIN h : h[i] = m) \/ m \in Result(c)
        /\ \A i \in DOMAIN h : h[i] \in OwnedBy(c)
        /\ \A i, j \in DOMAIN h : i # j => h[i] # h[j]
    BY DEF CallInv, Owner, h
  <2>2. Result(c)' = Result(c)
    BY <1>4 DEF Result
  <2>3. ASSUME NEW m \in Fds, m \in OwnedBy(c)', m \notin Result(c)
        PROVE  \E i \in DOMAIN Older(h) : Older(h)[i] = m
    <3>1. PICK i \in DOMAIN h : h[i] = m
      BY <1>7, <2>1, <2>3
    <3>2. i # k
      BY <1>3, <1>7, <2>3, <3>1
    <3>. QED BY <1>2, <3>1, <3>2
  <2>4. \A i \in DOMAIN Older(h) : Older(h)[i] \in OwnedBy(c)'
    BY <1>2, <1>3, <1>7, <2>1
  <2>5. \A i, j \in DOMAIN Older(h) : i # j => Older(h)[i] # Older(h)[j]
    BY <1>2, <2>1
  <2>. QED BY <1>4, <2>2, <2>3, <2>4, <2>5 DEF Owner
<1>9. Count(c)' /\ Pending(c)' /\ Conn(c)'
  BY <1>1, <1>4 DEF CallInv, Count, Pending, Conn
<1>. QED BY <1>5, <1>6, <1>8, <1>9 DEF CallInv

\* -1 is returned when nothing is held.
LEMMA ReturnErrStep ==
  ASSUME NEW c \in Callers, TypeOK, CallInv(c), ReturnErr(c)
  PROVE  TypeOK' /\ CallInv(c)' /\ Frame(c)
<1>1. /\ pc[c] = "unwind" /\ held[c] = <<>> /\ pc'[c] = "done" /\ ret'[c] = -1
      /\ fd' = fd /\ held' = held /\ sv' = sv /\ errno' = errno
  BY DEF ReturnErr, TypeOK, Goto
<1>2. TypeOK' /\ Frame(c)
  BY DEF ReturnErr, TypeOK, Goto, Steps, Frame
<1>3. Owner(c)'
  BY <1>1 DEF CallInv, Owner, OwnedBy, Result
<1>4. ret'[c] # 0
  BY <1>1
<1>5. Count(c)' /\ Pending(c)' /\ Conn(c)'
  BY <1>1, <1>4 DEF CallInv, Count, Pending, Conn
<1>. QED BY <1>2, <1>3, <1>5 DEF CallInv

\* A call begins holding nothing, and returns at once if sv is null.
LEMMA StartStep ==
  ASSUME NEW c \in Callers, TypeOK, CallInv(c), Start(c)
  PROVE  TypeOK' /\ CallInv(c)' /\ Frame(c)
<1>1. /\ pc[c] = "idle" /\ fd' = fd /\ held' = held /\ sv' = sv
      /\ \/ pc'[c] = "listener"
         \/ pc'[c] = "done" /\ errno'[c] = "EFAULT" /\ ret'[c] = -1
  BY DEF Start, TypeOK, Goto
<1>2. TypeOK'
  <2>1. ask' \in [Callers -> Asks]
    BY DEF Start, TypeOK
  <2>. QED BY <2>1 DEF Start, TypeOK, Goto, Steps, Errnos
<1>3. Frame(c)
  BY DEF Start, TypeOK, Goto, Frame
<1>4. Owner(c)'
  BY <1>1 DEF CallInv, Owner, OwnedBy, Result
<1>5. pc'[c] = "done" => ret'[c] # 0
  BY <1>1
<1>6. Count(c)' /\ Pending(c)' /\ Conn(c)'
  BY <1>1, <1>5 DEF CallInv, Count, Pending, Conn
<1>. QED BY <1>2, <1>3, <1>4, <1>6 DEF CallInv

\* The program closes the pair, and owns nothing of this call any more.
LEMMA FinishStep ==
  ASSUME NEW c \in Callers, TypeOK, CallInv(c), Finish(c)
  PROVE  TypeOK' /\ CallInv(c)' /\ Frame(c)
<1>1. /\ pc[c] = "done" /\ pc'[c] = "idle" /\ held' = held /\ sv'[c] = <<Unset, Unset>>
      /\ held[c] \in Seq(Fds) /\ DOMAIN held[c] = {}
      /\ fd' = [n \in Fds |-> IF n \in Result(c) THEN Free ELSE fd[n]]
  BY Indices DEF Finish, TypeOK, Goto, CallInv, Count, Result
<1>2. OwnedBy(c) \subseteq Result(c)
  BY <1>1 DEF CallInv, Owner, OwnedBy
<1>3. Result(c) \intersect Fds \subseteq OwnedBy(c)
  <2>1. ret[c] # 0 => Result(c) = {Unset}
    BY DEF CallInv, Pending, Result
  <2>. QED BY <1>1, <2>1, NamesAssumption DEF CallInv, Pending
<1>4. OwnedBy(c)' = {}
  BY <1>1, <1>2 DEF OwnedBy
<1>5. TypeOK'
  <2>1. fd' \in [Fds -> OpenFds \union {Free}]
    BY <1>1 DEF TypeOK
  <2>2. Plain \in Asks
    BY DEF Plain, Asks
  <2>. QED BY <2>1, <2>2 DEF Finish, TypeOK, Goto, Steps, Errnos
<1>6. Frame(c)
  <2>1. \A n \in Fds : fd'[n] # fd[n] => fd'[n] = Free /\ fd[n].owner = c
    BY <1>1, <1>3 DEF OwnedBy
  <2>. QED BY <2>1 DEF Finish, TypeOK, Goto, Frame
<1>7. Owner(c)'
  BY <1>1, <1>4 DEF Owner
<1>8. Count(c)' /\ Pending(c)' /\ Conn(c)'
  BY <1>1 DEF CallInv, Count, Pending, Conn
<1>. QED BY <1>5, <1>6, <1>7, <1>8 DEF CallInv

\* Another process changes nothing but a listener's queue.
LEMMA ForeignConnectStep ==
  ASSUME NEW c \in Callers, TypeOK, ForeignConnect(c)
  PROVE  TypeOK' /\ UNCHANGED <<fd, pc, held, sv, errno, ret>>
<1>1. queue[c] \in Seq(Callers \union {Foreign}) /\ Len(queue[c]) \in Nat
  BY DEF TypeOK
<1>2. /\ Append(queue[c], Foreign) \in Seq(Callers \union {Foreign})
      /\ Len(Append(queue[c], Foreign)) <= Backlog
  BY <1>1, BacklogAssumption DEF ForeignConnect
<1>. QED BY <1>2 DEF ForeignConnect, TypeOK

\* The rest of the program opens and closes only files.
LEMMA FileStep ==
  ASSUME NEW n \in Fds, TypeOK, OpenFile(n) \/ CloseFile(n)
  PROVE  TypeOK' /\ Frame("file")
<1>1. OpenFd("file", Free) \in OpenFds /\ OpenFd("file", Free).owner = "file"
  BY OpenFdType
<1>2. TypeOK'
  BY <1>1 DEF OpenFile, CloseFile, TypeOK, call
<1>3. Frame("file")
  BY <1>1 DEF OpenFile, CloseFile, TypeOK, Frame, call
<1>. QED BY <1>2, <1>3

-------------------------------------------------------------------------------
(* The inductive invariant *)

LEMMA InitPair ==
  ASSUME Init
  PROVE  PairInv
<1>1. TypeOK
  <2>1. Plain \in Asks
    BY DEF Plain, Asks
  <2>2. \A c \in Callers : queue[c] = <<>> /\ Len(queue[c]) <= Backlog
    <3>1. Len(<<>>) <= Backlog
      BY BacklogAssumption
    <3>. QED BY <3>1 DEF Init
  <2>. QED BY <2>1, <2>2 DEF Init, TypeOK, Steps, Errnos
<1>2. ASSUME NEW c \in Callers
      PROVE  CallInv(c)
  <2>1. OwnedBy(c) = {} /\ held[c] = <<>> /\ pc[c] = "idle" /\ sv[c] = <<Unset, Unset>>
    BY DEF Init, OwnedBy
  <2>. QED BY <2>1 DEF CallInv, Count, Owner, Pending, Conn
<1>. QED BY <1>1, <1>2 DEF PairInv

\* A step of a call keeps to the call.
LEMMA CallStep ==
  ASSUME NEW c \in Callers, TypeOK, CallInv(c), Start(c) \/ Call(c) \/ Finish(c)
  PROVE  TypeOK' /\ CallInv(c)' /\ Frame(c)
<1>1. CASE Start(c)
  BY <1>1, StartStep
<1>2. CASE Finish(c)
  BY <1>2, FinishStep
<1>3. CASE MakeSocket(c, "listener", "bind")
  BY <1>3, MakeSocketStep
<1>4. CASE MakeSocket(c, "client", "connect")
  BY <1>4, MakeSocketStep
<1>5. CASE Prepare(c, "bind", "listen")
  BY <1>5, PrepareStep
<1>6. CASE Prepare(c, "listen", "name_listener")
  BY <1>6, PrepareStep
<1>7. CASE Prepare(c, "name_listener", "client")
  BY <1>7, PrepareStep
<1>8. CASE Prepare(c, "name_client", "accept")
  BY <1>8, PrepareStep
<1>9. CASE Connect(c)
  BY <1>9, ConnectStep
<1>10. CASE Accept(c)
  BY <1>10, AcceptStep
<1>11. CASE Compare(c)
  BY <1>11, CompareStep
<1>12. CASE DropListener(c)
  BY <1>12, DropListenerStep
<1>13. CASE SetOption(c)
  BY <1>13, SetOptionStep
<1>14. CASE Publish(c)
  BY <1>14, PublishStep
<1>15. CASE Unwind(c)
  BY <1>15, UnwindStep
<1>16. CASE ReturnErr(c)
  BY <1>16, ReturnErrStep
<1>. QED BY <1>1, <1>2, <1>3, <1>4, <1>5, <1>6, <1>7, <1>8, <1>9, <1>10, <1>11,
            <1>12, <1>13, <1>14, <1>15, <1>16 DEF Call

LEMMA NextPair ==
  ASSUME PairInv, [Next]_vars
  PROVE  PairInv'
<1>1. ASSUME NEW c \in Callers, Start(c) \/ Call(c) \/ Finish(c)
      PROVE  PairInv'
  <2>0. TypeOK /\ CallInv(c)
    BY DEF PairInv
  <2>1. TypeOK' /\ CallInv(c)' /\ Frame(c)
    BY <1>1, <2>0, CallStep
  <2>2. \A d \in Callers \ {c} : CallInv(d)'
    BY <2>0, <2>1, OthersKeep DEF PairInv
  <2>. QED BY <2>1, <2>2 DEF PairInv
<1>2. ASSUME NEW c \in Callers, ForeignConnect(c)
      PROVE  PairInv'
  <2>1. TypeOK' /\ UNCHANGED <<fd, pc, held, sv, errno, ret>>
    BY <1>2, ForeignConnectStep DEF PairInv
  <2>2. \A d \in Callers : CallInv(d)'
    BY <2>1 DEF PairInv, CallInv, Count, Owner, Pending, Conn, OwnedBy, Result
  <2>. QED BY <2>1, <2>2 DEF PairInv
<1>3. ASSUME NEW n \in Fds, OpenFile(n) \/ CloseFile(n)
      PROVE  PairInv'
  <2>1. TypeOK' /\ Frame("file")
    BY <1>3, FileStep DEF PairInv
  <2>2. \A d \in Callers : d \in Callers \ {"file"}
    BY NamesAssumption
  <2>3. \A d \in Callers : CallInv(d)'
    BY <2>1, <2>2, OthersKeep DEF PairInv
  <2>. QED BY <2>1, <2>3 DEF PairInv
<1>4. CASE UNCHANGED vars
  BY <1>4 DEF vars, call, PairInv, TypeOK, CallInv, Count, Owner, Pending, Conn, OwnedBy, Result
<1>. QED BY <1>1, <1>2, <1>3, <1>4 DEF Next

\* The descriptors of a call are accounted for at every step.
THEOREM PairInvariant == Spec => []PairInv
<1>1. Init => PairInv
  BY InitPair
<1>2. PairInv /\ [Next]_vars => PairInv'
  BY NextPair
<1>. QED BY <1>1, <1>2, PTL DEF Spec

\* Every variable of the model keeps to what the code stores there.
THEOREM PairTypeCorrect == Spec => []TypeOK
<1>1. PairInv => TypeOK
  BY DEF PairInv
<1>. QED BY <1>1, PairInvariant, PTL

\* Drop only ever closes descriptors the call opened itself and has not closed.
THEOREM HeldIsOwnedHolds == Spec => []HeldIsOwned
<1>1. PairInv => HeldIsOwned
  BY DEF PairInv, CallInv, Owner, HeldIsOwned
<1>. QED BY <1>1, PairInvariant, PTL

\* Whatever fails, and whatever the other threads open and close, socketpair leaves
\* open the two descriptors it returns and no other.
THEOREM NoLeakHolds == Spec => []NoLeak
<1>1. ASSUME PairInv, NEW c \in Callers, pc[c] = "done"
      PROVE  IF ret[c] = 0 THEN OwnedBy(c) = Result(c) /\ sv[c][1] # sv[c][2]
                           ELSE OwnedBy(c) = {} /\ sv[c] = <<Unset, Unset>>
                                /\ errno[c] \in {"EFAULT", "setup"}
  <2>1. DOMAIN held[c] = {}
    BY <1>1, Indices DEF PairInv, TypeOK, CallInv, Count
  <2>2. OwnedBy(c) \subseteq Result(c)
    BY <1>1, <2>1 DEF PairInv, CallInv, Owner, OwnedBy
  <2>3. CASE ret[c] = 0
    BY <1>1, <2>2, <2>3 DEF PairInv, CallInv, Pending
  <2>4. CASE ret[c] # 0
    <3>1. sv[c] = <<Unset, Unset>> /\ errno[c] \in {"EFAULT", "setup"}
      BY <1>1, <2>4 DEF PairInv, CallInv, Pending
    <3>2. OwnedBy(c) = {}
      BY <2>2, <3>1, NamesAssumption DEF OwnedBy, Result
    <3>. QED BY <2>4, <3>1, <3>2
  <2>. QED BY <2>3, <2>4
<1>2. PairInv => NoLeak
  BY <1>1 DEF NoLeak
<1>. QED BY <1>2, PairInvariant, PTL

\* Both ends of a pair that was returned belong to the connection this call made.
THEOREM PairIsPrivateHolds == Spec => []PairIsPrivate
<1>1. PairInv => PairIsPrivate
  BY DEF PairInv, CallInv, Conn, PairIsPrivate
<1>. QED BY <1>1, PairInvariant, PTL

-------------------------------------------------------------------------------
(* The flags of the descriptors, and that accept4 never waits.                *)

Ends == {1, 2}
OptionNames == {"nodelay", "nonblock", "clear_cloexec"}
Options == [end : Ends, opt : OptionNames]

Values(s) == {s[i] : i \in DOMAIN s}
Option(e, o) == [end |-> e, opt |-> o]

\* The option o of the end e has yet to be set.
Awaits(c, e, o) == Option(e, o) \in Values(opts[c])

\* The end e of a pair, while its options are being set.
EndInv(c, e) ==
  LET d == fd[held[c][e]] IN
  /\ d.nodelay \/ Awaits(c, e, "nodelay")
  /\ IF ask[c].nonblock THEN d.nonblock \/ Awaits(c, e, "nonblock")
                        ELSE ~d.nonblock /\ ~Awaits(c, e, "nonblock")
  /\ IF ask[c].cloexec THEN ~Awaits(c, e, "clear_cloexec")
                       ELSE ~d.cloexec \/ Awaits(c, e, "clear_cloexec")

\* The flags of a call's descriptors, and its connection in the queue.
FlagInv(c) ==
  /\ pc[c] \in {"name_client", "accept"} => queue[c] # <<>>
  /\ \A n \in OwnedBy(c) :
       /\ pc[c] \notin {"options", "unwind", "done"} => fd[n].cloexec /\ ~fd[n].nonblock
       /\ ask[c].cloexec => fd[n].cloexec
  /\ pc[c] = "options" => \A e \in Ends : EndInv(c, e)
  /\ pc[c] = "done" /\ ret[c] = 0 =>
       \A n \in Result(c) :
         fd[n].nodelay /\ fd[n].nonblock = ask[c].nonblock /\ fd[n].cloexec = ask[c].cloexec

FlagsInv == \A c \in Callers : FlagInv(c)

-------------------------------------------------------------------------------
(* The options that are left *)

\* Concatenation, a single option and none.
LEMMA ConcatValues ==
  ASSUME NEW S, NEW s \in Seq(S), NEW t \in Seq(S)
  PROVE  s \o t \in Seq(S) /\ Values(s \o t) = Values(s) \union Values(t)
<1>1. /\ s \o t \in Seq(S) /\ Len(s \o t) = Len(s) + Len(t)
      /\ \A i \in 1..(Len(s) + Len(t)) : (s \o t)[i] = IF i <= Len(s) THEN s[i] ELSE t[i - Len(s)]
  BY ConcatProperties
<1>2. /\ Len(s) \in Nat /\ Len(t) \in Nat
      /\ DOMAIN s = 1..Len(s) /\ DOMAIN t = 1..Len(t) /\ DOMAIN (s \o t) = 1..(Len(s) + Len(t))
  BY <1>1
<1>. DEFINE st == s \o t
<1>. HIDE DEF st
<1>3. ASSUME NEW i \in 1..Len(s)
      PROVE  i \in 1..(Len(s) + Len(t)) /\ (s \o t)[i] = s[i]
  BY <1>1, <1>2
<1>4. ASSUME NEW i \in 1..Len(t)
      PROVE  i + Len(s) \in 1..(Len(s) + Len(t)) /\ (s \o t)[i + Len(s)] = t[i]
  <2>1. i + Len(s) \in 1..(Len(s) + Len(t)) /\ ~(i + Len(s) <= Len(s)) /\ i + Len(s) - Len(s) = i
    BY <1>2
  <2>. QED BY <1>1, <2>1
<1>5. ASSUME NEW i \in 1..(Len(s) + Len(t))
      PROVE  (s \o t)[i] \in Values(s) \union Values(t)
  <2>1. CASE i <= Len(s)
    <3>1. i \in DOMAIN s
      BY <1>2, <2>1
    <3>. QED BY <1>1, <2>1, <3>1 DEF Values
  <2>2. CASE ~(i <= Len(s))
    <3>1. i - Len(s) \in DOMAIN t
      BY <1>2, <2>2
    <3>2. (s \o t)[i] = t[i - Len(s)]
      BY <1>1, <2>2
    <3>. QED BY <3>1, <3>2, Zenon DEF Values
  <2>. QED BY <2>1, <2>2
<1>6. ASSUME NEW v \in Values(s)
      PROVE  v \in Values(s \o t)
  <2>1. PICK i \in 1..Len(s) : v = s[i]
    BY <1>2 DEF Values
  <2>2. i \in DOMAIN (s \o t) /\ v = (s \o t)[i]
    BY <1>2, <1>3, <2>1
  <2>. QED BY <2>2, Zenon DEF Values
<1>7. ASSUME NEW v \in Values(t)
      PROVE  v \in Values(s \o t)
  <2>1. PICK i \in 1..Len(t) : v = t[i]
    BY <1>2 DEF Values
  <2>2. i + Len(s) \in DOMAIN (s \o t) /\ v = (s \o t)[i + Len(s)]
    BY <1>2, <1>4, <2>1
  <2>. QED BY <2>2, Zenon DEF Values
<1>8. ASSUME NEW v \in Values(s \o t)
      PROVE  v \in Values(s) \union Values(t)
  <2>1. PICK i \in DOMAIN (s \o t) : v = (s \o t)[i]
    BY Zenon DEF Values
  <2>. QED BY <1>2, <1>5, <2>1
<1>. QED BY <1>1, <1>6, <1>7, <1>8

LEMMA ShortValues ==
  ASSUME NEW S, NEW x \in S
  PROVE  /\ <<x>> \in Seq(S) /\ Values(<<x>>) = {x}
         /\ <<>> \in Seq(S) /\ Values(<<>>) = {}
<1>1. <<x>> \in Seq(S) /\ DOMAIN <<x>> = {1} /\ <<x>>[1] = x
  OBVIOUS
<1>2. <<>> \in Seq(S) /\ DOMAIN <<>> = {}
  OBVIOUS
<1>. QED BY <1>1, <1>2 DEF Values

\* What the first option leaves.
LEMMA HeadValues ==
  ASSUME NEW S, NEW s \in Seq(S), s # <<>>
  PROVE  /\ Head(s) \in S /\ Tail(s) \in Seq(S)
         /\ Values(s) = {Head(s)} \union Values(Tail(s))
<1>1. /\ Head(s) \in S /\ Tail(s) \in Seq(S) /\ Len(Tail(s)) = Len(s) - 1
      /\ \A i \in 1..Len(Tail(s)) : Tail(s)[i] = s[i + 1]
  BY HeadTailProperties
<1>2. /\ Len(s) \in Nat /\ Len(s) # 0 /\ DOMAIN s = 1..Len(s) /\ DOMAIN Tail(s) = 1..(Len(s) - 1)
      /\ Head(s) = s[1]
  BY <1>1
<1>3. ASSUME NEW i \in DOMAIN s
      PROVE  s[i] = Head(s) \/ s[i] \in Values(Tail(s))
  <2>1. CASE i = 1
    BY <1>2, <2>1
  <2>2. CASE i # 1
    <3>1. i - 1 \in DOMAIN Tail(s) /\ (i - 1) + 1 = i
      BY <1>2, <2>2
    <3>2. Tail(s)[i - 1] = s[i]
      BY <1>1, <3>1
    <3>. QED BY <3>1, <3>2, Zenon DEF Values
  <2>. QED BY <2>1, <2>2
<1>4. ASSUME NEW i \in DOMAIN Tail(s)
      PROVE  i + 1 \in DOMAIN s /\ Tail(s)[i] = s[i + 1]
  BY <1>1, <1>2
<1>5. Head(s) \in Values(s)
  <2>1. 1 \in DOMAIN s
    BY <1>2
  <2>. QED BY <1>2, <2>1, Zenon DEF Values
<1>6. ASSUME NEW v \in Values(Tail(s))
      PROVE  v \in Values(s)
  <2>1. PICK i \in DOMAIN Tail(s) : v = Tail(s)[i]
    BY Zenon DEF Values
  <2>2. i + 1 \in DOMAIN s /\ v = s[i + 1]
    BY <1>4, <2>1
  <2>. QED BY <2>2, Zenon DEF Values
<1>7. ASSUME NEW v \in Values(s)
      PROVE  v = Head(s) \/ v \in Values(Tail(s))
  <2>1. PICK i \in DOMAIN s : v = s[i]
    BY Zenon DEF Values
  <2>. QED BY <1>3, <2>1
<1>. QED BY <1>1, <1>5, <1>6, <1>7

\* The plan has, for each end, what was asked for.
LEMMA PlanValues ==
  ASSUME NEW a \in Asks, NEW e \in Ends
  PROVE  /\ Option(e, "nodelay") \in Values(OptionPlan(a))
         /\ Option(e, "nonblock") \in Values(OptionPlan(a)) <=> a.nonblock
         /\ Option(e, "clear_cloexec") \in Values(OptionPlan(a)) <=> ~a.cloexec
<1>. DEFINE one(i) == <<Option(i, "nodelay")>>
            two(i) == IF a.nonblock THEN <<Option(i, "nonblock")>> ELSE <<>>
            three(i) == IF a.cloexec THEN <<>> ELSE <<Option(i, "clear_cloexec")>>
            each(i) == one(i) \o two(i) \o three(i)
<1>1. OptionPlan(a) = each(1) \o each(2)
  BY DEF OptionPlan, Option
<1>2. \A i \in Ends, o \in OptionNames : Option(i, o) \in Options
  BY DEF Option, Options
<1>3. ASSUME NEW i \in Ends
      PROVE  /\ one(i) \in Seq(Options) /\ Values(one(i)) = {Option(i, "nodelay")}
             /\ two(i) \in Seq(Options)
             /\ Values(two(i)) = IF a.nonblock THEN {Option(i, "nonblock")} ELSE {}
             /\ three(i) \in Seq(Options)
             /\ Values(three(i)) = IF a.cloexec THEN {} ELSE {Option(i, "clear_cloexec")}
  <2>1. ASSUME NEW o \in OptionNames
        PROVE  /\ <<Option(i, o)>> \in Seq(Options) /\ Values(<<Option(i, o)>>) = {Option(i, o)}
               /\ <<>> \in Seq(Options) /\ Values(<<>>) = {}
    <3>1. Option(i, o) \in Options
      BY <1>2
    <3>. QED BY <3>1, ShortValues, Zenon
  <2>. QED BY <2>1 DEF OptionNames
<1>. HIDE DEF one, two, three
<1>4. ASSUME NEW i \in Ends
      PROVE  /\ each(i) \in Seq(Options)
             /\ Values(each(i)) = Values(one(i)) \union Values(two(i)) \union Values(three(i))
  <2>1. /\ one(i) \o two(i) \in Seq(Options)
        /\ Values(one(i) \o two(i)) = Values(one(i)) \union Values(two(i))
    BY <1>3, ConcatValues
  <2>. DEFINE both == one(i) \o two(i)
  <2>2. both \in Seq(Options) /\ three(i) \in Seq(Options)
    BY <1>3, <2>1
  <2>. HIDE DEF both
  <2>3. /\ both \o three(i) \in Seq(Options)
        /\ Values(both \o three(i)) = Values(both) \union Values(three(i))
    BY <2>2, ConcatValues
  <2>. USE DEF both
  <2>. QED BY <2>1, <2>3
<1>. HIDE DEF each
<1>5. Values(OptionPlan(a)) = Values(each(1)) \union Values(each(2))
  BY <1>1, <1>4, ConcatValues DEF Ends
<1>6. \A i \in Ends, o, p \in OptionNames : Option(i, o) = Option(e, p) <=> i = e /\ o = p
  BY DEF Option
<1>. QED BY <1>3, <1>4, <1>5, <1>6 DEF Ends, OptionNames

-------------------------------------------------------------------------------
(* Steps of one caller against the others *)

\* What a step of o leaves alone besides.
Elsewhere(o) ==
  \A d \in Callers \ {o} : ask'[d] = ask[d] /\ queue'[d] = queue[d] /\ opts'[d] = opts[d]

FlagFrame(o) == Frame(o) /\ Elsewhere(o)

LEMMA OthersKeepFlags ==
  ASSUME NEW o, NEW d \in Callers \ {o}, TypeOK, TypeOK', FlagFrame(o), CallInv(d), FlagInv(d)
  PROVE  FlagInv(d)'
<1>1. \A n \in OwnedBy(d) : fd'[n] = fd[n]
  BY DEF FlagFrame, Frame, OwnedBy
<1>2. OwnedBy(d)' = OwnedBy(d)
  BY <1>1 DEF FlagFrame, Frame, OwnedBy
<1>3. /\ pc'[d] = pc[d] /\ held'[d] = held[d] /\ sv'[d] = sv[d] /\ ret'[d] = ret[d]
      /\ ask'[d] = ask[d] /\ queue'[d] = queue[d] /\ opts'[d] = opts[d]
  BY DEF FlagFrame, Elsewhere, Frame
<1>4. pc[d] = "options" => \A e \in Ends : held[d][e] \in OwnedBy(d)
  BY Indices DEF CallInv, Count, Owner, TypeOK, Ends
<1>5. pc[d] = "options" => \A e \in Ends : EndInv(d, e)'
  BY <1>1, <1>3, <1>4 DEF FlagInv, EndInv, Awaits
<1>6. pc[d] = "done" /\ ret[d] = 0 => Result(d)' = Result(d) /\ Result(d) \subseteq OwnedBy(d)
  BY <1>3 DEF CallInv, Pending, Result
<1>. QED BY <1>1, <1>2, <1>3, <1>5, <1>6 DEF FlagInv

-------------------------------------------------------------------------------
(* One lemma per action that the flags are about *)

\* A call that fails asks nothing more of its descriptors.
LEMMA FailFlags ==
  ASSUME NEW c \in Callers, TypeOK, FlagInv(c), Fail(c), UNCHANGED <<fd, ask>>
  PROVE  FlagInv(c)'
BY DEF TypeOK, FlagInv, Fail, Goto, OwnedBy

\* A step before the options that opens a descriptor for the call, or none.
Early(c) ==
  /\ ask' = ask
  /\ pc[c] \notin {"options", "unwind", "done"} /\ pc'[c] \notin {"options", "unwind", "done"}
  /\ \A n \in OwnedBy(c)' :
       \/ /\ n \in OwnedBy(c)
          /\ fd'[n].cloexec = fd[n].cloexec /\ fd'[n].nonblock = fd[n].nonblock
       \/ fd'[n].cloexec /\ ~fd'[n].nonblock
  /\ pc'[c] \in {"name_client", "accept"} => queue'[c] # <<>>

LEMMA EarlyFlags ==
  ASSUME NEW c \in Callers, FlagInv(c), Early(c)
  PROVE  FlagInv(c)'
BY DEF FlagInv, Early

LEMMA OpenFdFlags ==
  ASSUME NEW o, NEW k
  PROVE  OpenFd(o, k).cloexec /\ ~OpenFd(o, k).nonblock
BY DEF OpenFd

LEMMA MakeSocketFlags ==
  ASSUME NEW c \in Callers, TypeOK, FlagInv(c), NEW at, NEW next,
         <<at, next>> \in {<<"listener", "bind">>, <<"client", "connect">>},
         MakeSocket(c, at, next)
  PROVE  FlagInv(c)' /\ Elsewhere(c)
<1>0. /\ pc[c] = at
      /\ \/ at = "listener" /\ next = "bind"
         \/ at = "client" /\ next = "connect"
  BY DEF MakeSocket
<1>1. CASE Fail(c) /\ UNCHANGED <<fd, held>>
  BY <1>1, FailFlags DEF MakeSocket, Elsewhere
<1>2. CASE Goto(c, next) /\ \E n \in FreeFds : fd' = [fd EXCEPT ![n] = OpenFd(c, Free)]
  <2>1. PICK n \in FreeFds : fd' = [fd EXCEPT ![n] = OpenFd(c, Free)]
    BY <1>2
  <2>2. pc'[c] = next /\ n \in Fds /\ fd'[n] = OpenFd(c, Free) /\ \A m \in Fds \ {n} : fd'[m] = fd[m]
    BY <1>2, <2>1 DEF TypeOK, Goto, FreeFds
  <2>3. \A m \in OwnedBy(c)' : m = n \/ (m \in OwnedBy(c) /\ fd'[m] = fd[m])
    BY <2>2 DEF OwnedBy
  <2>4. Early(c)
    BY <1>0, <2>2, <2>3, OpenFdFlags DEF MakeSocket, Early
  <2>. QED BY <2>4, EarlyFlags DEF MakeSocket, Elsewhere
<1>. QED BY <1>1, <1>2 DEF MakeSocket

LEMMA PrepareFlags ==
  ASSUME NEW c \in Callers, TypeOK, FlagInv(c), NEW at, NEW next,
         <<at, next>> \in {<<"bind", "listen">>, <<"listen", "name_listener">>,
                           <<"name_listener", "client">>, <<"name_client", "accept">>},
         Prepare(c, at, next)
  PROVE  FlagInv(c)' /\ Elsewhere(c)
<1>0. /\ pc[c] = at
      /\ \/ at = "bind" /\ next = "listen"
         \/ at = "listen" /\ next = "name_listener"
         \/ at = "name_listener" /\ next = "client"
         \/ at = "name_client" /\ next = "accept"
  BY DEF Prepare
<1>1. CASE Fail(c)
  BY <1>1, FailFlags DEF Prepare, Elsewhere
<1>2. CASE Goto(c, next)
  <2>1. pc'[c] = next /\ OwnedBy(c)' = OwnedBy(c) /\ queue' = queue
    BY <1>2 DEF TypeOK, Goto, Prepare, OwnedBy
  <2>2. pc'[c] \in {"name_client", "accept"} => queue'[c] # <<>>
    BY <1>0, <2>1 DEF FlagInv
  <2>3. Early(c)
    BY <1>0, <2>1, <2>2 DEF Prepare, Early, FlagInv
  <2>. QED BY <2>3, EarlyFlags DEF Prepare, Elsewhere
<1>. QED BY <1>1, <1>2 DEF Prepare

\* The call's own connection stands in the queue, behind at most Backlog - 1 others.
LEMMA ConnectFlags ==
  ASSUME NEW c \in Callers, TypeOK, CallInv(c), FlagInv(c), Connect(c)
  PROVE  FlagInv(c)' /\ Elsewhere(c)
<1>0. pc[c] = "connect" /\ Elsewhere(c)
  BY DEF Connect, TypeOK, Elsewhere
<1>1. CASE Fail(c) /\ UNCHANGED <<fd, queue>>
  BY <1>0, <1>1, FailFlags DEF Connect
<1>2. CASE /\ queue' = [queue EXCEPT ![c] = Append(@, c)]
           /\ fd' = [fd EXCEPT ![held[c][2]].conn = c]
           /\ Goto(c, "name_client")
  <2>0. DOMAIN held[c] = {1, 2}
    BY <1>0, Indices DEF CallInv, Count, TypeOK
  <2>1. PICK n \in Fds : n = held[c][2] /\ n \in OwnedBy(c)
    BY <2>0 DEF CallInv, Owner, OwnedBy
  <2>2. fd[n] \in OpenFds
    BY <2>1 DEF OwnedBy, TypeOK
  <2>3. /\ [fd[n] EXCEPT !.conn = c].cloexec = fd[n].cloexec
        /\ [fd[n] EXCEPT !.conn = c].nonblock = fd[n].nonblock
    BY <2>2 DEF OpenFds
  <2>4. /\ fd' = [fd EXCEPT ![n] = [fd[n] EXCEPT !.conn = c]] /\ pc'[c] = "name_client" /\ ask' = ask
    BY <1>2, <2>1 DEF Connect, Goto, TypeOK
  <2>5. fd'[n] = [fd[n] EXCEPT !.conn = c] /\ \A m \in Fds \ {n} : fd'[m] = fd[m]
    BY <2>4 DEF TypeOK
  <2>6. \A m \in OwnedBy(c)' : m \in OwnedBy(c) /\ fd'[m].cloexec = fd[m].cloexec
                                              /\ fd'[m].nonblock = fd[m].nonblock
    BY <2>1, <2>3, <2>5 DEF OwnedBy
  <2>7. queue'[c] # <<>>
    <3>1. queue[c] \in Seq(Callers \union {Foreign}) /\ queue'[c] = Append(queue[c], c)
      BY <1>2 DEF TypeOK
    <3>. QED BY <3>1
  <2>8. Early(c)
    BY <1>0, <2>4, <2>6, <2>7 DEF Early
  <2>. QED BY <1>0, <2>8, EarlyFlags
<1>. QED BY <1>1, <1>2 DEF Connect

LEMMA AcceptFlags ==
  ASSUME NEW c \in Callers, TypeOK, FlagInv(c), Accept(c)
  PROVE  FlagInv(c)' /\ Elsewhere(c)
<1>0. pc[c] = "accept" /\ Elsewhere(c)
  BY DEF Accept, TypeOK, Elsewhere
<1>1. CASE Fail(c) /\ UNCHANGED <<fd, held, queue>>
  BY <1>0, <1>1, FailFlags DEF Accept
<1>2. CASE Goto(c, "compare") /\ \E n \in FreeFds : fd' = [fd EXCEPT ![n] = OpenFd(c, Head(queue[c]))]
  <2>1. PICK n \in FreeFds : fd' = [fd EXCEPT ![n] = OpenFd(c, Head(queue[c]))]
    BY <1>2
  <2>2. /\ pc'[c] = "compare" /\ n \in Fds /\ fd'[n] = OpenFd(c, Head(queue[c]))
        /\ \A m \in Fds \ {n} : fd'[m] = fd[m]
    BY <1>2, <2>1 DEF TypeOK, Goto, FreeFds
  <2>3. \A m \in OwnedBy(c)' : m = n \/ (m \in OwnedBy(c) /\ fd'[m] = fd[m])
    BY <2>2 DEF OwnedBy
  <2>4. fd'[n].cloexec /\ ~fd'[n].nonblock
    BY <2>2, OpenFdFlags
  <2>5. Early(c)
    BY <1>0, <2>2, <2>3, <2>4 DEF Accept, Early
  <2>. QED BY <1>0, <2>5, EarlyFlags
<1>. QED BY <1>1, <1>2 DEF Accept

LEMMA CompareFlags ==
  ASSUME NEW c \in Callers, TypeOK, FlagInv(c), Compare(c)
  PROVE  FlagInv(c)'
<1>1. CASE Fail(c)
  BY <1>1, FailFlags DEF Compare
<1>2. CASE Goto(c, "drop_listener")
  BY <1>2 DEF Compare, TypeOK, Goto, FlagInv, OwnedBy
<1>. QED BY <1>1, <1>2 DEF Compare

\* The listener's descriptor goes; the two ends stand as they were made, and the plan holds
\* all that was asked for.
LEMMA DropListenerFlags ==
  ASSUME NEW c \in Callers, TypeOK, CallInv(c), FlagInv(c), DropListener(c)
  PROVE  FlagInv(c)' /\ Elsewhere(c)
<1>1. /\ pc[c] = "drop_listener" /\ held[c] \in Seq(Fds) /\ Len(held[c]) = 3
      /\ DOMAIN held[c] = {1, 2, 3}
  BY Indices DEF DropListener, TypeOK, CallInv, Count
<1>2. Tail(held[c])[1] = held[c][2] /\ Tail(held[c])[2] = held[c][3]
  BY <1>1, TailOfThree
<1>3. PICK n \in Fds : n = held[c][1]
  BY <1>1 DEF CallInv, Owner, OwnedBy
<1>4. /\ fd' = [fd EXCEPT ![n] = Free] /\ held'[c] = Tail(held[c]) /\ pc'[c] = "options"
      /\ opts'[c] = OptionPlan(ask[c]) /\ ask' = ask
  BY <1>3 DEF DropListener, Goto, TypeOK
<1>5. fd'[n] = Free /\ \A m \in Fds \ {n} : fd'[m] = fd[m]
  BY <1>4 DEF TypeOK
<1>6. \A m \in OwnedBy(c)' : m \in OwnedBy(c) /\ fd'[m] = fd[m]
  BY <1>3, <1>5 DEF OwnedBy
<1>7. \A m \in OwnedBy(c) : fd[m].cloexec /\ ~fd[m].nonblock
  BY <1>1 DEF FlagInv
<1>8. ASSUME NEW e \in Ends
      PROVE  EndInv(c, e)'
  <2>1. e + 1 \in DOMAIN held[c] /\ e + 1 # 1 /\ 1 \in DOMAIN held[c] /\ held'[c][e] = held[c][e + 1]
    BY <1>1, <1>2, <1>4 DEF Ends
  <2>2. held[c][e + 1] \in OwnedBy(c) /\ held[c][e + 1] # n
    BY <1>3, <2>1 DEF CallInv, Owner
  <2>3. held'[c][e] \in Fds /\ fd'[held'[c][e]].cloexec /\ ~fd'[held'[c][e]].nonblock
    BY <1>5, <1>7, <2>1, <2>2 DEF OwnedBy
  <2>4. ask[c] \in Asks
    BY DEF TypeOK
  <2>5. /\ Awaits(c, e, "nodelay")'
        /\ Awaits(c, e, "nonblock")' <=> ask[c].nonblock
        /\ Awaits(c, e, "clear_cloexec")' <=> ~ask[c].cloexec
    BY <1>4, <2>4, PlanValues DEF Awaits
  <2>. QED BY <1>4, <2>3, <2>5 DEF EndInv
<1>9. FlagInv(c)'
  BY <1>4, <1>6, <1>8 DEF FlagInv
<1>10. Elsewhere(c)
  BY DEF DropListener, TypeOK, Elsewhere
<1>. QED BY <1>9, <1>10

\* Setting the first option of the plan sets it where it belongs, and leaves the rest.
LEMMA SetOptionFlags ==
  ASSUME NEW c \in Callers, TypeOK, CallInv(c), FlagInv(c), SetOption(c)
  PROVE  FlagInv(c)' /\ Elsewhere(c)
<1>0. /\ pc[c] = "options" /\ opts[c] # <<>> /\ opts[c] \in Seq(Options) /\ held[c] \in Seq(Fds)
      /\ ask' = ask /\ held' = held
  BY DEF SetOption, TypeOK, Options, Ends, OptionNames
<1>. DEFINE o == Head(opts[c])
<1>1. /\ o \in Options
      /\ Values(opts[c]) = {o} \union Values(Tail(opts[c]))
  BY <1>0, HeadValues
<1>2. Len(held[c]) = 2 /\ DOMAIN held[c] = {1, 2}
  BY <1>0, Indices DEF CallInv, Count
<1>3. o.end \in Ends /\ o.opt \in OptionNames /\ o = Option(o.end, o.opt)
  BY <1>1 DEF Options, Option
<1>4. PICK n \in Fds : n = held[c][o.end] /\ n \in OwnedBy(c)
  BY <1>2, <1>3 DEF CallInv, Owner, OwnedBy, Ends
<1>5. fd[n] \in OpenFds
  BY <1>4 DEF OwnedBy, TypeOK
<1>6. Elsewhere(c)
  BY DEF SetOption, TypeOK, Elsewhere
<1>7. CASE Fail(c) /\ UNCHANGED fd
  BY <1>0, <1>6, <1>7, FailFlags
<1>. DEFINE r == CASE o.opt = "nodelay" -> [fd[n] EXCEPT !.nodelay = TRUE]
                   [] o.opt = "nonblock" -> [fd[n] EXCEPT !.nonblock = TRUE]
                   [] o.opt = "clear_cloexec" -> [fd[n] EXCEPT !.cloexec = FALSE]
<1>8. CASE /\ fd' = [fd EXCEPT ![n] = r]
           /\ opts' = [opts EXCEPT ![c] = Tail(@)]
           /\ UNCHANGED <<pc, errno>>
  <2>1. opts'[c] = Tail(opts[c]) /\ pc'[c] = "options"
    BY <1>0, <1>8 DEF TypeOK
  <2>2. \A m \in Fds \ {n} : fd'[m] = fd[m]
    BY <1>8 DEF TypeOK
  <2>3. /\ fd'[n].owner = fd[n].owner /\ fd'[n] # Free
        /\ o.opt = "nodelay" => fd'[n] = [fd[n] EXCEPT !.nodelay = TRUE]
        /\ o.opt = "nonblock" => fd'[n] = [fd[n] EXCEPT !.nonblock = TRUE]
        /\ o.opt = "clear_cloexec" => fd'[n] = [fd[n] EXCEPT !.cloexec = FALSE]
    BY <1>3, <1>5, <1>8, NamesAssumption, ZenonT(60) DEF TypeOK, OptionNames, OpenFds
  <2>. HIDE DEF o
  <2>4. /\ fd'[n].nodelay <=> (fd[n].nodelay \/ o.opt = "nodelay")
        /\ fd'[n].nonblock <=> (fd[n].nonblock \/ o.opt = "nonblock")
        /\ fd'[n].cloexec <=> (fd[n].cloexec /\ o.opt # "clear_cloexec")
    BY <1>3, <1>5, <2>3 DEF OptionNames, OpenFds
  <2>5. OwnedBy(c)' = OwnedBy(c)
    BY <1>4, <2>2, <2>3 DEF OwnedBy
  <2>6. ask[c].cloexec => o.opt # "clear_cloexec"
    BY <1>0, <1>1, <1>3 DEF FlagInv, EndInv, Awaits
  <2>7. \A m \in OwnedBy(c) : ask[c].cloexec => fd'[m].cloexec
    BY <1>0, <2>2, <2>4, <2>6 DEF FlagInv, OwnedBy
  <2>8. ASSUME NEW e \in Ends
        PROVE  EndInv(c, e)'
    <3>1. EndInv(c, e)
      BY <1>0 DEF FlagInv
    <3>2. \A p \in OptionNames : Awaits(c, e, p) <=> Awaits(c, e, p)' \/ (o.end = e /\ o.opt = p)
      <4>1. \A p \in OptionNames : Option(e, p) = o <=> o.end = e /\ o.opt = p
        BY <1>3 DEF Option
      <4>. QED BY <1>1, <2>1, <4>1 DEF Awaits
    <3>3. held'[c][e] = held[c][e] /\ held[c][e] \in Fds
      BY <1>0, <1>2 DEF Ends
    <3>4. CASE e = o.end
      <4>1. /\ fd'[held'[c][e]] = fd'[n] /\ fd[held[c][e]] = fd[n]
        BY <1>4, <3>3, <3>4
      <4>. QED BY <1>0, <2>4, <2>6, <3>1, <3>2, <3>4, <4>1 DEF EndInv, OptionNames
    <3>5. CASE e # o.end
      <4>1. held[c][e] # n
        BY <1>2, <1>3, <1>4, <3>5 DEF CallInv, Owner, Ends
      <4>2. fd'[held'[c][e]] = fd[held[c][e]]
        BY <2>2, <3>3, <4>1
      <4>. QED BY <1>0, <3>1, <3>2, <3>5, <4>2 DEF EndInv, OptionNames
    <3>. QED BY <3>4, <3>5
  <2>. QED BY <1>0, <1>6, <2>1, <2>5, <2>7, <2>8 DEF FlagInv
<1>9. \/ Fail(c) /\ UNCHANGED fd
      \/ /\ fd' = [fd EXCEPT ![n] = r]
         /\ opts' = [opts EXCEPT ![c] = Tail(@)]
         /\ UNCHANGED <<pc, errno>>
  BY <1>4 DEF SetOption
<1>. QED BY <1>7, <1>8, <1>9

\* With no option left, both ends are as asked.
LEMMA PublishFlags ==
  ASSUME NEW c \in Callers, TypeOK, CallInv(c), FlagInv(c), Publish(c)
  PROVE  FlagInv(c)' /\ Elsewhere(c)
<1>1. /\ pc[c] = "options" /\ opts[c] = <<>> /\ pc'[c] = "done" /\ sv'[c] = held[c]
      /\ fd' = fd /\ ask' = ask
  BY DEF Publish, TypeOK, Goto
<1>2. \A e \in Ends, p \in OptionNames : ~Awaits(c, e, p)
  BY <1>1 DEF Awaits, Values
<1>3. held[c] \in Seq(Fds) /\ DOMAIN held[c] = {1, 2}
  BY <1>1, Indices DEF TypeOK, CallInv, Count
<1>4. \A e \in Ends : /\ held[c][e] \in OwnedBy(c) /\ fd[held[c][e]] \in OpenFds
                     /\ EndInv(c, e)
  BY <1>1, <1>3 DEF CallInv, Owner, Ends, FlagInv, OwnedBy, TypeOK
<1>5. ask[c] \in Asks
  BY DEF TypeOK
<1>6. ASSUME NEW e \in Ends
      PROVE  /\ fd[held[c][e]].nodelay
             /\ fd[held[c][e]].nonblock = ask[c].nonblock
             /\ fd[held[c][e]].cloexec = ask[c].cloexec
  <2>1. ~Awaits(c, e, "nodelay") /\ ~Awaits(c, e, "nonblock") /\ ~Awaits(c, e, "clear_cloexec")
    BY <1>2 DEF OptionNames
  <2>2. /\ fd[held[c][e]].nodelay
        /\ ask[c].nonblock <=> fd[held[c][e]].nonblock
        /\ ~ask[c].cloexec => ~fd[held[c][e]].cloexec
    BY <1>4, <2>1 DEF EndInv
  <2>3. ask[c].cloexec => fd[held[c][e]].cloexec
    BY <1>4 DEF FlagInv
  <2>4. /\ fd[held[c][e]].nonblock \in BOOLEAN /\ fd[held[c][e]].cloexec \in BOOLEAN
        /\ ask[c].nonblock \in BOOLEAN /\ ask[c].cloexec \in BOOLEAN
    BY <1>4, <1>5 DEF OpenFds, Asks
  <2>. QED BY <2>2, <2>3, <2>4
<1>7. \A n \in OwnedBy(c)' : ask'[c].cloexec => fd'[n].cloexec
  BY <1>1 DEF FlagInv, OwnedBy
<1>8. \A n \in Result(c)' : \E e \in Ends : n = held[c][e]
  BY <1>1 DEF Result, Ends
<1>9. FlagInv(c)'
  BY <1>1, <1>6, <1>7, <1>8 DEF FlagInv
<1>10. Elsewhere(c)
  BY DEF Publish, Elsewhere
<1>. QED BY <1>9, <1>10

\* Cleaning up, returning, beginning and finishing.
LEMMA UnwindFlags ==
  ASSUME NEW c \in Callers, TypeOK, CallInv(c), FlagInv(c), Unwind(c)
  PROVE  FlagInv(c)' /\ Elsewhere(c)
<1>1. pc[c] = "unwind" /\ pc' = pc /\ ask' = ask /\ held[c] \in Seq(Fds) /\ held[c] # <<>>
  BY DEF Unwind, TypeOK
<1>2. Len(held[c]) \in DOMAIN held[c]
  BY <1>1, OlderProperties
<1>3. Newest(held[c]) \in Fds
  BY <1>2 DEF CallInv, Owner, OwnedBy, Newest
<1>4. \A m \in OwnedBy(c)' : m \in OwnedBy(c) /\ fd'[m] = fd[m]
  BY <1>3 DEF Unwind, TypeOK, OwnedBy
<1>. QED BY <1>1, <1>4 DEF FlagInv, Unwind, TypeOK, Elsewhere

LEMMA ReturnErrFlags ==
  ASSUME NEW c \in Callers, TypeOK, FlagInv(c), ReturnErr(c)
  PROVE  FlagInv(c)' /\ Elsewhere(c)
<1>1. /\ pc[c] = "unwind" /\ pc'[c] = "done" /\ ret'[c] = -1 /\ -1 # 0 /\ fd' = fd /\ ask' = ask
  BY DEF ReturnErr, TypeOK, Goto
<1>. QED BY <1>1 DEF ReturnErr, FlagInv, OwnedBy, Elsewhere

\* A call that is idle owns no descriptor.
LEMMA IdleOwnsNothing ==
  ASSUME NEW c \in Callers, TypeOK, CallInv(c), pc[c] = "idle"
  PROVE  OwnedBy(c) = {}
<1>1. DOMAIN held[c] = {}
  BY Indices DEF CallInv, Count, TypeOK
<1>2. Result(c) = {Unset}
  BY DEF CallInv, Pending, Result
<1>. QED BY <1>1, <1>2, NamesAssumption DEF CallInv, Owner, OwnedBy

LEMMA StartFlags ==
  ASSUME NEW c \in Callers, TypeOK, CallInv(c), FlagInv(c), Start(c)
  PROVE  FlagInv(c)' /\ Elsewhere(c)
<1>1. OwnedBy(c)' = {}
  BY IdleOwnsNothing DEF Start, OwnedBy
<1>2. pc'[c] = "listener" \/ (pc'[c] = "done" /\ ret'[c] # 0)
  BY DEF Start, TypeOK, Goto
<1>3. Elsewhere(c)
  BY DEF Start, TypeOK, Elsewhere
<1>. QED BY <1>1, <1>2, <1>3 DEF FlagInv

LEMMA FinishFlags ==
  ASSUME NEW c \in Callers, TypeOK, TypeOK', CallInv(c)', Finish(c)
  PROVE  FlagInv(c)' /\ Elsewhere(c)
<1>1. pc'[c] = "idle"
  BY DEF Finish, TypeOK, Goto
<1>2. OwnedBy(c)' = {}
  <2>1. DOMAIN held'[c] = {}
    BY <1>1, Indices DEF CallInv, Count, TypeOK
  <2>2. Result(c)' = {Unset}
    BY <1>1 DEF CallInv, Pending, Result
  <2>. QED BY <2>1, <2>2, NamesAssumption DEF CallInv, Owner, OwnedBy
<1>3. Elsewhere(c)
  BY DEF Finish, TypeOK, Elsewhere
<1>. QED BY <1>1, <1>2, <1>3 DEF FlagInv
-------------------------------------------------------------------------------
(* The invariant *)

LEMMA InitFlags == Init => FlagsInv
<1>1. ASSUME Init, NEW c \in Callers
      PROVE  FlagInv(c)
  <2>1. OwnedBy(c) = {} /\ pc[c] = "idle"
    BY <1>1 DEF Init, OwnedBy
  <2>. QED BY <2>1 DEF FlagInv
<1>. QED BY <1>1 DEF FlagsInv

LEMMA NextFlags ==
  ASSUME PairInv, PairInv', FlagsInv, [Next]_vars
  PROVE  FlagsInv'
<1>1. ASSUME NEW c \in Callers, Start(c) \/ Call(c) \/ Finish(c)
      PROVE  FlagsInv'
  <2>0. TypeOK /\ CallInv(c) /\ FlagInv(c) /\ TypeOK' /\ CallInv(c)'
    BY DEF PairInv, FlagsInv
  <2>1. FlagInv(c)' /\ FlagFrame(c)
    <3>1. CASE MakeSocket(c, "listener", "bind")
      BY <2>0, <3>1, MakeSocketStep, MakeSocketFlags DEF FlagFrame
    <3>2. CASE MakeSocket(c, "client", "connect")
      BY <2>0, <3>2, MakeSocketStep, MakeSocketFlags DEF FlagFrame
    <3>3. CASE Prepare(c, "bind", "listen")
      BY <2>0, <3>3, PrepareStep, PrepareFlags DEF FlagFrame
    <3>4. CASE Prepare(c, "listen", "name_listener")
      BY <2>0, <3>4, PrepareStep, PrepareFlags DEF FlagFrame
    <3>5. CASE Prepare(c, "name_listener", "client")
      BY <2>0, <3>5, PrepareStep, PrepareFlags DEF FlagFrame
    <3>6. CASE Prepare(c, "name_client", "accept")
      BY <2>0, <3>6, PrepareStep, PrepareFlags DEF FlagFrame
    <3>7. CASE Connect(c)
      BY <2>0, <3>7, ConnectStep, ConnectFlags DEF FlagFrame
    <3>8. CASE Accept(c)
      BY <2>0, <3>8, AcceptStep, AcceptFlags DEF FlagFrame
    <3>9. CASE Compare(c)
      BY <2>0, <3>9, CompareStep, CompareFlags DEF FlagFrame, Elsewhere, Compare
    <3>10. CASE DropListener(c)
      BY <2>0, <3>10, DropListenerStep, DropListenerFlags DEF FlagFrame
    <3>11. CASE SetOption(c)
      BY <2>0, <3>11, SetOptionStep, SetOptionFlags DEF FlagFrame
    <3>12. CASE Publish(c)
      BY <2>0, <3>12, PublishStep, PublishFlags DEF FlagFrame
    <3>13. CASE Unwind(c)
      BY <2>0, <3>13, UnwindStep, UnwindFlags DEF FlagFrame
    <3>14. CASE ReturnErr(c)
      BY <2>0, <3>14, ReturnErrStep, ReturnErrFlags DEF FlagFrame
    <3>15. CASE Start(c)
      BY <2>0, <3>15, StartStep, StartFlags DEF FlagFrame
    <3>16. CASE Finish(c)
      BY <2>0, <3>16, FinishStep, FinishFlags DEF FlagFrame
    <3>. QED BY <1>1, <3>1, <3>2, <3>3, <3>4, <3>5, <3>6, <3>7, <3>8,
                <3>9, <3>10, <3>11, <3>12, <3>13, <3>14, <3>15, <3>16 DEF Call
  <2>2. \A d \in Callers \ {c} : FlagInv(d)'
    BY <2>0, <2>1, OthersKeepFlags DEF PairInv, FlagsInv
  <2>. QED BY <2>1, <2>2 DEF FlagsInv
<1>2. ASSUME NEW c \in Callers, ForeignConnect(c)
      PROVE  FlagsInv'
  <2>1. UNCHANGED <<fd, pc, ask, held, opts, sv, ret>>
    BY <1>2 DEF ForeignConnect
  <2>2. \A d \in Callers : queue[d] # <<>> => queue'[d] # <<>>
    <3>1. queue[c] \in Seq(Callers \union {Foreign})
      BY DEF PairInv, TypeOK
    <3>2. Append(queue[c], Foreign) # <<>>
      BY <3>1
    <3>. QED BY <1>2, <3>2 DEF ForeignConnect, PairInv, TypeOK
  <2>3. \A d \in Callers : FlagInv(d)'
    BY <2>1, <2>2 DEF FlagsInv, FlagInv, EndInv, Awaits, OwnedBy, Result
  <2>. QED BY <2>3 DEF FlagsInv
<1>3. ASSUME NEW n \in Fds, OpenFile(n) \/ CloseFile(n)
      PROVE  FlagsInv'
  <2>1. TypeOK /\ TypeOK' /\ FlagFrame("file")
    BY <1>3, FileStep DEF PairInv, FlagFrame, Elsewhere, OpenFile, CloseFile, call
  <2>2. \A d \in Callers : d \in Callers \ {"file"}
    BY NamesAssumption
  <2>3. \A d \in Callers : FlagInv(d)'
    BY <2>1, <2>2, OthersKeepFlags DEF PairInv, FlagsInv
  <2>. QED BY <2>3 DEF FlagsInv
<1>4. CASE UNCHANGED vars
  BY <1>4 DEF vars, call, FlagsInv, FlagInv, EndInv, Awaits, OwnedBy, Result
<1>. QED BY <1>1, <1>2, <1>3, <1>4 DEF Next

LEMMA FlagsInvariant == Spec => []FlagsInv
<1>1. PairInv /\ PairInv' /\ FlagsInv /\ [Next]_vars => FlagsInv'
  BY NextFlags
<1>. QED BY <1>1, InitFlags, PairInvariant, PTL DEF Spec

\* A published pair has the flags that were asked for, on both ends, and no descriptor of a
\* call is inheritable before its connection is established: make_pair opens every socket
\* close-on-exec, and the loop over the two ends leaves no option out.
THEOREM FlagsAsAskedHolds == Spec => []FlagsAsAsked
<1>1. FlagsInv => FlagsAsAsked
  BY DEF FlagsInv, FlagInv, FlagsAsAsked, Listening
<1>. QED BY <1>1, FlagsInvariant, PTL

\* A call that has come to accept4 finds a connection queued, its own or an earlier one,
\* whatever the backlog: its connect has succeeded, and nobody else takes from the queue.
THEOREM AcceptNeverWaitsHolds == Spec => []AcceptNeverWaits
<1>1. FlagsInv => AcceptNeverWaits
  BY DEF FlagsInv, FlagInv, AcceptNeverWaits
<1>. QED BY <1>1, FlagsInvariant, PTL

-------------------------------------------------------------------------------
(* The calls of socketpair, one by one, and the pair given in one instant.     *)

\* The owner of an open descriptor is a call or the rest of the program.
LEMMA OwnersAre ==
  ASSUME TypeOK, NEW n \in Fds, fd[n] # Free
  PROVE  fd[n] \in OpenFds /\ fd[n].owner \in Callers \union {"file"}
BY DEF TypeOK, OpenFds

\* What a call does between its beginning and its end shows nowhere.
LEMMA HiddenStep ==
  ASSUME NEW c \in Callers, TypeOK, TypeOK', Frame(c), UNCHANGED <<ask, sv>>,
         pc[c] \notin {"idle", "done"}, pc'[c] \notin {"idle", "done"}
  PROVE  UNCHANGED Atomic!vars
<1>1. \A n \in Fds : \/ fd'[n] = fd[n]
                     \/ /\ fd[n] = Free \/ fd[n].owner = c
                        /\ fd'[n] = Free \/ fd'[n].owner = c
  BY DEF Frame
<1>2. \A d \in Callers \ {c} : pc'[d] = pc[d] /\ errno'[d] = errno[d] /\ ret'[d] = ret[d]
  BY DEF Frame
<1>3. Files' = Files
  BY <1>1, NamesAssumption DEF Files
<1>4. \A n \in Fds : (n \in Shown)' <=> n \in Shown
  BY <1>1, <1>2, OwnersAre, ZenonT(60) DEF Shown, TypeOK, OpenFds
<1>5. \A n \in Shown : fd'[n] = fd[n]
  BY <1>1 DEF Shown
<1>6. PairEnds' = PairEnds
  <2>1. Shown' = Shown
    BY <1>4 DEF Shown
  <2>. QED BY <2>1, <1>5 DEF PairEnds
<1>7. Answer' = Answer
  BY <1>2 DEF Answer
<1>. QED BY <1>3, <1>6, <1>7 DEF Atomic!vars

\* Neither do the connections of other processes.
LEMMA QuietStep ==
  ASSUME UNCHANGED <<fd, pc, ask, sv, errno, ret>>
  PROVE  UNCHANGED Atomic!vars
<1>1. Files' = Files /\ Shown' = Shown /\ Answer' = Answer
  BY DEF Files, Shown, Answer
<1>2. PairEnds' = PairEnds
  BY <1>1 DEF PairEnds
<1>. QED BY <1>1, <1>2 DEF Atomic!vars

\* A call starts with what the abstract one is asked.
LEMMA StartAsks ==
  ASSUME NEW c \in Callers, PairInv, PairInv', Start(c)
  PROVE  Atomic!Ask(c)
<1>1. /\ pc[c] = "idle" /\ fd' = fd /\ sv' = sv
      /\ \/ pc'[c] = "listener"
         \/ pc'[c] = "done" /\ errno'[c] = "EFAULT" /\ ret'[c] = -1
      /\ \A d \in Callers \ {c} : pc'[d] = pc[d] /\ errno'[d] = errno[d] /\ ret'[d] = ret[d]
  BY DEF Start, TypeOK, PairInv, Goto
<1>2. OwnedBy(c) = {}
  BY <1>1, IdleOwnsNothing DEF PairInv
<1>3. Files' = Files
  BY <1>1 DEF Files
<1>4. \A n \in Fds : fd[n] # Free => fd[n].owner # c
  BY <1>2 DEF OwnedBy
<1>5. Shown' = Shown
  BY <1>1, <1>4, OwnersAre DEF Shown, PairInv
<1>6. PairEnds' = PairEnds
  BY <1>1, <1>5 DEF PairEnds
<1>7. Answer[c] = "idle"
  BY <1>1 DEF Answer
<1>8. \E r \in {"waiting", "EFAULT"} : Answer' = [Answer EXCEPT ![c] = r]
  <2>1. CASE pc'[c] = "listener"
    <3>1. Answer' = [Answer EXCEPT ![c] = "waiting"]
      BY <1>1, <2>1 DEF Answer
    <3>. QED BY <3>1
  <2>2. CASE pc'[c] = "done" /\ errno'[c] = "EFAULT" /\ ret'[c] = -1
    <3>0. ret'[c] # 0
      BY <2>2
    <3>1. Answer' = [Answer EXCEPT ![c] = "EFAULT"]
      BY <1>1, <2>2, <3>0 DEF Answer
    <3>. QED BY <3>1
  <2>. QED BY <1>1, <2>1, <2>2
<1>9. \E a \in [nonblock : BOOLEAN, cloexec : BOOLEAN] : ask' = [ask EXCEPT ![c] = a]
  BY DEF Start, Asks
<1>. QED BY <1>1, <1>3, <1>6, <1>7, <1>8, <1>9 DEF Atomic!Ask

\* Both descriptors come to light with the publication, whole.
LEMMA PublishGives ==
  ASSUME NEW c \in Callers, PairInv, PairInv', FlagsInv', Publish(c)
  PROVE  Atomic!Give(c)
<1> DEFINE m == held[c][1]
           n == held[c][2]
<1>0. TypeOK /\ TypeOK' /\ CallInv(c) /\ CallInv(c)' /\ FlagInv(c)'
  BY DEF PairInv, FlagsInv
<1>1. /\ pc[c] = "options" /\ pc'[c] = "done" /\ ret'[c] = 0 /\ sv' = [sv EXCEPT ![c] = held[c]]
      /\ sv'[c] = held[c] /\ fd' = fd /\ ask' = ask /\ errno' = errno
      /\ \A d \in Callers \ {c} : pc'[d] = pc[d] /\ ret'[d] = ret[d]
  BY <1>0 DEF Publish, TypeOK, Goto
<1>2. held[c] \in Seq(Fds) /\ DOMAIN held[c] = {1, 2} /\ held[c] = <<m, n>>
  BY <1>0, <1>1, Indices DEF TypeOK, CallInv, Count
<1>3. m \in OwnedBy(c) /\ n \in OwnedBy(c) /\ m # n
  BY <1>0, <1>2 DEF CallInv, Owner
<1>4. OwnedBy(c)' = {m, n}
  <2>1. Result(c)' = {m, n} /\ DOMAIN held'[c] = {}
    BY <1>0, <1>1, <1>2, Indices DEF Result, TypeOK, CallInv, Count
  <2>2. OwnedBy(c)' \subseteq {m, n}
    BY <1>0, <2>1 DEF CallInv, Owner, OwnedBy
  <2>3. OwnedBy(c)' = OwnedBy(c)
    BY <1>1 DEF OwnedBy
  <2>. QED BY <1>3, <2>2, <2>3
<1>5. {m, n} \subseteq Fds \ (Files \union DOMAIN PairEnds)
  <2>1. DOMAIN PairEnds = Shown
    BY DEF PairEnds
  <2>. QED BY <1>1, <1>3, <2>1, NamesAssumption DEF OwnedBy, Files, Shown
<1>6. Shown' = Shown \union {m, n}
  <2>1. ASSUME NEW k \in Fds
        PROVE  (k \in Shown)' <=> k \in Shown \union {m, n}
    <3>1. CASE fd[k] # Free /\ fd[k].owner = c
      <4>1. k \in OwnedBy(c)'
        BY <1>1, <3>1 DEF OwnedBy
      <4>2. (k \in Shown)'
        BY <1>1, <3>1, NamesAssumption DEF Shown
      <4>. QED BY <1>4, <4>1, <4>2
    <3>2. CASE fd[k] = Free \/ fd[k].owner # c
      <4>1. k \notin {m, n}
        BY <1>3, <3>2 DEF OwnedBy
      <4>. QED BY <1>0, <1>1, <3>2, <4>1, OwnersAre DEF Shown
    <3>. QED BY <3>1, <3>2
  <2>2. {m, n} \subseteq Fds
    BY <1>3 DEF OwnedBy
  <2>. QED BY <2>1, <2>2 DEF Shown
<1>7. ASSUME NEW k \in {m, n}
      PROVE  /\ fd[k].conn = c /\ fd[k].nodelay = TRUE
             /\ fd[k].nonblock = ask[c].nonblock /\ fd[k].cloexec = ask[c].cloexec
  <2>1. k \in Result(c)'
    BY <1>1, <1>2 DEF Result
  <2>2. fd[k].conn = c
    BY <1>0, <1>1, <2>1 DEF CallInv, Conn
  <2>3. fd[k] \in OpenFds
    BY <1>0, <1>3, <1>7 DEF OwnedBy, TypeOK
  <2>4. fd[k].nodelay /\ fd[k].nonblock = ask[c].nonblock /\ fd[k].cloexec = ask[c].cloexec
    BY <1>0, <1>1, <2>1 DEF FlagInv
  <2>. QED BY <2>2, <2>3, <2>4 DEF OpenFds
<1>8. PairEnds' = [k \in DOMAIN PairEnds \union {m, n} |->
                     IF k \in {m, n} THEN Atomic!End(c) ELSE PairEnds[k]]
  <2>1. DOMAIN PairEnds = Shown
    BY DEF PairEnds
  <2>2. \A k \in {m, n} : [conn |-> fd[k].conn, nodelay |-> fd[k].nodelay,
                           nonblock |-> fd[k].nonblock, cloexec |-> fd[k].cloexec] = Atomic!End(c)
    BY <1>7 DEF Atomic!End
  <2>3. PairEnds' = [k \in Shown \union {m, n} |->
                       [conn |-> fd[k].conn, nodelay |-> fd[k].nodelay,
                        nonblock |-> fd[k].nonblock, cloexec |-> fd[k].cloexec]]
    BY <1>1, <1>6 DEF PairEnds
  <2>4. \A k \in Shown : PairEnds[k] = [conn |-> fd[k].conn, nodelay |-> fd[k].nodelay,
                                       nonblock |-> fd[k].nonblock, cloexec |-> fd[k].cloexec]
    BY DEF PairEnds
  <2> HIDE DEF m, n
  <2>. QED BY <2>1, <2>2, <2>3, <2>4
<1>9. Answer[c] = "waiting" /\ Answer' = [Answer EXCEPT ![c] = "given"]
  BY <1>1 DEF Answer
<1>10. Files' = Files
  BY <1>1 DEF Files
<1>11. sv' = [sv EXCEPT ![c] = <<m, n>>]
  BY <1>1, <1>2
<1> HIDE DEF m, n
<1>. QED BY <1>1, <1>3, <1>5, <1>8, <1>9, <1>10, <1>11 DEF Atomic!Give, Atomic!Unused

\* A failed call returns when it has closed all it opened.
LEMMA ReturnErrFails ==
  ASSUME NEW c \in Callers, PairInv, ReturnErr(c)
  PROVE  Atomic!Fail(c)
<1>0. TypeOK /\ CallInv(c)
  BY DEF PairInv
<1>1. /\ pc[c] = "unwind" /\ held[c] = <<>> /\ pc'[c] = "done" /\ ret'[c] = -1
      /\ fd' = fd /\ ask' = ask /\ sv' = sv /\ errno' = errno
      /\ \A d \in Callers \ {c} : pc'[d] = pc[d] /\ ret'[d] = ret[d]
  BY <1>0 DEF ReturnErr, TypeOK, Goto
<1>2. OwnedBy(c) = {}
  <2>1. Result(c) = {Unset}
    BY <1>0, <1>1 DEF CallInv, Pending, Result
  <2>2. DOMAIN held[c] = {}
    BY <1>1
  <2>. QED BY <1>0, <2>1, <2>2, NamesAssumption DEF CallInv, Owner, OwnedBy
<1>3. Files' = Files
  BY <1>1 DEF Files
<1>4. \A n \in Fds : fd[n] # Free => fd[n].owner # c
  BY <1>2 DEF OwnedBy
<1>5. Shown' = Shown
  BY <1>0, <1>1, <1>4, OwnersAre DEF Shown
<1>6. PairEnds' = PairEnds
  BY <1>1, <1>5 DEF PairEnds
<1>7. errno[c] = "setup" /\ ret'[c] # 0
  BY <1>0, <1>1 DEF CallInv, Pending
<1>8. Answer[c] = "waiting" /\ Answer' = [Answer EXCEPT ![c] = "setup"]
  BY <1>1, <1>7 DEF Answer
<1>. QED BY <1>1, <1>3, <1>6, <1>8 DEF Atomic!Fail

\* The program closes the two ends and nothing else.
LEMMA FinishFinishes ==
  ASSUME NEW c \in Callers, PairInv, Finish(c)
  PROVE  Atomic!Finish(c)
<1>0. TypeOK /\ CallInv(c)
  BY DEF PairInv
<1>1. /\ pc[c] = "done" /\ pc'[c] = "idle" /\ held[c] \in Seq(Fds) /\ DOMAIN held[c] = {}
      /\ fd' = [n \in Fds |-> IF n \in Result(c) THEN Free ELSE fd[n]]
      /\ \A d \in Callers \ {c} : pc'[d] = pc[d] /\ errno'[d] = errno[d] /\ ret'[d] = ret[d]
  BY <1>0, Indices DEF Finish, TypeOK, Goto, CallInv, Count, Result
<1>2. OwnedBy(c) \subseteq Result(c)
  BY <1>0, <1>1 DEF CallInv, Owner, OwnedBy
<1>3. Result(c) \intersect Fds \subseteq OwnedBy(c)
  <2>1. ret[c] # 0 => Result(c) = {Unset}
    BY <1>0 DEF CallInv, Pending, Result
  <2>. QED BY <1>0, <1>1, <2>1, NamesAssumption DEF CallInv, Pending
<1>4. \A n \in Fds : n \in Result(c) <=> fd[n] # Free /\ fd[n].owner = c
  BY <1>2, <1>3 DEF OwnedBy
<1>5. Files' = Files
  BY <1>1, <1>4, NamesAssumption DEF Files
<1>6. Shown' = Shown \ Result(c)
  BY <1>0, <1>1, <1>4, OwnersAre DEF Shown
<1>7. PairEnds' = [k \in DOMAIN PairEnds \ {sv[c][1], sv[c][2]} |-> PairEnds[k]]
  <2>1. DOMAIN PairEnds = Shown /\ Result(c) = {sv[c][1], sv[c][2]}
    BY DEF PairEnds, Result
  <2>2. \A k \in Shown \ Result(c) : fd'[k] = fd[k]
    BY <1>1 DEF Shown
  <2>. QED BY <1>6, <2>1, <2>2 DEF PairEnds
<1>8. Answer[c] \in {"given", "EFAULT", "setup"}
  BY <1>0, <1>1 DEF Answer, CallInv, Pending
<1>9. Answer' = [Answer EXCEPT ![c] = "idle"]
  BY <1>1 DEF Answer
<1>10. /\ ask' = [ask EXCEPT ![c] = [nonblock |-> FALSE, cloexec |-> FALSE]]
       /\ sv' = [sv EXCEPT ![c] = <<Unset, Unset>>]
  BY DEF Finish, Plain
<1>. QED BY <1>5, <1>7, <1>8, <1>9, <1>10 DEF Atomic!Finish

LEMMA FilesStep ==
  ASSUME NEW n \in Fds, PairInv, OpenFile(n) \/ CloseFile(n)
  PROVE  Atomic!OpenFile(n) \/ Atomic!CloseFile(n)
<1>0. TypeOK /\ UNCHANGED <<pc, ask, sv, errno, ret>>
  BY DEF PairInv, OpenFile, CloseFile, call
<1>1. /\ \A k \in Fds \ {n} : fd'[k] = fd[k]
      /\ fd[n] = Free \/ fd[n].owner = "file"
      /\ fd'[n] = Free \/ fd'[n].owner = "file"
  BY <1>0, OpenFdType, ZenonT(60) DEF OpenFile, CloseFile, TypeOK
<1>2. Shown' = Shown /\ n \notin Shown
  BY <1>0, <1>1 DEF Shown
<1>3. PairEnds' = PairEnds /\ DOMAIN PairEnds = Shown
  BY <1>1, <1>2 DEF PairEnds, Shown
<1>4. Answer' = Answer
  BY <1>0 DEF Answer
<1>5. CASE OpenFile(n)
  <2>1. fd[n] = Free /\ fd'[n] # Free /\ fd'[n].owner = "file"
    BY <1>0, <1>5, OpenFdType DEF OpenFile, TypeOK
  <2>2. n \notin Files /\ Files' = Files \union {n}
    BY <1>1, <2>1 DEF Files
  <2>. QED BY <1>0, <1>2, <1>3, <1>4, <2>2 DEF Atomic!OpenFile, Atomic!Unused
<1>6. CASE CloseFile(n)
  <2>1. fd[n] # Free /\ fd[n].owner = "file" /\ fd'[n] = Free
    BY <1>0, <1>6 DEF CloseFile, TypeOK
  <2>2. n \in Files /\ Files' = Files \ {n}
    BY <1>1, <2>1 DEF Files
  <2>. QED BY <1>0, <1>3, <1>4, <2>2 DEF Atomic!CloseFile
<1>. QED BY <1>5, <1>6

LEMMA InitAtomic == Init => Atomic!Init
<1> SUFFICES ASSUME Init PROVE Atomic!Init
  OBVIOUS
<1>1. Files = {} /\ Shown = {}
  BY DEF Init, Files, Shown
<1>2. PairEnds = [n \in {} |-> {}]
  BY <1>1 DEF PairEnds
<1>3. Answer = [c \in Callers |-> "idle"]
  BY DEF Init, Answer
<1>. QED BY <1>1, <1>2, <1>3 DEF Init, Plain, Atomic!Init

\* Every step is a step of the pair made in one instant, or shows nothing.
LEMMA NextAtomic ==
  ASSUME PairInv, PairInv', FlagsInv', [Next]_vars
  PROVE  [Atomic!Next]_(Atomic!vars)
<1>1. ASSUME NEW c \in Callers, Call(c), ~Publish(c), ~ReturnErr(c)
      PROVE  UNCHANGED Atomic!vars
  <2>1. TypeOK /\ TypeOK' /\ CallInv(c) /\ Frame(c)
    BY <1>1, CallStep DEF PairInv
  <2>2. /\ pc[c] \notin {"idle", "done"} /\ pc'[c] \notin {"idle", "done"}
        /\ UNCHANGED <<ask, sv>>
    BY <1>1, <2>1 DEF Call, MakeSocket, Prepare, Connect, Accept, Compare, DropListener,
                      SetOption, Unwind, Fail, Goto, TypeOK
  <2>. QED BY <2>1, <2>2, HiddenStep
<1>2. ASSUME NEW c \in Callers, Start(c) \/ Finish(c) \/ Publish(c) \/ ReturnErr(c)
      PROVE  Atomic!Next
  BY <1>2, StartAsks, FinishFinishes, PublishGives, ReturnErrFails DEF Atomic!Next
<1>3. ASSUME NEW c \in Callers, ForeignConnect(c)
      PROVE  UNCHANGED Atomic!vars
  BY <1>3, QuietStep DEF ForeignConnect
<1>4. ASSUME NEW n \in Fds, OpenFile(n) \/ CloseFile(n)
      PROVE  Atomic!Next
  BY <1>4, FilesStep DEF Atomic!Next
<1>5. CASE UNCHANGED vars
  BY <1>5, QuietStep DEF vars, call
<1>. QED BY <1>1, <1>2, <1>3, <1>4, <1>5 DEF Next

\* socketpair built of a dozen calls, each of which may fail, while other threads open,
\* close and connect, implements one that gives a private pair or fails in one instant.
THEOREM PairRefinement == Spec => ImplementsAtomicPair
<1>1. PairInv /\ PairInv' /\ FlagsInv' /\ [Next]_vars => [Atomic!Next]_(Atomic!vars)
  BY NextAtomic
<1>. QED BY <1>1, InitAtomic, PairInvariant, FlagsInvariant, PTL
         DEF Spec, Atomic!Spec, ImplementsAtomicPair

===============================================================================
