-------------------------------- MODULE Xlate --------------------------------
(***************************************************************************)
(* The translations between Linux's numbers and the host's that            *)
(* crates/cosmo-compat/src/xlate.rs makes over a group of constants.       *)
(*                                                                         *)
(* A group g is a record of names and two columns, Linux's and the host's. *)
(* The values of an "enum" group are integers; those of a "mask" group are *)
(* sets of bits, so an i64 of -1 is the set of all 64 of them.             *)
(***************************************************************************)
EXTENDS Integers, Sequences, FiniteSets, SequencesExt

AllBits == 0..63

\* Host and Linux agree on every value: every translation is the identity.
Identity(g) == g.linux = g.host

\* The first position of column col that holds v, if there is one.
Holds(col, v) == {i \in DOMAIN col : col[i] = v}
First(col, v) == Min(Holds(col, v))

-------------------------------------------------------------------------------

\* Names may share a Linux number.  The first stands if the host has it; the
\* host's 0 is a number of its own only there.
EnumToHost(g, v) ==
  LET rows == Holds(g.linux, v)
      first == First(g.linux, v)
      others == {i \in rows : g.host[i] \notin {-1, 0}}
  IN  CASE rows = {} -> v
        [] rows # {} /\ (g.host[first] # -1 \/ others = {}) -> g.host[first]
        [] OTHER -> g.host[Min(others)]

\* A host's 0 or -1 marks a constant it lacks and is never matched.
EnumToLinux(g, v) ==
  IF v \in {0, -1} \/ Holds(g.host, v) = {} THEN v ELSE g.linux[First(g.host, v)]

\* 0 or negative, read as an i64: no constant of this host.
AbsentMask(m) == m = {} \/ 63 \in m

\* mask() comes to a column's constants of many bits before those of few, else to the rows
\* as they stand.
Before(col, i, j) ==
  \/ Cardinality(col[i]) > Cardinality(col[j])
  \/ Cardinality(col[i]) = Cardinality(col[j]) /\ i < j

Rank(col, i) == Cardinality({j \in DOMAIN col : Before(col, j, i)})

Walk(col) == [k \in DOMAIN col |-> CHOOSE i \in DOMAIN col : Rank(col, i) = k - 1]

\* Mutant: what a constant has been found in stays to be found again.
MaskKeeping(v, from, to, skipAbsent) ==
  v \union UNION {to[i] : i \in {j \in DOMAIN from : from[j] # {} /\ from[j] \subseteq v}}

\* A constant found in what is left is taken out of it and put into the result in the other
\* numbering.
TakeRow(from, to, skipAbsent, acc, i) ==
  IF from[i] # {} /\ from[i] \subseteq acc.rest /\ ~(skipAbsent /\ AbsentMask(from[i]))
    THEN [out |-> acc.out \union to[i], rest |-> acc.rest \ from[i]]
    ELSE acc

\* Row after row; bits no row describes stay as they are.
Mask(v, from, to, skipAbsent) ==
  LET end == FoldLeft(LAMBDA acc, i : TakeRow(from, to, skipAbsent, acc, i),
                      [out |-> {}, rest |-> v], Walk(from))
  IN  end.out \union end.rest

ToHost(g, v) ==
  CASE Identity(g) -> v
    [] ~Identity(g) /\ g.kind = "enum" -> EnumToHost(g, v)
    [] ~Identity(g) /\ g.kind = "mask" -> Mask(v, g.linux, g.host, FALSE)

ToLinux(g, v) ==
  CASE Identity(g) -> v
    [] ~Identity(g) /\ g.kind = "enum" -> EnumToLinux(g, v)
    [] ~Identity(g) /\ g.kind = "mask" -> Mask(v, g.host, g.linux, TRUE)

-------------------------------------------------------------------------------

\* The rows of errno's group whose host number is v and whose name is one of
\* std's own, in std's order of preference.
PreferredRow(g, preferred, v) ==
  LET knows(k) == \E i \in DOMAIN g.names : g.names[i] = preferred[k] /\ g.host[i] = v
      best == Min({k \in DOMAIN preferred : knows(k)})
  IN  First(g.names, preferred[best])

IsPreferred(g, preferred, v) ==
  \E i \in DOMAIN g.names : g.host[i] = v /\ \E k \in DOMAIN preferred : g.names[i] = preferred[k]

\* The numbers a host's errors have.
ErrorsOf(g) == {g.host[i] : i \in DOMAIN g.host} \ {0, -1}

\* The groups are asked one after the other, until one changes the number.
Chain(groups, v) ==
  FoldLeft(LAMBDA n, g : IF n = v THEN ToLinux(g, v) ELSE n, v, groups)

\* Mutant: no preference among the names that share a host number.
ErrnoToLinuxPlain(t, v) == IF v = 0 THEN 0 ELSE Chain(<<t.errno, t.compat, t.junkerr>>, v)

\* errno_to_linux: the host's errno v as Linux's, over the tables t.
ErrnoToLinux(t, v) ==
  CASE v = 0 -> 0
    [] v # 0 /\ Identity(t.errno) -> v
    [] v # 0 /\ ~Identity(t.errno) /\ IsPreferred(t.errno, t.preferred, v)
         -> t.errno.linux[PreferredRow(t.errno, t.preferred, v)]
    [] OTHER -> Chain(<<t.errno, t.compat, t.junkerr>>, v)

\* A group of integers, its columns whole.
IntGroup(g) ==
  /\ g.kind = "enum"
  /\ g.names \in Seq(STRING)
  /\ DOMAIN g.linux = DOMAIN g.names /\ DOMAIN g.host = DOMAIN g.names
  /\ \A i \in DOMAIN g.names : g.linux[i] \in Int /\ g.host[i] \in Int

\* What errno_to_linux takes for granted of the tables: errno's group has a name once,
\* and a number that it leaves as it is no other group changes, unless std prefers it.
ErrnoTables(t) ==
  /\ IntGroup(t.errno) /\ IntGroup(t.compat) /\ IntGroup(t.junkerr)
  /\ t.preferred \in Seq(STRING)
  /\ \A i, j \in DOMAIN t.errno.names : t.errno.names[i] = t.errno.names[j] => i = j
  /\ \A v \in ErrorsOf(t.errno) :
       ToLinux(t.errno, v) = v /\ ~IsPreferred(t.errno, t.preferred, v)
         => ToLinux(t.compat, v) = v /\ ToLinux(t.junkerr, v) = v

\* The rows of some names, and what mask() takes for granted of them: each is a constant of
\* its own, and what else is found in their bits shares some with one of them that the walk
\* comes to first.
NamedRows(g, names) == {i \in DOMAIN g.names : g.names[i] \in names}

BitsOf(col, rows) == UNION {col[i] : i \in rows}

ToldApart(col, rows, skipAbsent) ==
  LET present(i) == col[i] # {} /\ ~(skipAbsent /\ AbsentMask(col[i]))
  IN  /\ \A i \in rows : present(i)
      /\ \A i, j \in rows : i # j => col[i] \intersect col[j] = {}
      /\ \A j \in DOMAIN col \ rows :
           present(j) /\ col[j] \subseteq BitsOf(col, rows) =>
             \E i \in rows : Before(col, i, j) /\ col[i] \intersect col[j] # {}

==============================================================================
