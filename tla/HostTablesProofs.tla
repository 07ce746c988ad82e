--------------------------- MODULE HostTablesProofs --------------------------
(***************************************************************************)
(* Theorems about HostTables, for any processes, frames, groups, rows,     *)
(* numberings and plans.  The inductive invariant adds to the properties   *)
(* what a frame inside group() knows: that the constants are there once it *)
(* is past the canary, which rows it has stored, and that the word is 2    *)
(* when it reads.                                                          *)
(***************************************************************************)
EXTENDS HostTables, TLAPS

\* Past the canary the constants are there, and no word moves before that.
CanaryHolds ==
  /\ \A f \in Frames : pc[f] \in {"claim", "fill", "reload", "read"} => loaded[ProcOf[f]]
  /\ \A p \in Procs, g \in Groups : ~loaded[p] => word[p][g] = 0

\* A filling frame has stored the host's value in every row it is done with.
StoredRows ==
  \A f \in Frames : pc[f] = "fill" =>
    \A r \in Rows \ left[f] : table[ProcOf[f]][Grp(f)][r] = HostCol[Grp(f)][r]

\* A published table is the host column.
PublishedWhole ==
  \A p \in Procs, g \in Groups : word[p][g] = 2 => table[p][g] = HostCol[g]

\* A frame reads the table only once it is published.
ReadsPublished ==
  \A f \in Frames : pc[f] = "read" => word[ProcOf[f]][Grp(f)] = 2

\* Frames that do not exist are nowhere inside a call.
UnbornIdle ==
  \A f \in Frames : f \notin live => pc[f] = "idle"

\* Until the real call, every socket option came from the host's table.
SockoptsStatic ==
  \A f \in Frames : phase[f] = "before" /\ pc[f] # "idle" =>
    \A v \in got[f] : v.grp \in SockGroups => v.static

\* The real call is issued from the first part of a wrapper.
IssueBefore ==
  \A f \in Frames : pc[f] = "issue" => phase[f] = "before"

FillInv == CanaryHolds /\ ExclusiveFill /\ StoredRows /\ PublishedWhole
           /\ ReadsPublished /\ UnbornIdle

-------------------------------------------------------------------------------

\* Where a call goes after a consult: on to its next group, to the real call
\* from its first part only, or back to the program.
LEMMA ContinuationsKind ==
  ASSUME NEW f \in Frames, NEW v, NEW l \in Continuations(f, v)
  PROVE  /\ l \in {"load", "issue", "idle"}
         /\ l = "load" => Len(todo[f]) > 1
         /\ l = "issue" => phase[f] = "before"
BY DEF Continuations

LEMMA ConsultingNotIdle == "idle" \notin Consulting /\ "issue" \notin Consulting
BY DEF Consulting

\* An answered consult keeps every variable in its type.
LEMMA AnswerTyped ==
  ASSUME TypeOK, NEW f \in Frames, NEW v \in View, Answer(f, v)
  PROVE  TypeOK'
<1>1. PICK l \in Continuations(f, v) :
        /\ pc' = [pc EXCEPT ![f] = l]
        /\ todo' = [todo EXCEPT ![f] = IF l = "load" THEN Tail(@) ELSE <<>>]
  BY DEF Answer, Goto
<1>2. /\ l \in {"load", "issue", "idle"}
      /\ l = "load" => Len(todo[f]) > 1
  BY <1>1, ContinuationsKind
<1>3. todo[f] \in Seq(Groups)
  BY DEF TypeOK
<1>4. l = "load" => Tail(todo[f]) \in Seq(Groups) /\ Tail(todo[f]) # <<>>
  BY <1>2, <1>3, SMTT(30)
<1>5. todo' \in [Frames -> Seq(Groups)]
  BY <1>1, <1>4 DEF TypeOK
<1>6. pc' \in [Frames -> Consulting \union {"idle", "issue"}]
  BY <1>1, <1>2 DEF TypeOK, Consulting
<1>7. got' \in [Frames -> SUBSET View]
  BY DEF Answer, TypeOK
<1>8. \A e \in Frames : pc'[e] \in Consulting => todo'[e] # <<>>
  BY <1>1, <1>2, <1>4, ConsultingNotIdle DEF TypeOK
<1>9. UNCHANGED <<loaded, word, table, live, signals, after, left>>
  BY DEF Answer, memory
<1>10. phase' \in [Frames -> {"before", "after", "errno"}]
  BY DEF Answer, TypeOK
<1> QED
  BY <1>5, <1>6, <1>7, <1>8, <1>9, <1>10 DEF TypeOK

\* The head of what a consulting frame has to do is a group.
LEMMA GrpTyped ==
  ASSUME TypeOK, NEW f \in Frames, pc[f] \in Consulting
  PROVE  /\ Grp(f) \in Groups
         /\ ProcOf[f] \in Procs
         /\ LinuxView(Grp(f)) \in View
         /\ TableView(ProcOf[f], Grp(f)) \in View
<1>1. todo[f] \in Seq(Groups) /\ todo[f] # <<>>
  BY DEF TypeOK
<1>2. Grp(f) \in Groups
  BY <1>1 DEF Grp
<1>3. ProcOf[f] \in Procs
  BY ProcsAssumption
<1>4. table[ProcOf[f]][Grp(f)] \in [Rows -> Int]
  BY <1>2, <1>3 DEF TypeOK
<1> QED
  BY <1>2, <1>3, <1>4, TablesAssumption DEF LinuxView, TableView, View


LEMMA TypeInit == Init => TypeOK
<1> SUFFICES ASSUME Init PROVE TypeOK
  OBVIOUS
<1>1. <<>> \in Seq(Groups)
  OBVIOUS
<1> QED
  BY <1>1, ProcsAssumption, BoundAssumption, ConsultingNotIdle DEF Init, TypeOK

\* Every step keeps every variable in its type.
LEMMA TypeStep == TypeOK /\ [Next]_vars => TypeOK'
<1> SUFFICES ASSUME TypeOK, [Next]_vars PROVE TypeOK'
  OBVIOUS
<1> USE ConsultingNotIdle
<1>1. ASSUME NEW p \in Procs, LoadConstants(p) PROVE TypeOK'
  BY <1>1 DEF LoadConstants, TypeOK, frame
<1>2. ASSUME NEW f \in Frames, Enter(f) PROVE TypeOK'
  <2>1. PICK plan \in Plans :
          /\ pc' = [pc EXCEPT ![f] = IF plan.before = <<>> THEN "issue" ELSE "load"]
          /\ todo' = [todo EXCEPT ![f] = plan.before]
          /\ after' = [after EXCEPT ![f] = plan.after]
    BY <1>2 DEF Enter, Goto
  <2>2. plan.before \in Seq(Groups) /\ plan.after \in Seq(Groups)
    BY PlansAssumption
  <2>3. pc' \in [Frames -> Consulting \union {"idle", "issue"}]
    BY <2>1 DEF TypeOK, Consulting
  <2>4. todo' \in [Frames -> Seq(Groups)] /\ after' \in [Frames -> Seq(Groups)]
    BY <2>1, <2>2 DEF TypeOK
  <2>5. \A e \in Frames : pc'[e] \in Consulting => todo'[e] # <<>>
    BY <2>1 DEF TypeOK
  <2>6. signals' \in 0..MaxSignals
    BY <1>2, BoundAssumption DEF Enter, TypeOK
  <2>7. phase' \in [Frames -> {"before", "after", "errno"}] /\ got' \in [Frames -> SUBSET View]
    BY <1>2 DEF Enter, TypeOK
  <2>8. UNCHANGED <<loaded, word, table, live, left>>
    BY <1>2 DEF Enter, memory
  <2> QED
    BY <2>3, <2>4, <2>5, <2>6, <2>7, <2>8 DEF TypeOK
<1>3. ASSUME NEW f \in Frames, LoadWord(f) PROVE TypeOK'
  BY <1>3 DEF LoadWord, TypeOK, Goto, Consulting, memory
<1>4. ASSUME NEW f \in Frames, CheckReady(f) PROVE TypeOK'
  <2>1. CASE Answer(f, LinuxView(Grp(f)))
    BY <1>4, <2>1, GrpTyped, AnswerTyped DEF CheckReady, Consulting
  <2>2. CASE /\ Goto(f, "claim")
             /\ UNCHANGED <<memory, live, signals, phase, todo, after, left, got>>
    BY <1>4, <2>2 DEF CheckReady, TypeOK, Goto, Consulting, memory
  <2> QED
    BY <1>4, <2>1, <2>2 DEF CheckReady
<1>5. ASSUME NEW f \in Frames, Claim(f) PROVE TypeOK'
  <2>1. Grp(f) \in Groups /\ ProcOf[f] \in Procs
    BY <1>5, GrpTyped DEF Claim, Consulting
  <2>2. word' \in [Procs -> [Groups -> 0..2]]
    <3>1. CASE word' = [word EXCEPT ![ProcOf[f]][Grp(f)] = 1]
      BY <3>1, <2>1 DEF TypeOK
    <3>2. CASE word' = word
      BY <3>2 DEF TypeOK
    <3> QED
      BY <1>5, <3>1, <3>2 DEF Claim
  <2>3. left' \in [Frames -> SUBSET Rows]
    BY <1>5 DEF Claim, TypeOK
  <2>4. pc' \in [Frames -> Consulting \union {"idle", "issue"}]
    BY <1>5 DEF Claim, Goto, TypeOK, Consulting
  <2>5. \A e \in Frames : pc'[e] \in Consulting => todo'[e] # <<>>
    BY <1>5 DEF Claim, Goto, TypeOK, Consulting
  <2> QED
    BY <1>5, <2>2, <2>3, <2>4, <2>5 DEF Claim, TypeOK
<1>6. ASSUME NEW f \in Frames, StoreRow(f) PROVE TypeOK'
  <2>1. Grp(f) \in Groups /\ ProcOf[f] \in Procs
    BY <1>6, GrpTyped DEF StoreRow, Consulting
  <2>2. PICK r \in left[f] :
          /\ table' = [table EXCEPT ![ProcOf[f]][Grp(f)][r] = CosmoConst(ProcOf[f], Grp(f), r)]
          /\ left' = [left EXCEPT ![f] = @ \ {r}]
    BY <1>6 DEF StoreRow
  <2>3. r \in Rows
    BY <2>2 DEF TypeOK
  <2>4. CosmoConst(ProcOf[f], Grp(f), r) \in Int
    BY <2>1, <2>3, TablesAssumption DEF CosmoConst
  <2>5. table' \in [Procs -> [Groups -> [Rows -> Int]]]
    BY <2>1, <2>2, <2>3, <2>4 DEF TypeOK
  <2>6. left' \in [Frames -> SUBSET Rows]
    BY <2>2 DEF TypeOK
  <2> QED
    BY <1>6, <2>5, <2>6 DEF StoreRow, TypeOK
<1>7. ASSUME NEW f \in Frames, Publish(f) PROVE TypeOK'
  <2>1. Grp(f) \in Groups /\ ProcOf[f] \in Procs
    BY <1>7, GrpTyped DEF Publish, Consulting
  <2>2. word' \in [Procs -> [Groups -> 0..2]]
    BY <1>7, <2>1 DEF Publish, TypeOK
  <2>3. pc' \in [Frames -> Consulting \union {"idle", "issue"}]
    BY <1>7 DEF Publish, Goto, TypeOK, Consulting
  <2>4. \A e \in Frames : pc'[e] \in Consulting => todo'[e] # <<>>
    BY <1>7 DEF Publish, Goto, TypeOK, Consulting
  <2> QED
    BY <1>7, <2>2, <2>3, <2>4 DEF Publish, TypeOK
<1>8. ASSUME NEW f \in Frames, Reload(f) PROVE TypeOK'
  <2>1. CASE Answer(f, LinuxView(Grp(f)))
    BY <1>8, <2>1, GrpTyped, AnswerTyped DEF Reload, Consulting
  <2>2. CASE /\ Goto(f, "read")
             /\ UNCHANGED <<memory, live, signals, phase, todo, after, left, got>>
    BY <1>8, <2>2 DEF Reload, TypeOK, Goto, Consulting, memory
  <2> QED
    BY <1>8, <2>1, <2>2 DEF Reload
<1>9. ASSUME NEW f \in Frames, ReadTable(f) PROVE TypeOK'
  BY <1>9, GrpTyped, AnswerTyped DEF ReadTable, Consulting
<1>10. ASSUME NEW f \in Frames, Issue(f) PROVE TypeOK'
  <2>1. PICK ok \in BOOLEAN :
          LET groups == IF ok THEN after[f] ELSE ErrnoChain IN
          /\ phase' = [phase EXCEPT ![f] = IF groups = <<>> THEN "before"
                                           ELSE IF ok THEN "after" ELSE "errno"]
          /\ todo' = [todo EXCEPT ![f] = groups]
          /\ pc' = [pc EXCEPT ![f] = IF groups = <<>> THEN "idle" ELSE "load"]
    BY <1>10 DEF Issue, Goto
  <2> DEFINE groups == IF ok THEN after[f] ELSE ErrnoChain
  <2>2. groups \in Seq(Groups)
    BY PlansAssumption DEF TypeOK
  <2>3. todo' \in [Frames -> Seq(Groups)]
    BY <2>1, <2>2 DEF TypeOK
  <2>4. pc' \in [Frames -> Consulting \union {"idle", "issue"}]
    BY <2>1 DEF TypeOK, Consulting
  <2>5. \A e \in Frames : pc'[e] \in Consulting => todo'[e] # <<>>
    BY <2>1 DEF TypeOK
  <2>6. phase' \in [Frames -> {"before", "after", "errno"}]
    BY <2>1 DEF TypeOK
  <2> QED
    BY <1>10, <2>3, <2>4, <2>5, <2>6 DEF Issue, TypeOK, memory
<1>11. ASSUME NEW f \in Frames, NEW c \in Frames, Fork(f, c) PROVE TypeOK'
  <2>1. ProcOf[f] \in Procs /\ ProcOf[c] \in Procs
    BY ProcsAssumption
  <2>2. loaded' \in [Procs -> BOOLEAN]
    BY <1>11, <2>1 DEF Fork, TypeOK
  <2>3. word' \in [Procs -> [Groups -> 0..2]]
    BY <1>11, <2>1 DEF Fork, TypeOK
  <2>4. table' \in [Procs -> [Groups -> [Rows -> Int]]]
    BY <1>11, <2>1 DEF Fork, TypeOK
  <2>5. live' \subseteq Frames
    BY <1>11, HandlersAssumption DEF Fork, TypeOK
  <2> QED
    BY <1>11, <2>2, <2>3, <2>4, <2>5 DEF Fork, TypeOK, frame
<1>12. CASE UNCHANGED vars
  BY <1>12 DEF vars, memory, frame, TypeOK
<1> QED
  BY <1>1, <1>2, <1>3, <1>4, <1>5, <1>6, <1>7, <1>8, <1>9, <1>10, <1>11, <1>12
  DEF Next, Consult

\* The state stays within its types for ever.
THEOREM TypeCorrect == Spec => []TypeOK
<1>1. QED
  BY TypeInit, TypeStep, PTL DEF Spec

-------------------------------------------------------------------------------

\* A step that moves one frame and leaves the shared memory alone keeps what
\* the fill relies on, provided it reads only a published table and passes the
\* canary only when the constants are there.
LEMMA FrameStep ==
  ASSUME TypeOK, FillInv, NEW f \in Frames, f \in live,
         NEW l, pc' = [pc EXCEPT ![f] = l],
         UNCHANGED <<loaded, word, table, live, left>>,
         \A e \in Frames \ {f} : todo'[e] = todo[e],
         l # "fill",
         l \in {"claim", "reload"} => loaded[ProcOf[f]],
         l = "read" => word[ProcOf[f]][Grp(f)] = 2 /\ todo'[f] = todo[f] /\ Grp(f) \in Groups
  PROVE  FillInv'
<1>1. ProcOf[f] \in Procs
  BY ProcsAssumption
<1>2. pc'[f] = l /\ \A e \in Frames \ {f} : pc'[e] = pc[e] /\ Grp(e)' = Grp(e)
  BY DEF TypeOK, Grp
<1>3. l = "read" => Grp(f)' = Grp(f) /\ loaded[ProcOf[f]]
  BY <1>1 DEF FillInv, CanaryHolds, Grp, TypeOK
<1>4. CanaryHolds'
  BY <1>2, <1>3 DEF FillInv, CanaryHolds
<1>5. ExclusiveFill'
  BY <1>2 DEF FillInv, ExclusiveFill, Filling
<1>6. StoredRows'
  BY <1>2 DEF FillInv, StoredRows
<1>7. PublishedWhole'
  BY DEF FillInv, PublishedWhole
<1>8. ReadsPublished'
  BY <1>2, <1>3 DEF FillInv, ReadsPublished
<1>9. UnbornIdle'
  BY <1>2 DEF FillInv, UnbornIdle
<1> QED
  BY <1>4, <1>5, <1>6, <1>7, <1>8, <1>9 DEF FillInv

\* An answered consult is such a step.
LEMMA AnswerFill ==
  ASSUME TypeOK, FillInv, NEW f \in Frames, f \in live, NEW v, Answer(f, v)
  PROVE  FillInv'
<1>1. PICK l \in Continuations(f, v) :
        /\ pc' = [pc EXCEPT ![f] = l]
        /\ todo' = [todo EXCEPT ![f] = IF l = "load" THEN Tail(@) ELSE <<>>]
  BY DEF Answer, Goto
<1>2. l \in {"load", "issue", "idle"}
  BY ContinuationsKind
<1>3. UNCHANGED <<loaded, word, table, live, left>>
  BY DEF Answer, memory
<1>4. \A e \in Frames \ {f} : todo'[e] = todo[e]
  BY <1>1 DEF TypeOK
<1> HIDE DEF FillInv
<1> QED
  BY <1>1, <1>2, <1>3, <1>4, FrameStep

LEMMA FillInit == Init => FillInv
BY ProcsAssumption
   DEF Init, FillInv, CanaryHolds, ExclusiveFill, StoredRows, PublishedWhole,
       ReadsPublished, UnbornIdle

\* Every step keeps what the fill relies on.
LEMMA FillStep == TypeOK /\ FillInv /\ [Next]_vars => FillInv'
<1> SUFFICES ASSUME TypeOK, FillInv, [Next]_vars PROVE FillInv'
  OBVIOUS
<1> USE ProcsAssumption
<1>1. ASSUME NEW p \in Procs, LoadConstants(p) PROVE FillInv'
  <2>1. /\ loaded' = [loaded EXCEPT ![p] = TRUE]
        /\ UNCHANGED <<word, table, live, pc, todo, left>>
    BY <1>1 DEF LoadConstants, frame
  <2>2. CanaryHolds'
    BY <2>1 DEF FillInv, CanaryHolds, TypeOK
  <2>3. ExclusiveFill' /\ StoredRows' /\ PublishedWhole' /\ ReadsPublished' /\ UnbornIdle'
    BY <2>1 DEF FillInv, ExclusiveFill, Filling, StoredRows, PublishedWhole,
                ReadsPublished, UnbornIdle, Grp
  <2> QED
    BY <2>2, <2>3 DEF FillInv
<1>2. ASSUME NEW f \in Frames, Enter(f) PROVE FillInv'
  <2>1. PICK l \in {"issue", "load"} : pc' = [pc EXCEPT ![f] = l]
    BY <1>2 DEF Enter, Goto
  <2>2. \A e \in Frames \ {f} : todo'[e] = todo[e]
    BY <1>2 DEF Enter, TypeOK
  <2>3. f \in live /\ UNCHANGED <<loaded, word, table, live, left>>
    BY <1>2 DEF Enter, Runnable, memory
  <2> QED
    BY <2>1, <2>2, <2>3, FrameStep
<1>3. ASSUME NEW f \in Frames, LoadWord(f) PROVE FillInv'
  <2>1. Grp(f) \in Groups
    BY <1>3, GrpTyped DEF LoadWord, Consulting
  <2>2. PICK l \in {"read", "ready"} :
          /\ pc' = [pc EXCEPT ![f] = l]
          /\ l = "read" => word[ProcOf[f]][Grp(f)] = 2
    BY <1>3 DEF LoadWord, Goto
  <2>3. f \in live /\ UNCHANGED <<loaded, word, table, live, left, todo>>
    BY <1>3 DEF LoadWord, Runnable, memory
  <2> QED
    BY <2>1, <2>2, <2>3, FrameStep
<1>4. ASSUME NEW f \in Frames, CheckReady(f) PROVE FillInv'
  <2>1. f \in live
    BY <1>4 DEF CheckReady, Runnable
  <2>2. CASE Answer(f, LinuxView(Grp(f)))
    BY <2>1, <2>2, AnswerFill
  <2>3. CASE /\ loaded[ProcOf[f]]
             /\ Goto(f, "claim")
             /\ UNCHANGED <<memory, live, signals, phase, todo, after, left, got>>
    <3>1. /\ pc' = [pc EXCEPT ![f] = "claim"]
          /\ UNCHANGED <<loaded, word, table, live, left, todo>>
      BY <2>3 DEF Goto, memory
    <3> QED
      BY <2>1, <2>3, <3>1, FrameStep
  <2> QED
    BY <1>4, <2>2, <2>3 DEF CheckReady
<1>5. ASSUME NEW f \in Frames, Claim(f) PROVE FillInv'
  <2> DEFINE p == ProcOf[f]
  <2>1. Grp(f) \in Groups /\ p \in Procs /\ f \in live /\ loaded[p]
    BY <1>5, GrpTyped DEF Claim, Consulting, Runnable, FillInv, CanaryHolds
  <2>2. UNCHANGED <<loaded, table, live, todo>>
    BY <1>5 DEF Claim
  <2>3. CASE /\ word[p][Grp(f)] # 0
             /\ Goto(f, "reload")
             /\ UNCHANGED <<word, left>>
    <3>1. pc' = [pc EXCEPT ![f] = "reload"]
      BY <2>3 DEF Goto
    <3> QED
      BY <2>1, <2>2, <2>3, <3>1, FrameStep
  <2>4. CASE /\ word[p][Grp(f)] = 0
             /\ word' = [word EXCEPT ![p][Grp(f)] = 1]
             /\ left' = [left EXCEPT ![f] = Rows]
             /\ Goto(f, "fill")
    <3>1. pc'[f] = "fill" /\ \A e \in Frames \ {f} : pc'[e] = pc[e] /\ left'[e] = left[e]
      BY <2>4 DEF Goto, TypeOK
    <3>2. left'[f] = Rows
      BY <2>4 DEF TypeOK
    <3>3. /\ word'[p][Grp(f)] = 1
          /\ \A q \in Procs, g \in Groups :
               (q # p \/ g # Grp(f)) => word'[q][g] = word[q][g]
      BY <2>1, <2>4 DEF TypeOK
    <3>4. \A e \in Frames : Grp(e)' = Grp(e)
      BY <2>2 DEF Grp
    <3>5. \A e \in Frames : pc[e] = "fill" \/ pc[e] = "read" =>
            Grp(e) \in Groups /\ (ProcOf[e] # p \/ Grp(e) # Grp(f))
      BY <2>4, GrpTyped DEF FillInv, ExclusiveFill, ReadsPublished, Consulting
    <3>6. CanaryHolds'
      BY <2>1, <2>2, <3>1, <3>3 DEF FillInv, CanaryHolds
    <3>7. ExclusiveFill'
      BY <3>1, <3>3, <3>4, <3>5 DEF FillInv, ExclusiveFill, Filling
    <3>8. StoredRows'
      BY <2>2, <3>1, <3>2, <3>4 DEF FillInv, StoredRows
    <3>9. PublishedWhole'
      BY <2>2, <3>3 DEF FillInv, PublishedWhole
    <3>10. ReadsPublished'
      BY <3>1, <3>3, <3>4, <3>5 DEF FillInv, ReadsPublished
    <3>11. UnbornIdle'
      BY <2>1, <2>2, <3>1 DEF FillInv, UnbornIdle
    <3> QED
      BY <3>6, <3>7, <3>8, <3>9, <3>10, <3>11 DEF FillInv
  <2> QED
    BY <1>5, <2>3, <2>4 DEF Claim
<1>6. ASSUME NEW f \in Frames, StoreRow(f) PROVE FillInv'
  <2> DEFINE p == ProcOf[f]
             g == Grp(f)
  <2>1. g \in Groups /\ p \in Procs /\ loaded[p] /\ word[p][g] = 1
    BY <1>6, GrpTyped DEF StoreRow, Consulting, FillInv, CanaryHolds, ExclusiveFill
  <2>2. UNCHANGED <<loaded, word, live, pc, todo>>
    BY <1>6 DEF StoreRow
  <2>3. PICK r \in left[f] :
          /\ table' = [table EXCEPT ![p][g][r] = CosmoConst(p, g, r)]
          /\ left' = [left EXCEPT ![f] = @ \ {r}]
    BY <1>6 DEF StoreRow
  <2>4. r \in Rows /\ CosmoConst(p, g, r) = HostCol[g][r]
    BY <2>1, <2>3 DEF TypeOK, CosmoConst
  <2>5. /\ table'[p][g] = [table[p][g] EXCEPT ![r] = HostCol[g][r]]
        /\ \A q \in Procs, k \in Groups : (q # p \/ k # g) => table'[q][k] = table[q][k]
    BY <2>1, <2>3, <2>4 DEF TypeOK
  <2>6. /\ left'[f] = left[f] \ {r}
        /\ \A e \in Frames \ {f} : left'[e] = left[e]
    BY <2>3 DEF TypeOK
  <2>7. \A e \in Frames : Grp(e)' = Grp(e)
    BY <2>2 DEF Grp
  <2>8. CanaryHolds' /\ ExclusiveFill' /\ ReadsPublished' /\ UnbornIdle'
    BY <2>2, <2>7 DEF FillInv, CanaryHolds, ExclusiveFill, Filling, ReadsPublished, UnbornIdle
  <2>9. StoredRows'
    <3> SUFFICES ASSUME NEW e \in Frames, pc'[e] = "fill", NEW s \in Rows \ left'[e]
                 PROVE  table'[ProcOf[e]][Grp(e)][s] = HostCol[Grp(e)][s]
      BY <2>7 DEF StoredRows
    <3>1. pc[e] = "fill" /\ Grp(e) \in Groups /\ ProcOf[e] \in Procs
      BY <2>2, GrpTyped DEF Consulting
    <3>2. CASE e = f
      <4>1. table[p][g] \in [Rows -> Int]
        BY <2>1 DEF TypeOK
      <4>2. CASE s = r
        BY <3>2, <4>1, <4>2, <2>4, <2>5
      <4>3. CASE s # r
        BY <3>1, <3>2, <4>1, <4>3, <2>5, <2>6 DEF FillInv, StoredRows
      <4> QED
        BY <4>2, <4>3
    <3>3. CASE e # f
      <4>1. ProcOf[e] # p \/ Grp(e) # g
        BY <1>6, <3>1, <3>3 DEF FillInv, ExclusiveFill, Filling, StoreRow
      <4> QED
        BY <3>1, <3>3, <4>1, <2>5, <2>6 DEF FillInv, StoredRows
    <3> QED
      BY <3>2, <3>3
  <2>10. PublishedWhole'
    BY <2>1, <2>2, <2>5 DEF FillInv, PublishedWhole
  <2> QED
    BY <2>8, <2>9, <2>10 DEF FillInv
<1>7. ASSUME NEW f \in Frames, Publish(f) PROVE FillInv'
  <2> DEFINE p == ProcOf[f]
             g == Grp(f)
  <2>1. g \in Groups /\ p \in Procs /\ loaded[p] /\ word[p][g] = 1 /\ f \in live
    BY <1>7, GrpTyped DEF Publish, Consulting, FillInv, CanaryHolds, ExclusiveFill, Runnable
  <2>2. /\ pc[f] = "fill" /\ left[f] = {}
        /\ UNCHANGED <<loaded, table, live, todo, left>>
        /\ word' = [word EXCEPT ![p][g] = 2]
        /\ pc' = [pc EXCEPT ![f] = "read"]
    BY <1>7 DEF Publish, Goto
  <2>3. pc'[f] = "read" /\ \A e \in Frames \ {f} : pc'[e] = pc[e]
    BY <2>2 DEF TypeOK
  <2>4. /\ word'[p][g] = 2
        /\ \A q \in Procs, k \in Groups : (q # p \/ k # g) => word'[q][k] = word[q][k]
    BY <2>1, <2>2 DEF TypeOK
  <2>5. \A e \in Frames : Grp(e)' = Grp(e)
    BY <2>2 DEF Grp
  <2>6. \A e \in Frames \ {f} : pc[e] = "fill" =>
          Grp(e) \in Groups /\ (ProcOf[e] # p \/ Grp(e) # g)
    BY <2>2, GrpTyped DEF FillInv, ExclusiveFill, Filling, Consulting
  <2>7. \A e \in Frames : pc[e] = "read" => Grp(e) \in Groups
    BY GrpTyped DEF Consulting
  <2>8. CanaryHolds'
    BY <2>1, <2>2, <2>3, <2>4 DEF FillInv, CanaryHolds
  <2>9. ExclusiveFill'
    BY <2>3, <2>4, <2>5, <2>6 DEF FillInv, ExclusiveFill, Filling
  <2>10. StoredRows'
    BY <2>2, <2>3, <2>5 DEF FillInv, StoredRows
  <2>11. table[p][g] = HostCol[g]
    <3>1. table[p][g] \in [Rows -> Int] /\ HostCol[g] \in [Rows -> Int]
      BY <2>1, TablesAssumption DEF TypeOK
    <3>2. \A r \in Rows : table[p][g][r] = HostCol[g][r]
      BY <2>2 DEF FillInv, StoredRows
    <3> QED
      BY <3>1, <3>2
  <2>12. PublishedWhole'
    BY <2>2, <2>4, <2>11 DEF FillInv, PublishedWhole
  <2>13. ReadsPublished'
    BY <2>1, <2>3, <2>4, <2>5, <2>7 DEF FillInv, ReadsPublished
  <2>14. UnbornIdle'
    BY <2>1, <2>2, <2>3 DEF FillInv, UnbornIdle
  <2> QED
    BY <2>8, <2>9, <2>10, <2>12, <2>13, <2>14 DEF FillInv
<1>8. ASSUME NEW f \in Frames, Reload(f) PROVE FillInv'
  <2>1. f \in live /\ Grp(f) \in Groups
    BY <1>8, GrpTyped DEF Reload, Runnable, Consulting
  <2>2. CASE Answer(f, LinuxView(Grp(f)))
    BY <2>1, <2>2, AnswerFill
  <2>3. CASE /\ word[ProcOf[f]][Grp(f)] = 2
             /\ Goto(f, "read")
             /\ UNCHANGED <<memory, live, signals, phase, todo, after, left, got>>
    <3>1. /\ pc' = [pc EXCEPT ![f] = "read"]
          /\ UNCHANGED <<loaded, word, table, live, left, todo>>
      BY <2>3 DEF Goto, memory
    <3> QED
      BY <2>1, <2>3, <3>1, FrameStep
  <2> QED
    BY <1>8, <2>2, <2>3 DEF Reload
<1>9. ASSUME NEW f \in Frames, ReadTable(f) PROVE FillInv'
  BY <1>9, AnswerFill DEF ReadTable, Runnable
<1>10. ASSUME NEW f \in Frames, Issue(f) PROVE FillInv'
  <2>1. PICK l \in {"idle", "load"} : pc' = [pc EXCEPT ![f] = l]
    BY <1>10 DEF Issue, Goto
  <2>2. \A e \in Frames \ {f} : todo'[e] = todo[e]
    BY <1>10 DEF Issue, TypeOK
  <2>3. f \in live /\ UNCHANGED <<loaded, word, table, live, left>>
    BY <1>10 DEF Issue, Runnable, memory
  <2> QED
    BY <2>1, <2>2, <2>3, FrameStep
<1>11. ASSUME NEW f \in Frames, NEW c \in Frames, Fork(f, c) PROVE FillInv'
  <2> DEFINE p == ProcOf[f]
             q == ProcOf[c]
  <2>1. /\ p \in Procs /\ q \in Procs
        /\ \A x \in live : ProcOf[x] # q
        /\ UNCHANGED <<pc, todo, left>>
    BY <1>11 DEF Fork, frame
  <2>2. /\ loaded' = [loaded EXCEPT ![q] = loaded[p]]
        /\ word' = [word EXCEPT ![q] = word[p]]
        /\ table' = [table EXCEPT ![q] = table[p]]
    BY <1>11 DEF Fork
  <2>3. \A x \in Frames : ProcOf[x] = q => pc[x] = "idle"
    BY <2>1 DEF FillInv, UnbornIdle
  <2>4. \A e \in Frames : Grp(e)' = Grp(e)
    BY <2>1 DEF Grp
  <2>5. \A e \in Frames : pc'[e] # "idle" =>
          /\ pc[e] = pc'[e] /\ ProcOf[e] \in Procs
          /\ loaded'[ProcOf[e]] = loaded[ProcOf[e]]
          /\ word'[ProcOf[e]] = word[ProcOf[e]]
          /\ table'[ProcOf[e]] = table[ProcOf[e]]
    BY <2>1, <2>2, <2>3 DEF TypeOK
  <2>6. \A d \in Procs : \E o \in Procs :
          /\ loaded'[d] = loaded[o] /\ word'[d] = word[o] /\ table'[d] = table[o]
    <3> TAKE d \in Procs
    <3>1. CASE d = q
      <4> WITNESS p \in Procs
      <4> QED
        BY <2>1, <2>2, <3>1 DEF TypeOK
    <3>2. CASE d # q
      <4> WITNESS d \in Procs
      <4> QED
        BY <2>1, <2>2, <3>2 DEF TypeOK
    <3> QED
      BY <3>1, <3>2
  <2>7. CanaryHolds'
    BY <2>5, <2>6 DEF FillInv, CanaryHolds
  <2>8. ExclusiveFill' /\ StoredRows' /\ ReadsPublished'
    BY <2>1, <2>4, <2>5 DEF FillInv, ExclusiveFill, Filling, StoredRows, ReadsPublished
  <2>9. PublishedWhole'
    BY <2>6 DEF FillInv, PublishedWhole
  <2>10. UnbornIdle'
    BY <1>11, <2>1 DEF FillInv, UnbornIdle, Fork
  <2> QED
    BY <2>7, <2>8, <2>9, <2>10 DEF FillInv
<1>12. CASE UNCHANGED vars
  BY <1>12 DEF vars, memory, frame, FillInv, CanaryHolds, ExclusiveFill, Filling,
               StoredRows, PublishedWhole, ReadsPublished, UnbornIdle, Grp
<1> QED
  BY <1>1, <1>2, <1>3, <1>4, <1>5, <1>6, <1>7, <1>8, <1>9, <1>10, <1>11, <1>12
  DEF Next, Consult
-------------------------------------------------------------------------------

\* How a step changes the answers a frame has had: a new call forgets them, a
\* consult adds the Linux column while the group is unpublished or the host
\* column once it is published, and nothing else touches them.
GotStep(f) ==
  \/ got' = [got EXCEPT ![f] = {}]
  \/ \E g \in Groups :
       \/ /\ word[ProcOf[f]][g] # 2
          /\ got' = [got EXCEPT ![f] = @ \union {LinuxView(g)}]
       \/ /\ word[ProcOf[f]][g] = 2
          /\ got' = [got EXCEPT ![f] = @ \union {[grp |-> g, static |-> TRUE,
                                                  rows |-> HostCol[g]]}]

LEMMA ConsultGot ==
  ASSUME TypeOK, FillInv, NEW f \in Frames, Consult(f)
  PROVE  UNCHANGED got \/ GotStep(f)
<1>1. CASE LoadWord(f) \/ Claim(f) \/ StoreRow(f) \/ Publish(f)
  BY <1>1 DEF LoadWord, Claim, StoreRow, Publish
<1>2. CASE CheckReady(f)
  <2>1. Grp(f) \in Groups /\ ProcOf[f] \in Procs
    BY <1>2, GrpTyped DEF CheckReady, Consulting
  <2>2. CASE ~loaded[ProcOf[f]] /\ Answer(f, LinuxView(Grp(f)))
    <3>1. word[ProcOf[f]][Grp(f)] # 2
      BY <2>1, <2>2 DEF FillInv, CanaryHolds
    <3>2. got' = [got EXCEPT ![f] = @ \union {LinuxView(Grp(f))}]
      BY <2>2 DEF Answer
    <3> QED
      BY <2>1, <3>1, <3>2 DEF GotStep
  <2>3. CASE UNCHANGED got
    BY <2>3
  <2> QED
    BY <1>2, <2>2, <2>3 DEF CheckReady
<1>3. CASE Reload(f)
  <2>1. Grp(f) \in Groups
    BY <1>3, GrpTyped DEF Reload, Consulting
  <2>2. CASE word[ProcOf[f]][Grp(f)] # 2 /\ Answer(f, LinuxView(Grp(f)))
    BY <2>1, <2>2 DEF GotStep, Answer
  <2>3. CASE UNCHANGED got
    BY <2>3
  <2> QED
    BY <1>3, <2>2, <2>3 DEF Reload
<1>4. CASE ReadTable(f)
  <2>1. Grp(f) \in Groups /\ ProcOf[f] \in Procs
    BY <1>4, GrpTyped DEF ReadTable, Consulting
  <2>2. word[ProcOf[f]][Grp(f)] = 2
    BY <1>4 DEF ReadTable, FillInv, ReadsPublished
  <2>3. TableView(ProcOf[f], Grp(f)) = [grp |-> Grp(f), static |-> TRUE, rows |-> HostCol[Grp(f)]]
    BY <2>1, <2>2 DEF TableView, FillInv, PublishedWhole
  <2>4. got' = [got EXCEPT ![f] = @ \union {TableView(ProcOf[f], Grp(f))}]
    BY <1>4 DEF ReadTable, Answer
  <2> QED
    BY <2>1, <2>2, <2>3, <2>4 DEF GotStep
<1> QED
  BY <1>1, <1>2, <1>3, <1>4 DEF Consult

LEMMA NextGot ==
  ASSUME TypeOK, FillInv, [Next]_vars
  PROVE  UNCHANGED got \/ \E f \in Frames : GotStep(f)
<1>1. ASSUME NEW p \in Procs, LoadConstants(p) PROVE UNCHANGED got
  BY <1>1 DEF LoadConstants, frame
<1>2. ASSUME NEW f \in Frames, Enter(f) PROVE GotStep(f)
  BY <1>2 DEF Enter, GotStep
<1>3. ASSUME NEW f \in Frames, Issue(f) PROVE UNCHANGED got
  BY <1>3 DEF Issue
<1>4. ASSUME NEW f \in Frames, NEW c \in Frames, Fork(f, c) PROVE UNCHANGED got
  BY <1>4 DEF Fork, frame
<1>5. CASE UNCHANGED vars
  BY <1>5 DEF vars, frame
<1> QED
  BY <1>1, <1>2, <1>3, <1>4, <1>5, ConsultGot DEF Next

LEMMA WholeStep ==
  ASSUME TypeOK, FillInv, WholeTables, [Next]_vars
  PROVE  WholeTables'
<1>1. CASE UNCHANGED got
  BY <1>1 DEF WholeTables
<1>2. ASSUME NEW f \in Frames, GotStep(f) PROVE WholeTables'
  <2>1. CASE got' = [got EXCEPT ![f] = {}]
    BY <2>1 DEF WholeTables, TypeOK
  <2>2. ASSUME NEW g \in Groups,
               got' = [got EXCEPT ![f] = @ \union {LinuxView(g)}]
        PROVE  WholeTables'
    BY <2>2 DEF WholeTables, TypeOK, LinuxView
  <2>3. ASSUME NEW g \in Groups,
               got' = [got EXCEPT ![f] = @ \union {[grp |-> g, static |-> TRUE,
                                                    rows |-> HostCol[g]]}]
        PROVE  WholeTables'
    BY <2>3 DEF WholeTables, TypeOK
  <2> QED
    BY <1>2, <2>1, <2>2, <2>3 DEF GotStep
<1> QED
  BY <1>1, <1>2, NextGot

\* The fill's discipline and what it gives, in one inductive invariant.
LEMMA FillCorrect == Spec => [](TypeOK /\ FillInv /\ WholeTables)
<1>1. Init => WholeTables
  BY DEF Init, WholeTables
<1> QED
  BY <1>1, TypeInit, TypeStep, FillInit, FillStep, WholeStep, PTL DEF Spec

\* One frame at a time writes a table, and only before it is published: the
\* shared borrow of the static in xlate.rs is sound.
THEOREM ExclusiveFillHolds == Spec => []ExclusiveFill
<1>1. FillInv => ExclusiveFill
  BY DEF FillInv
<1> QED
  BY <1>1, FillCorrect, PTL

\* No call, in any process, translates by a torn or empty table.
THEOREM WholeTablesHolds == Spec => []WholeTables
BY FillCorrect, PTL

-------------------------------------------------------------------------------

\* How a step changes the words: nothing, a claim, a publication or a fork.
LEMMA NextWord ==
  ASSUME TypeOK, FillInv, [Next]_vars
  PROVE  \/ word' = word /\ live' = live
         \/ /\ live' = live
            /\ \E f \in Frames : Claim(f) \/ Publish(f)
         \/ \E f, c \in Frames : Fork(f, c)
<1>1. ASSUME NEW p \in Procs, LoadConstants(p) PROVE word' = word /\ live' = live
  BY <1>1 DEF LoadConstants
<1>2. ASSUME NEW f \in Frames, Enter(f) \/ Issue(f) PROVE word' = word /\ live' = live
  BY <1>2 DEF Enter, Issue, memory
<1>3. ASSUME NEW f \in Frames,
             LoadWord(f) \/ CheckReady(f) \/ StoreRow(f) \/ Reload(f) \/ ReadTable(f)
      PROVE  word' = word /\ live' = live
  BY <1>3 DEF LoadWord, CheckReady, StoreRow, Reload, ReadTable, Answer, memory
<1>4. ASSUME NEW f \in Frames, Claim(f) \/ Publish(f) PROVE live' = live
  BY <1>4 DEF Claim, Publish
<1>5. CASE UNCHANGED vars
  BY <1>5 DEF vars, memory
<1> QED
  BY <1>1, <1>2, <1>3, <1>4, <1>5 DEF Next, Consult

\* A table the invariant calls published is the host column, before and after.
LEMMA PublishedStep ==
  ASSUME TypeOK, FillInv, FillInv', [Next]_vars,
         NEW p \in Procs, NEW g \in Groups, word[p][g] = 2,
         \E f \in live : ProcOf[f] = p
  PROVE  word'[p][g] = 2 /\ table'[p][g] = table[p][g]
<1>1. ASSUME NEW f \in Frames, Claim(f) \/ Publish(f) PROVE word'[p][g] = 2
  <2>1. ProcOf[f] \in Procs /\ Grp(f) \in Groups
    BY <1>1, GrpTyped DEF Claim, Publish, Consulting
  <2>2. CASE Claim(f)
    <3>1. CASE word' = word
      BY <3>1
    <3>2. CASE /\ word[ProcOf[f]][Grp(f)] = 0
               /\ word' = [word EXCEPT ![ProcOf[f]][Grp(f)] = 1]
      BY <2>1, <3>2 DEF TypeOK
    <3> QED
      BY <2>2, <3>1, <3>2 DEF Claim
  <2>3. CASE Publish(f)
    <3>1. word' = [word EXCEPT ![ProcOf[f]][Grp(f)] = 2]
      BY <2>3 DEF Publish
    <3> QED
      BY <2>1, <3>1 DEF TypeOK
  <2> QED
    BY <1>1, <2>2, <2>3
<1>2. ASSUME NEW f \in Frames, NEW c \in Frames, Fork(f, c) PROVE word'[p][g] = 2
  BY <1>2 DEF Fork, TypeOK
<1>3. word'[p][g] = 2
  BY <1>1, <1>2, NextWord
<1> QED
  BY <1>3 DEF FillInv, PublishedWhole

\* A process that does not exist yet has published nothing.
UnbornEmpty ==
  \A p \in Procs, g \in Groups : (\A f \in live : ProcOf[f] # p) => word[p][g] = 0

LEMMA UnbornStep ==
  ASSUME TypeOK, FillInv, UnbornEmpty, [Next]_vars
  PROVE  UnbornEmpty'
<1>1. CASE word' = word /\ live' = live
  BY <1>1 DEF UnbornEmpty
<1>2. ASSUME NEW f \in Frames, Claim(f) \/ Publish(f) PROVE UnbornEmpty'
  <2>1. ProcOf[f] \in Procs /\ Grp(f) \in Groups /\ f \in live /\ live' = live
    BY <1>2, GrpTyped DEF Claim, Publish, Consulting, Runnable
  <2>2. \A q \in Procs : q # ProcOf[f] => word'[q] = word[q]
    BY <1>2, <2>1 DEF Claim, Publish, TypeOK
  <2> QED
    BY <2>1, <2>2 DEF UnbornEmpty
<1>3. ASSUME NEW f \in Frames, NEW c \in Frames, Fork(f, c) PROVE UnbornEmpty'
  BY <1>3 DEF Fork, UnbornEmpty, TypeOK
<1> QED
  BY <1>1, <1>2, <1>3, NextWord

LEMMA UnbornInit == Init => UnbornEmpty
BY DEF Init, UnbornEmpty

LEMMA FullCorrect == Spec => [](TypeOK /\ FillInv /\ WholeTables /\ UnbornEmpty)
<1>1. Spec => []UnbornEmpty
  BY UnbornInit, UnbornStep, FillCorrect, PTL DEF Spec
<1> QED
  BY <1>1, FillCorrect, PTL

\* A published table stays published and keeps its contents, in every process,
\* across forks.
THEOREM PublishedForGoodHolds == Spec => PublishedForGood
<1>1. ASSUME TypeOK, FillInv, FillInv', UnbornEmpty, [Next]_vars
      PROVE  \A p \in Procs, g \in Groups :
               word[p][g] = 2 => word'[p][g] = 2 /\ table'[p][g] = table[p][g]
  BY <1>1, PublishedStep DEF UnbornEmpty
<1> QED
  BY <1>1, FullCorrect, PTL DEF PublishedForGood, Spec

-------------------------------------------------------------------------------

\* A step of one frame moves no other, and brings none to an end.
LEMMA OthersStay ==
  ASSUME TypeOK, NEW f \in Frames, Enter(f) \/ Consult(f) \/ Issue(f),
         NEW e \in Frames, e # f
  PROVE  pc'[e] = pc[e] /\ todo'[e] = todo[e] /\ live' = live
<1>1. CASE Enter(f) \/ Issue(f)
  BY <1>1 DEF Enter, Issue, Goto, memory, TypeOK
<1>2. ASSUME NEW v, Answer(f, v)
      PROVE  pc'[e] = pc[e] /\ todo'[e] = todo[e] /\ live' = live
  BY <1>2 DEF Answer, Goto, memory, TypeOK
<1>3. CASE LoadWord(f) \/ Claim(f) \/ StoreRow(f) \/ Publish(f)
  BY <1>3 DEF LoadWord, Claim, StoreRow, Publish, Goto, memory, TypeOK
<1>4. CASE CheckReady(f) \/ Reload(f) \/ ReadTable(f)
  <2>1. CASE \E v : Answer(f, v)
    BY <2>1, <1>2
  <2>2. CASE \E l : Goto(f, l) /\ UNCHANGED <<memory, live, signals, phase, todo, after, left, got>>
    BY <2>2 DEF Goto, TypeOK
  <2> QED
    BY <1>4, <2>1, <2>2 DEF CheckReady, Reload, ReadTable
<1> QED
  BY <1>1, <1>3, <1>4 DEF Consult

\* Who fills a table goes on filling it until the word is at 2.
LEMMA FillerStays ==
  ASSUME TypeOK, FillInv, [Next]_vars, NEW p \in Procs, NEW g \in Groups,
         NEW e \in live, Filling(e, p, g), word'[p][g] = 1
  PROVE  e \in live' /\ Filling(e, p, g)'
<1>1. e \in Frames
  BY DEF TypeOK
<1>2. CASE UNCHANGED <<pc, todo>> /\ live \subseteq live'
  BY <1>2 DEF Filling, Grp
<1>3. ASSUME NEW f \in Frames, Enter(f) \/ Consult(f) \/ Issue(f)
      PROVE  e \in live' /\ Filling(e, p, g)'
  <2>1. CASE e # f
    BY <1>1, <1>3, <2>1, OthersStay DEF Filling, Grp
  <2>2. CASE e = f
    <3>1. StoreRow(e) \/ Publish(e)
      BY <1>3, <2>2 DEF Filling, Enter, Consult, Issue, LoadWord, CheckReady, Claim, Reload,
                        ReadTable
    <3>2. CASE StoreRow(e)
      BY <3>2 DEF StoreRow, Filling, Grp
    <3>3. CASE Publish(e)
      BY <3>3 DEF Publish, Filling, TypeOK
    <3> QED
      BY <3>1, <3>2, <3>3
  <2> QED
    BY <2>1, <2>2
<1>4. ASSUME NEW q \in Procs, LoadConstants(q) PROVE UNCHANGED <<pc, todo, live>>
  BY <1>4 DEF LoadConstants, frame
<1>5. ASSUME NEW f \in Frames, NEW c \in Frames, Fork(f, c)
      PROVE  UNCHANGED <<pc, todo>> /\ live \subseteq live'
  BY <1>5 DEF Fork, frame
<1> QED
  BY <1>2, <1>3, <1>4, <1>5 DEF Next, vars, frame

\* A word goes to 1 in a process that exists only by the frame that then fills.
LEMMA ClaimFills ==
  ASSUME TypeOK, FillInv, [Next]_vars, NEW p \in Procs, NEW g \in Groups,
         \E f \in live : ProcOf[f] = p, word[p][g] # 1, word'[p][g] = 1
  PROVE  \E f \in live' : Filling(f, p, g)'
<1>1. ASSUME NEW f \in Frames, Claim(f) PROVE \E e \in live' : Filling(e, p, g)'
  <2>1. ProcOf[f] \in Procs /\ Grp(f) \in Groups /\ f \in live /\ live' = live /\ todo' = todo
    BY <1>1, GrpTyped DEF Claim, Consulting, Runnable
  <2>2. word' = [word EXCEPT ![ProcOf[f]][Grp(f)] = 1] /\ Goto(f, "fill")
    BY <1>1 DEF Claim
  <2>3. ProcOf[f] = p /\ Grp(f) = g
    BY <2>1, <2>2 DEF TypeOK
  <2> QED
    BY <2>1, <2>2, <2>3 DEF Filling, Grp, Goto, TypeOK
<1>2. ASSUME NEW f \in Frames, Publish(f) PROVE FALSE
  <2>1. ProcOf[f] \in Procs /\ Grp(f) \in Groups
    BY <1>2, GrpTyped DEF Publish, Consulting
  <2> QED
    BY <1>2, <2>1 DEF Publish, TypeOK
<1>3. ASSUME NEW f \in Frames, NEW c \in Frames, Fork(f, c) PROVE FALSE
  BY <1>3 DEF Fork, TypeOK
<1> QED
  BY <1>1, <1>2, <1>3, NextWord

\* No step of a process leaves a table of it half filled with nobody to fill it; a child
\* forked during a fill is born with one, and nothing else is.
THEOREM OnlyForkAbandonsHolds == Spec => OnlyForkAbandons
<1>1. ASSUME TypeOK, FillInv, [Next]_vars, NEW p \in Procs, NEW g \in Groups,
             Orphaned(p, g)', ~Orphaned(p, g), \E f \in live : ProcOf[f] = p
      PROVE  FALSE
  <2>1. CASE word[p][g] = 1
    <3>1. PICK e \in live : Filling(e, p, g)
      BY <1>1, <2>1 DEF Orphaned
    <3> QED
      BY <1>1, <3>1, FillerStays DEF Orphaned
  <2>2. CASE word[p][g] # 1
    BY <1>1, <2>2, ClaimFills DEF Orphaned
  <2> QED
    BY <2>1, <2>2
<1>2. TypeOK /\ FillInv /\ [Next]_vars =>
        [\A p \in Procs, g \in Groups :
           Orphaned(p, g)' => Orphaned(p, g) \/ \A f \in live : ProcOf[f] # p]_vars
  BY <1>1
<1> QED
  BY <1>2, FillCorrect, PTL DEF OnlyForkAbandons, Spec

-------------------------------------------------------------------------------

\* The groups published and the processes born, as OnceTable sees them.
Born == {ProcOf[f] : f \in live}
Published == [p \in Procs |-> {g \in Groups : word[p][g] = 2}]

\* The initial states of HostTables are initial states of OnceTable, given a
\* frame to run in.
LEMMA RefineInit ==
  ASSUME Init, \E f \in Frames : ProcOf[f] = Root
  PROVE  Once!Init
BY DEF Init, Once!Init

\* A change of the answers alone is a Begin or a Consult of OnceTable.
LEMMA RefineGot ==
  ASSUME NEW f \in Frames, GotStep(f), UNCHANGED <<word, live>>
  PROVE  Once!Next
<1>1. ProcOf[f] \in Procs
  BY ProcsAssumption
<1>2. UNCHANGED <<Born, Published>>
  BY DEF Born, Published
<1>3. CASE got' = [got EXCEPT ![f] = {}]
  BY <1>2, <1>3 DEF Once!Next, Once!Begin, Born, Published
<1>4. ASSUME NEW g \in Groups, word[ProcOf[f]][g] # 2,
             got' = [got EXCEPT ![f] = @ \union {LinuxView(g)}]
      PROVE  Once!Consult(f, g)
  <2>1. g \notin Published[ProcOf[f]]
    BY <1>1, <1>4 DEF Published
  <2> QED
    BY <1>2, <1>4, <2>1 DEF Once!Consult, Once!LinuxView, LinuxView, Born, Published
<1>5. ASSUME NEW g \in Groups, word[ProcOf[f]][g] = 2,
             got' = [got EXCEPT ![f] = @ \union {[grp |-> g, static |-> TRUE,
                                                  rows |-> HostCol[g]]}]
      PROVE  Once!Consult(f, g)
  <2>1. g \in Published[ProcOf[f]]
    BY <1>1, <1>5 DEF Published
  <2> QED
    BY <1>2, <1>5, <2>1 DEF Once!Consult, Once!HostView, Born, Published
<1> QED
  BY <1>3, <1>4, <1>5 DEF GotStep, Once!Next

\* Every step of HostTables is a step of OnceTable or leaves it as it is.
LEMMA RefineStep ==
  ASSUME TypeOK, FillInv, [Next]_vars
  PROVE  [Once!Next]_(Once!vars)
<1> USE ProcsAssumption
<1>1. CASE UNCHANGED <<word, live>>
  <2>1. CASE UNCHANGED got
    BY <1>1, <2>1 DEF Once!vars
  <2>2. CASE \E f \in Frames : GotStep(f)
    BY <1>1, <2>2, RefineGot
  <2> QED
    BY <2>1, <2>2, NextGot
<1>2. ASSUME NEW f \in Frames, Claim(f) PROVE UNCHANGED Once!vars
  <2>1. Grp(f) \in Groups /\ ProcOf[f] \in Procs
    BY <1>2, GrpTyped DEF Claim, Consulting
  <2>2. CASE word' = word
    BY <1>2, <2>2 DEF Claim, Once!vars
  <2>3. CASE /\ word[ProcOf[f]][Grp(f)] = 0
             /\ word' = [word EXCEPT ![ProcOf[f]][Grp(f)] = 1]
    <3>1. \A p \in Procs, g \in Groups : word'[p][g] = 2 <=> word[p][g] = 2
      BY <2>1, <2>3 DEF TypeOK
    <3>2. UNCHANGED Published
      BY <3>1 DEF Published
    <3> QED
      BY <1>2, <3>2 DEF Claim, Once!vars, Published
  <2> QED
    BY <1>2, <2>2, <2>3 DEF Claim
<1>3. ASSUME NEW f \in Frames, Publish(f), NEW k \in Groups, k = Grp(f)
      PROVE  Once!Publish(ProcOf[f], k)
  <2>1. ProcOf[f] \in Procs
    OBVIOUS
  <2>2. word' = [word EXCEPT ![ProcOf[f]][k] = 2] /\ UNCHANGED <<live, got>>
    BY <1>3 DEF Publish
  <2>3. \A p \in Procs, g \in Groups :
          word'[p][g] = IF p = ProcOf[f] /\ g = k THEN 2 ELSE word[p][g]
    BY <2>1, <2>2 DEF TypeOK
  <2>4. ASSUME NEW p \in Procs
        PROVE  {g \in Groups : word'[p][g] = 2} =
                 IF p = ProcOf[f] THEN {g \in Groups : word[p][g] = 2} \union {k}
                 ELSE {g \in Groups : word[p][g] = 2}
    BY <2>1, <2>3
  <2>5. Published' = [Published EXCEPT ![ProcOf[f]] = @ \union {k}]
    BY <2>1, <2>4 DEF Published
  <2> QED
    BY <2>2, <2>5 DEF Once!Publish, Published
<1>4. ASSUME NEW f \in Frames, NEW c \in Frames, Fork(f, c)
      PROVE  Once!Fork(ProcOf[f], ProcOf[c])
  <2>1. ProcOf[f] \in Procs /\ ProcOf[c] \in Procs
    OBVIOUS
  <2>2. ProcOf[f] \in Born /\ ProcOf[c] \notin Born
    BY <1>4 DEF Fork, Runnable, Born
  <2>3. Born' = Born \union {ProcOf[c]}
    BY <1>4, HandlersAssumption DEF Fork, Born
  <2>4. word' = [word EXCEPT ![ProcOf[c]] = word[ProcOf[f]]] /\ UNCHANGED got
    BY <1>4 DEF Fork, frame
  <2>5. Published' = [Published EXCEPT ![ProcOf[c]] = Published[ProcOf[f]]]
    BY <2>1, <2>4 DEF Published, TypeOK
  <2> QED
    BY <2>2, <2>3, <2>4, <2>5 DEF Once!Fork, Born, Published
<1>5. ASSUME NEW f \in Frames, Publish(f) PROVE Once!Next
  <2>1. Grp(f) \in Groups
    BY <1>5, GrpTyped DEF Publish, Consulting
  <2>2. PICK k \in Groups : k = Grp(f)
    BY <2>1
  <2>3. Once!Publish(ProcOf[f], k)
    BY <1>3, <1>5, <2>2
  <2> QED
    BY <2>3 DEF Once!Next
<1>6. ASSUME NEW f \in Frames, NEW c \in Frames, Fork(f, c) PROVE Once!Next
  <2>1. ProcOf[f] \in Procs /\ ProcOf[c] \in Procs
    OBVIOUS
  <2>2. Once!Fork(ProcOf[f], ProcOf[c])
    BY <1>4, <1>6
  <2> QED
    BY <2>1, <2>2 DEF Once!Next
<1> QED
  BY <1>1, <1>2, <1>5, <1>6, NextWord

\* group(), its races and its fork included, is indistinguishable from a table
\* published in one instant and consulted in one instant.
THEOREM Refinement ==
  ASSUME \E f \in Frames : ProcOf[f] = Root
  PROVE  Spec => ImplementsOnceTable
<1>1. Init => Once!Init
  BY RefineInit
<1>2. TypeOK /\ FillInv /\ [Next]_vars => [Once!Next]_(Once!vars)
  BY RefineStep
<1> QED
  BY <1>1, <1>2, FillCorrect, PTL DEF Spec, Once!Spec, ImplementsOnceTable

-------------------------------------------------------------------------------

\* Until a wrapper's real call is issued, every socket option it has looked up
\* came from the host's table.
LookupInv == SockoptsStatic /\ IssueBefore

\* A consult's answer keeps that: an option without the host's table ends the call.
LEMMA AnswerLookup ==
  ASSUME TypeOK, LookupInv, NEW f \in Frames, pc[f] \in Consulting,
         NEW v, v.grp = Grp(f), Answer(f, v)
  PROVE  LookupInv'
<1>1. PICK l \in Continuations(f, v) :
        /\ pc' = [pc EXCEPT ![f] = l]
        /\ phase' = [phase EXCEPT ![f] = IF l = "idle" THEN "before" ELSE @]
  BY DEF Answer, Goto
<1>2. got' = [got EXCEPT ![f] = @ \union {v}]
  BY DEF Answer
<1>3. l = "issue" => phase[f] = "before"
  BY ContinuationsKind
<1>4. phase[f] = "before" /\ v.grp \in SockGroups /\ ~v.static => l = "idle"
  BY DEF Continuations, LookupFails
<1>5. pc[f] # "idle"
  BY ConsultingNotIdle
<1>6. /\ pc'[f] = l /\ \A e \in Frames \ {f} : pc'[e] = pc[e] /\ got'[e] = got[e]
      /\ got'[f] = got[f] \union {v}
      /\ l # "idle" => phase'[f] = phase[f]
      /\ \A e \in Frames \ {f} : phase'[e] = phase[e]
  BY <1>1, <1>2 DEF TypeOK
<1>7. SockoptsStatic'
  BY <1>4, <1>5, <1>6 DEF LookupInv, SockoptsStatic
<1>8. IssueBefore'
  BY <1>3, <1>6 DEF LookupInv, IssueBefore
<1> QED
  BY <1>7, <1>8 DEF LookupInv

LEMMA LookupStep == TypeOK /\ LookupInv /\ [Next]_vars => LookupInv'
<1> SUFFICES ASSUME TypeOK, LookupInv, [Next]_vars PROVE LookupInv'
  OBVIOUS
<1> USE ConsultingNotIdle
<1>1. CASE UNCHANGED <<pc, phase, got>>
  BY <1>1 DEF LookupInv, SockoptsStatic, IssueBefore
<1>2. ASSUME NEW f \in Frames, Enter(f) PROVE LookupInv'
  <2>1. got'[f] = {} /\ phase'[f] = "before"
    BY <1>2 DEF Enter, TypeOK
  <2>2. \A e \in Frames \ {f} : pc'[e] = pc[e] /\ phase'[e] = phase[e] /\ got'[e] = got[e]
    BY <1>2 DEF Enter, Goto, TypeOK
  <2> QED
    BY <2>1, <2>2 DEF LookupInv, SockoptsStatic, IssueBefore
\* A frame that moves inside group() has the answers it had.
<1>3. ASSUME NEW f \in Frames, pc[f] \in Consulting,
             NEW l \in Consulting, pc' = [pc EXCEPT ![f] = l], UNCHANGED <<phase, got>>
      PROVE  LookupInv'
  <2>1. /\ pc'[f] = l
        /\ \A e \in Frames \ {f} : pc'[e] = pc[e]
    BY <1>3 DEF TypeOK
  <2> QED
    BY <1>3, <2>1 DEF LookupInv, SockoptsStatic, IssueBefore
<1>4. ASSUME NEW f \in Frames, LoadWord(f) \/ Claim(f) \/ Publish(f) PROVE LookupInv'
  <2>1. pc[f] \in Consulting /\ UNCHANGED <<phase, got>>
    BY <1>4 DEF LoadWord, Claim, Publish, Consulting
  <2>2. PICK l \in Consulting : pc' = [pc EXCEPT ![f] = l]
    BY <1>4 DEF LoadWord, Claim, Publish, Goto, Consulting
  <2> QED
    BY <1>3, <2>1, <2>2
<1>5. ASSUME NEW f \in Frames, CheckReady(f) \/ Reload(f) \/ ReadTable(f) PROVE LookupInv'
  <2>1. pc[f] \in Consulting
    BY <1>5 DEF CheckReady, Reload, ReadTable, Consulting
  <2>2. CASE Answer(f, LinuxView(Grp(f)))
    BY <2>1, <2>2, AnswerLookup DEF LinuxView
  <2>3. CASE Answer(f, TableView(ProcOf[f], Grp(f)))
    BY <2>1, <2>3, AnswerLookup DEF TableView
  <2>4. CASE (Goto(f, "claim") \/ Goto(f, "read")) /\ UNCHANGED <<phase, got>>
    <3>1. PICK l \in Consulting : pc' = [pc EXCEPT ![f] = l]
      BY <2>4 DEF Goto, Consulting
    <3> QED
      BY <1>3, <2>1, <2>4, <3>1
  <2> QED
    BY <1>5, <2>2, <2>3, <2>4 DEF CheckReady, Reload, ReadTable
<1>6. ASSUME NEW f \in Frames, Issue(f) PROVE LookupInv'
  <2>1. /\ got' = got /\ pc'[f] \in {"idle", "load"}
        /\ pc'[f] = "load" => phase'[f] \in {"after", "errno"}
    BY <1>6 DEF Issue, Goto, TypeOK
  <2>2. \A e \in Frames \ {f} : pc'[e] = pc[e] /\ phase'[e] = phase[e]
    BY <1>6 DEF Issue, Goto, TypeOK
  <2> QED
    BY <2>1, <2>2 DEF LookupInv, SockoptsStatic, IssueBefore
<1>7. ASSUME NEW p \in Procs, LoadConstants(p) PROVE UNCHANGED <<pc, phase, got>>
  BY <1>7 DEF LoadConstants, frame
<1>8. ASSUME NEW f \in Frames, NEW c \in Frames, Fork(f, c) PROVE UNCHANGED <<pc, phase, got>>
  BY <1>8 DEF Fork, frame
<1>9. ASSUME NEW f \in Frames, StoreRow(f) PROVE UNCHANGED <<pc, phase, got>>
  BY <1>9 DEF StoreRow
<1>10. CASE UNCHANGED vars
  BY <1>1, <1>10 DEF vars, frame
<1> QED
  BY <1>1, <1>2, <1>4, <1>5, <1>6, <1>7, <1>8, <1>9, <1>10 DEF Next, Consult

\* No socket option reaches the real call under a number that did not come from
\* the host's own table.
THEOREM SockoptsNeverRawHolds == Spec => []SockoptsNeverRaw
<1>1. Init => LookupInv
  BY DEF Init, LookupInv, SockoptsStatic, IssueBefore
<1>2. LookupInv => SockoptsNeverRaw
  BY DEF LookupInv, SockoptsStatic, IssueBefore, SockoptsNeverRaw
<1> QED
  BY <1>1, <1>2, LookupStep, TypeCorrect, PTL DEF Spec
==============================================================================
