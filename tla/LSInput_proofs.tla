--------------------------- MODULE LSInput_proofs ---------------------------
(***************************************************************************)
(* Proofs about LSInput for every value of its constants.                  *)
(*                                                                         *)
(* EOFAfterAllInput is not inductive alone.  When the pump closes a live   *)
(* child's stdin it must know what forward() already did: the EOF frame    *)
(* it received was the channel's last frame (EofLast), so the channel is   *)
(* empty; no frame of this child was dropped while its stdin was open and  *)
(* it ran (DropInv); and the connector in hand is one of a child that was  *)
(* spawned, so Spawn cannot reopen its stdin under the pump (PumpSpawned). *)
(***************************************************************************)
EXTENDS LSInput, SequenceTheorems, TLAPS

PumpRec == [pc : PumpPcs, cur : Procs \cup {NoProc}, eof : BOOLEAN]
MainRec == [pc : MainPcs, p : Procs \cup {NoProc}, confirm : BOOLEAN, targ : BOOLEAN,
            err : BOOLEAN]

\* TypeOK in four parts: the SMT backend handles the first three, and the
\* threads' records, with their Boolean fields, go to Zenon.
TypeNums ==
    /\ pipe \in [Procs -> 0..PipeCap] /\ nsent \in [Procs -> 0..MaxData]
    /\ dropped \in [Procs -> Nat] /\ nreq \in 0..MaxReq
TypeFlags ==
    /\ spawned \in [Procs -> BOOLEAN] /\ inTable \in [Procs -> BOOLEAN]
    /\ alive \in [Procs -> BOOLEAN] /\ rc \in [Procs -> BOOLEAN]
    /\ peerClosed \in [Procs -> BOOLEAN] /\ shutdown \in BOOLEAN
TypeSets ==
    /\ stdin \in [Procs -> StdinStates] /\ chan \in [Procs -> Seq(Frames)]
    /\ monQ \in Seq(Procs) /\ conns \subseteq Procs /\ connClosed \subseteq Procs
    /\ dead \in Procs \cup {NoProc} /\ writers \in [Procs -> SUBSET {"pump", "main"}]
TypeRecs == pump \in PumpRec /\ main \in MainRec
TypeParts == TypeNums /\ TypeFlags /\ TypeSets /\ TypeRecs

\* The threads' records written out field by field, the form in which the
\* SMT backend reasons about their EXCEPT updates.
RecEta ==
    /\ pump = [pc |-> pump.pc, cur |-> pump.cur, eof |-> pump.eof]
    /\ main = [pc |-> main.pc, p |-> main.p, confirm |-> main.confirm,
               targ |-> main.targ, err |-> main.err]

LEMMA RecEtaOK == TypeRecs => RecEta
  BY Zenon DEF TypeRecs, PumpRec, MainRec, RecEta

\* The parts say exactly what TypeOK says.
LEMMA TypePartsOK == TypeParts <=> TypeOK
  BY Zenon DEF TypeParts, TypeNums, TypeFlags, TypeSets, TypeRecs, PumpRec, MainRec, TypeOK

\* A child that was never spawned has no channel traffic yet.
Unspawned ==
    \A p \in Procs : ~spawned[p] =>
        /\ chan[p] = <<>> /\ ~peerClosed[p] /\ dropped[p] = 0 /\ ~alive[p]

\* Once the reaper popped a spawned child, the child is dead; so a set
\* returncode means a dead child.
ReapedDead ==
    \A p \in Procs :
        /\ spawned[p] /\ ~inTable[p] => ~alive[p]
        /\ rc[p] => spawned[p] /\ ~inTable[p]

\* The EOF frame is the last frame of a channel, sent after the peer closed.
EofLast ==
    \A p \in Procs : \A i \in 1..Len(chan[p]) :
        chan[p][i] = "eof" => i = Len(chan[p]) /\ peerClosed[p]

\* A frame is dropped only once the child's stdin is not open or it died.
DropInv == \A p \in Procs : dropped[p] > 0 => stdin[p] # "open" \/ ~alive[p]

\* The connectors the pump knows and the one in hand are of spawned children.
PumpSpawned ==
    /\ \A i \in 1..Len(monQ) : spawned[monQ[i]]
    /\ \A p \in conns : spawned[p]
    /\ pump.pc \in {"fwd", "cfwd", "check", "close"} =>
           pump.cur \in Procs /\ spawned[pump.cur]

\* The request fwd_input handles names a child.
MainTarget == main.pc \in {"lookup", "write", "respond", "dead"} => main.p \in Procs

\* After forward() returned True the channel is drained and closed; while
\* close() runs on a live child with an open stdin, nothing of its input
\* is pending or lost.
CloseReady ==
    LET p == pump.cur IN
    /\ pump.pc = "check" /\ pump.eof => chan[p] = <<>> /\ peerClosed[p]
    /\ pump.pc \in {"cfwd", "close"} /\ alive[p] /\ stdin[p] = "open" =>
           chan[p] = <<>> /\ peerClosed[p] /\ dropped[p] = 0

IInv ==
    /\ TypeParts /\ Unspawned /\ ReapedDead /\ EofLast /\ DropInv /\ PumpSpawned
    /\ MainTarget /\ CloseReady /\ EOFAfterAllInput


\* The strengthened invariant holds when LS starts.
LEMMA InitIInv == Init => IInv
<1> SUFFICES ASSUME Init PROVE IInv
  OBVIOUS
<1>1. TypeParts
  <2>1. pump \in [pc : PumpPcs, cur : Procs \cup {NoProc}, eof : BOOLEAN]
    BY DEF Init, PumpPcs
  <2>2. main \in [pc : MainPcs, p : Procs \cup {NoProc}, confirm : BOOLEAN,
                  targ : BOOLEAN, err : BOOLEAN]
    BY DEF Init, NoMain, MainPcs
  <2>3. stdin \in [Procs -> StdinStates] /\ chan \in [Procs -> Seq(Frames)]
    BY DEF Init, StdinStates
  <2>4. writers \in [Procs -> SUBSET {"pump", "main"}] /\ monQ \in Seq(Procs)
    BY DEF Init
  <2>5. pipe \in [Procs -> 0..PipeCap] /\ nsent \in [Procs -> 0..MaxData]
        /\ dropped \in [Procs -> Nat] /\ nreq \in 0..MaxReq
    BY InputAssumptions DEF Init
  <2>. QED
    BY <2>1, <2>2, <2>3, <2>4, <2>5, TypePartsOK DEF Init, TypeOK
<1>2. Unspawned /\ ReapedDead /\ EofLast /\ DropInv /\ PumpSpawned /\ MainTarget
  BY DEF Init, Unspawned, ReapedDead, EofLast, DropInv, PumpSpawned, MainTarget, NoMain
<1>3. CloseReady /\ EOFAfterAllInput
  BY DEF Init, CloseReady, EOFAfterAllInput
<1>. QED
  BY <1>1, <1>2, <1>3 DEF IInv

\* Recording a writer of a child's stdin keeps writers well typed.
LEMMA WritersOK ==
  ASSUME NEW W \in [Procs -> SUBSET {"pump", "main"}], NEW q \in Procs,
         NEW t \in {"pump", "main"}
  PROVE  [W EXCEPT ![q] = @ \cup {t}] \in [Procs -> SUBSET {"pump", "main"}]
  BY Zenon

\* Taking the head frame off a non-empty channel keeps chan well typed.
LEMMA ChanTailOK ==
  ASSUME NEW C \in [Procs -> Seq(Frames)], NEW q \in Procs, C[q] # <<>>
  PROVE  [C EXCEPT ![q] = Tail(@)] \in [Procs -> Seq(Frames)]
  OBVIOUS

\* The tail of a one-frame channel is empty.
LEMMA TailOne ==
  ASSUME NEW S, NEW s \in Seq(S), Len(s) = 1
  PROVE  Tail(s) = <<>>
<1>1. Tail(s) \in Seq(S) /\ Len(Tail(s)) = 0
  BY HeadTailProperties
<1>. QED
  BY <1>1, EmptySeq

\* Taking the head off a channel keeps the EOF frame last.
LEMMA EofTail ==
  ASSUME NEW s \in Seq(Frames), s # <<>>, NEW b,
         \A i \in 1..Len(s) : s[i] = "eof" => i = Len(s) /\ b
  PROVE  \A i \in 1..Len(Tail(s)) : Tail(s)[i] = "eof" => i = Len(Tail(s)) /\ b
  OBVIOUS

\* Each step keeps every variable in its type.
LEMMA TypeStep == TypeParts /\ PumpSpawned /\ MainTarget /\ [Next]_vars => TypeParts'
<1> SUFFICES ASSUME TypeParts, PumpSpawned, MainTarget, [Next]_vars PROVE TypeParts'
  OBVIOUS
<1> USE InputAssumptions DEF StdinStates, Frames, PumpPcs, MainPcs
<1>0. TypeNums /\ TypeFlags /\ TypeSets /\ TypeRecs
  BY DEF TypeParts
<1>1. ASSUME NEW p \in Procs, Spawn(p) PROVE TypeParts'
  <2>1. TypeNums'
    BY <1>0, <1>1 DEF Spawn, chanVars, TypeNums
  <2>2. TypeFlags'
    BY <1>0, <1>1 DEF Spawn, chanVars, TypeFlags
  <2>3. TypeSets'
    BY <1>0, <1>1 DEF Spawn, chanVars, TypeSets
  <2>4. TypeRecs'
    BY <1>0, <1>1, Zenon DEF Spawn, chanVars, TypeRecs, PumpRec, MainRec
  <2>. QED
    BY <2>1, <2>2, <2>3, <2>4 DEF TypeParts
<1>2. ASSUME NEW p \in Procs, PeerSend(p) PROVE TypeParts'
  <2>1. (TypeNums /\ TypeFlags /\ TypeSets)'
    BY <1>0, <1>2 DEF PeerSend, childVars, pumpVars, TypeNums, TypeFlags, TypeSets
  <2>2. TypeRecs'
    BY <1>0, <1>2, Zenon DEF PeerSend, childVars, pumpVars, TypeRecs, PumpRec, MainRec
  <2>. QED
    BY <2>1, <2>2 DEF TypeParts
<1>3. ASSUME NEW p \in Procs, PeerClose(p) PROVE TypeParts'
  <2>1. (TypeNums /\ TypeFlags /\ TypeSets)'
    BY <1>0, <1>3 DEF PeerClose, childVars, pumpVars, TypeNums, TypeFlags, TypeSets
  <2>2. TypeRecs'
    BY <1>0, <1>3, Zenon DEF PeerClose, childVars, pumpVars, TypeRecs, PumpRec, MainRec
  <2>. QED
    BY <2>1, <2>2 DEF TypeParts
<1>4. ASSUME NEW p \in Procs, ChildRead(p) PROVE TypeParts'
  <2>1. (TypeNums /\ TypeFlags /\ TypeSets)'
    BY <1>0, <1>4 DEF ChildRead, childVars, chanVars, pumpVars, TypeNums, TypeFlags, TypeSets
  <2>2. TypeRecs'
    BY <1>0, <1>4, Zenon DEF ChildRead, childVars, chanVars, pumpVars, TypeRecs, PumpRec, MainRec
  <2>. QED
    BY <2>1, <2>2 DEF TypeParts
<1>5. ASSUME NEW p \in Procs, ChildExit(p) PROVE TypeParts'
  <2>1. (TypeNums /\ TypeFlags /\ TypeSets)'
    BY <1>0, <1>5 DEF ChildExit, chanVars, pumpVars, TypeNums, TypeFlags, TypeSets
  <2>2. TypeRecs'
    BY <1>0, <1>5, Zenon DEF ChildExit, chanVars, pumpVars, TypeRecs, PumpRec, MainRec
  <2>. QED
    BY <2>1, <2>2 DEF TypeParts
<1>6. ASSUME NEW p \in Procs, ReapPop(p) PROVE TypeParts'
  <2>1. (TypeNums /\ TypeFlags /\ TypeSets)'
    BY <1>0, <1>6 DEF ReapPop, chanVars, pumpVars, TypeNums, TypeFlags, TypeSets
  <2>2. TypeRecs'
    BY <1>0, <1>6, Zenon DEF ReapPop, chanVars, pumpVars, TypeRecs, PumpRec, MainRec
  <2>. QED
    BY <2>1, <2>2 DEF TypeParts
<1>7. ASSUME NEW p \in Procs, ReapWait(p) PROVE TypeParts'
  <2>1. (TypeNums /\ TypeFlags /\ TypeSets)'
    BY <1>0, <1>7 DEF ReapWait, chanVars, pumpVars, TypeNums, TypeFlags, TypeSets
  <2>2. TypeRecs'
    BY <1>0, <1>7, Zenon DEF ReapWait, chanVars, pumpVars, TypeRecs, PumpRec, MainRec
  <2>. QED
    BY <2>1, <2>2 DEF TypeParts
<1>8. ASSUME Teardown PROVE TypeParts'
  <2>1. (TypeNums /\ TypeFlags /\ TypeSets)'
    BY <1>0, <1>8 DEF Teardown, childVars, chanVars, pumpVars, TypeNums, TypeFlags, TypeSets
  <2>2. TypeRecs'
    BY <1>0, <1>8, Zenon DEF Teardown, childVars, chanVars, pumpVars, TypeRecs, PumpRec, MainRec
  <2>. QED
    BY <2>1, <2>2 DEF TypeParts
<1>9. ASSUME NEW p \in Procs, NEW c \in BOOLEAN, RecvFwdInput(p, c) PROVE TypeParts'
  <2>1. TypeNums'
    BY <1>0, <1>9 DEF RecvFwdInput, childVars, chanVars, pumpVars, NoMain, TypeNums
  <2>2. TypeFlags'
    BY <1>0, <1>9 DEF RecvFwdInput, childVars, chanVars, pumpVars, NoMain, TypeFlags
  <2>3. TypeSets'
    BY <1>0, <1>9 DEF RecvFwdInput, childVars, chanVars, pumpVars, NoMain, TypeSets
  <2>4. TypeRecs'
    BY <1>0, <1>9, Zenon DEF RecvFwdInput, childVars, chanVars, pumpVars, NoMain, TypeRecs, PumpRec, MainRec
  <2>. QED
    BY <2>1, <2>2, <2>3, <2>4 DEF TypeParts
<1>10. ASSUME FwdLookup PROVE TypeParts'
  <2>1. (TypeNums /\ TypeFlags /\ TypeSets)'
    BY <1>0, <1>10 DEF FwdLookup, childVars, chanVars, pumpVars, MainTarget, TypeNums, TypeFlags, TypeSets
  <2>2. TypeRecs'
    BY <1>0, <1>10, Zenon DEF FwdLookup, childVars, chanVars, pumpVars, MainTarget, TypeFlags, TypeRecs, PumpRec, MainRec
  <2>. QED
    BY <2>1, <2>2 DEF TypeParts
<1>11. ASSUME FwdWrite PROVE TypeParts'
  <2>1. TypeNums'
    BY <1>0, <1>11 DEF FwdWrite, PipeWrite, childVars, chanVars, pumpVars, MainTarget, TypeNums
  <2>2. TypeFlags'
    BY <1>0, <1>11 DEF FwdWrite, PipeWrite, childVars, chanVars, pumpVars, MainTarget, TypeFlags
  <2>3. TypeSets'
    <3>1. writers' \in [Procs -> SUBSET {"pump", "main"}]
      <4>1. main.p \in Procs
        BY <1>11 DEF FwdWrite, MainTarget
      <4>2. writers' = writers \/ writers' = [writers EXCEPT ![main.p] = @ \cup {"main"}]
        BY <1>11 DEF FwdWrite, PipeWrite
      <4>. QED
        BY <1>0, <4>1, <4>2, WritersOK DEF TypeSets
    <3>2. UNCHANGED <<stdin, chan, monQ, conns, connClosed, dead>>
      BY <1>11 DEF FwdWrite, chanVars, pumpVars
    <3>. QED
      BY <1>0, <3>1, <3>2 DEF TypeSets
  <2>4. TypeRecs'
    BY <1>0, <1>11, Zenon DEF FwdWrite, PipeWrite, childVars, chanVars, pumpVars, MainTarget, TypeRecs, PumpRec, MainRec
  <2>. QED
    BY <2>1, <2>2, <2>3, <2>4 DEF TypeParts
<1>12. ASSUME FwdRespond PROVE TypeParts'
  <2>1. (TypeNums /\ TypeFlags /\ TypeSets)'
    BY <1>0, <1>12 DEF FwdRespond, childVars, chanVars, pumpVars, NoMain, MainTarget, TypeNums, TypeFlags, TypeSets
  <2>2. TypeRecs'
    BY <1>0, <1>12, Zenon DEF FwdRespond, childVars, chanVars, pumpVars, NoMain, MainTarget, TypeRecs, PumpRec, MainRec
  <2>. QED
    BY <2>1, <2>2 DEF TypeParts
<1>13. ASSUME PumpUpdate PROVE TypeParts'
  <2>1. TypeNums'
    BY <1>0, <1>13 DEF PumpUpdate, QueuedProcs, childVars, chanVars, TypeNums
  <2>2. TypeFlags'
    BY <1>0, <1>13 DEF PumpUpdate, QueuedProcs, childVars, chanVars, TypeFlags
  <2>3. TypeSets'
    <3>1. QueuedProcs \subseteq Procs
      BY <1>0 DEF QueuedProcs, TypeSets
    <3>2. conns' \subseteq Procs /\ monQ' \in Seq(Procs) /\ dead' \in Procs \cup {NoProc}
      <4>1. CASE shutdown
        BY <1>0, <1>13, <4>1 DEF PumpUpdate, TypeSets
      <4>2. CASE ~shutdown
        BY <1>0, <1>13, <3>1, <4>2 DEF PumpUpdate, TypeSets
      <4>. QED
        BY <4>1, <4>2
    <3>3. UNCHANGED <<stdin, chan, connClosed, writers>>
      BY <1>13 DEF PumpUpdate, chanVars
    <3>. QED
      BY <1>0, <3>2, <3>3 DEF TypeSets
  <2>4. TypeRecs'
    BY <1>0, <1>13, Zenon DEF PumpUpdate, QueuedProcs, childVars, chanVars, TypeRecs, PumpRec, MainRec
  <2>. QED
    BY <2>1, <2>2, <2>3, <2>4 DEF TypeParts
<1>14. ASSUME PumpPoll PROVE TypeParts'
  <2>1. (TypeNums /\ TypeFlags /\ TypeSets)'
    BY <1>0, <1>14 DEF PumpPoll, childVars, chanVars, TypeNums, TypeFlags, TypeSets
  <2>2. TypeRecs'
    BY <1>0, <1>14, Zenon DEF PumpPoll, childVars, chanVars, TypeSets, TypeRecs, PumpRec, MainRec
  <2>. QED
    BY <2>1, <2>2 DEF TypeParts
<1>15. ASSUME PumpForward PROVE TypeParts'
  <2>1. TypeNums'
    <3>0. pump.cur \in Procs
      BY <1>15 DEF PumpForward, PumpSpawned
    <3>1. pipe' \in [Procs -> 0..PipeCap]
      <4>1. \/ pipe' = pipe
            \/ pipe[pump.cur] < PipeCap /\ pipe' = [pipe EXCEPT ![pump.cur] = @ + 1]
        BY <1>15 DEF PumpForward, PipeWrite
      <4>. QED
        BY <1>0, <3>0, <4>1 DEF TypeNums
    <3>2. dropped' \in [Procs -> Nat]
      <4>1. \/ dropped' = dropped
            \/ dropped' = [dropped EXCEPT ![pump.cur] = @ + 1]
        BY <1>15 DEF PumpForward
      <4>. QED
        BY <1>0, <3>0, <4>1 DEF TypeNums
    <3>3. UNCHANGED <<nsent, nreq>>
      BY <1>15 DEF PumpForward
    <3>. QED
      BY <1>0, <3>1, <3>2, <3>3 DEF TypeNums
  <2>2. TypeFlags'
    BY <1>0, <1>15 DEF PumpForward, PipeWrite, AfterForward, childVars, PumpSpawned, TypeFlags
  <2>3. TypeSets'
    <3>0. pump.cur \in Procs
      BY <1>15 DEF PumpForward, PumpSpawned
    <3>1. writers' \in [Procs -> SUBSET {"pump", "main"}]
      <4>1. writers' = writers \/ writers' = [writers EXCEPT ![pump.cur] = @ \cup {"pump"}]
        BY <1>15 DEF PumpForward, PipeWrite
      <4>. QED
        BY <1>0, <3>0, <4>1, WritersOK DEF TypeSets
    <3>2. chan' \in [Procs -> Seq(Frames)]
      <4>1. \/ chan' = chan
            \/ chan[pump.cur] # <<>> /\ chan' = [chan EXCEPT ![pump.cur] = Tail(@)]
        BY <1>15 DEF PumpForward
      <4>2. chan \in [Procs -> Seq(Frames)]
        BY <1>0 DEF TypeSets
      <4>3. CASE chan[pump.cur] # <<>> /\ chan' = [chan EXCEPT ![pump.cur] = Tail(@)]
        BY <3>0, <4>2, <4>3, ChanTailOK
      <4>. QED
        BY <4>1, <4>2, <4>3
    <3>3. UNCHANGED <<stdin, monQ, conns, connClosed, dead>>
      BY <1>15 DEF PumpForward
    <3>. QED
      BY <1>0, <3>1, <3>2, <3>3 DEF TypeSets
  <2>4. TypeRecs'
    BY <1>0, <1>15, Zenon DEF PumpForward, PipeWrite, AfterForward, childVars, PumpSpawned, TypeRecs, PumpRec, MainRec
  <2>. QED
    BY <2>1, <2>2, <2>3, <2>4 DEF TypeParts
<1>16. ASSUME PumpCheck PROVE TypeParts'
  <2>1. (TypeNums /\ TypeFlags /\ TypeSets)'
    BY <1>0, <1>16 DEF PumpCheck, childVars, chanVars, PumpSpawned, TypeNums, TypeFlags, TypeSets
  <2>2. TypeRecs'
    BY <1>0, <1>16, Zenon DEF PumpCheck, childVars, chanVars, PumpSpawned, TypeRecs, PumpRec, MainRec
  <2>. QED
    BY <2>1, <2>2 DEF TypeParts
<1>17. ASSUME PumpClose PROVE TypeParts'
  <2>1. (TypeNums /\ TypeFlags /\ TypeSets)'
    BY <1>0, <1>17 DEF PumpClose, childVars, chanVars, PumpSpawned, TypeNums, TypeFlags, TypeSets
  <2>2. TypeRecs'
    BY <1>0, <1>17, Zenon DEF PumpClose, childVars, chanVars, PumpSpawned, TypeRecs, PumpRec, MainRec
  <2>. QED
    BY <2>1, <2>2 DEF TypeParts
<1>18. CASE UNCHANGED vars
  <2>1. (TypeNums /\ TypeFlags /\ TypeSets)'
    BY <1>0, <1>18 DEF vars, childVars, chanVars, pumpVars, TypeNums, TypeFlags, TypeSets
  <2>2. TypeRecs'
    BY <1>0, <1>18, Zenon DEF vars, childVars, chanVars, pumpVars, TypeRecs
  <2>. QED
    BY <2>1, <2>2 DEF TypeParts
<1>. QED
  BY <1>1, <1>2, <1>3, <1>4, <1>5, <1>6, <1>7, <1>8, <1>9, <1>10, <1>11, <1>12,
     <1>13, <1>14, <1>15, <1>16, <1>17, <1>18
  DEF Next, MainStep, PumpStep, ReaperStep, Environment


\* Nothing happens on the channel of a child before it is spawned.
LEMMA UnspawnedStep == IInv /\ [Next]_vars => Unspawned'
<1> SUFFICES ASSUME IInv, [Next]_vars PROVE Unspawned'
  OBVIOUS
<1> USE InputAssumptions DEF StdinStates, Frames, PumpPcs, MainPcs
<1>0. TypeNums /\ TypeFlags /\ TypeSets /\ Unspawned /\ ReapedDead /\ EofLast /\ DropInv /\ PumpSpawned /\ MainTarget /\ CloseReady /\ EOFAfterAllInput
  BY DEF IInv, TypeParts
<1>00. RecEta
  BY RecEtaOK DEF IInv, TypeParts
<1>1. ASSUME NEW p \in Procs, Spawn(p) PROVE Unspawned'
  BY <1>0, <1>1 DEF Spawn, chanVars, Unspawned, PumpSpawned, TypeNums, TypeFlags, TypeSets
<1>2. ASSUME NEW p \in Procs, PeerSend(p) PROVE Unspawned'
  BY <1>0, <1>2 DEF PeerSend, childVars, pumpVars, Unspawned, PumpSpawned
<1>3. ASSUME NEW p \in Procs, PeerClose(p) PROVE Unspawned'
  BY <1>0, <1>3 DEF PeerClose, childVars, pumpVars, Unspawned, PumpSpawned
<1>4. ASSUME NEW p \in Procs, ChildRead(p) PROVE Unspawned'
  BY <1>0, <1>4 DEF ChildRead, childVars, chanVars, pumpVars, Unspawned, PumpSpawned
<1>5. ASSUME NEW p \in Procs, ChildExit(p) PROVE Unspawned'
  BY <1>0, <1>5 DEF ChildExit, chanVars, pumpVars, Unspawned, PumpSpawned
<1>6. ASSUME NEW p \in Procs, ReapPop(p) PROVE Unspawned'
  BY <1>0, <1>6 DEF ReapPop, chanVars, pumpVars, Unspawned, PumpSpawned
<1>7. ASSUME NEW p \in Procs, ReapWait(p) PROVE Unspawned'
  BY <1>0, <1>7 DEF ReapWait, chanVars, pumpVars, Unspawned, PumpSpawned
<1>8. ASSUME Teardown PROVE Unspawned'
  BY <1>0, <1>8 DEF Teardown, childVars, chanVars, pumpVars, Unspawned, PumpSpawned
<1>9. ASSUME NEW p \in Procs, NEW c \in BOOLEAN, RecvFwdInput(p, c) PROVE Unspawned'
  BY <1>0, <1>9 DEF RecvFwdInput, childVars, chanVars, pumpVars, NoMain, Unspawned, PumpSpawned
<1>10. ASSUME FwdLookup PROVE Unspawned'
  BY <1>0, <1>10 DEF FwdLookup, childVars, chanVars, pumpVars, Unspawned, PumpSpawned
<1>11. ASSUME FwdWrite PROVE Unspawned'
  BY <1>0, <1>11 DEF FwdWrite, PipeWrite, childVars, chanVars, pumpVars, Unspawned, PumpSpawned
<1>12. ASSUME FwdRespond PROVE Unspawned'
  BY <1>0, <1>12 DEF FwdRespond, childVars, chanVars, pumpVars, NoMain, Unspawned, PumpSpawned
<1>13. ASSUME PumpUpdate PROVE Unspawned'
  BY <1>0, <1>13 DEF PumpUpdate, QueuedProcs, childVars, chanVars, Unspawned, PumpSpawned
<1>14. ASSUME PumpPoll PROVE Unspawned'
  BY <1>0, <1>14 DEF PumpPoll, childVars, chanVars, Unspawned, PumpSpawned
<1>15. ASSUME PumpForward PROVE Unspawned'
  BY <1>0, <1>15 DEF PumpForward, PipeWrite, AfterForward, childVars, Unspawned, PumpSpawned, TypeNums, TypeFlags, TypeSets
<1>16. ASSUME PumpCheck PROVE Unspawned'
  BY <1>0, <1>16 DEF PumpCheck, childVars, chanVars, Unspawned, PumpSpawned
<1>17. ASSUME PumpClose PROVE Unspawned'
  BY <1>0, <1>17 DEF PumpClose, childVars, chanVars, Unspawned, PumpSpawned
<1>18. CASE UNCHANGED vars
  BY <1>0, <1>18 DEF vars, childVars, chanVars, pumpVars, Unspawned
<1>. QED
  BY <1>1, <1>2, <1>3, <1>4, <1>5, <1>6, <1>7, <1>8, <1>9, <1>10, <1>11, <1>12,
     <1>13, <1>14, <1>15, <1>16, <1>17, <1>18
  DEF Next, MainStep, PumpStep, ReaperStep, Environment

\* The reaper pops only dead children, and sets a returncode only after the pop.
LEMMA ReapedDeadStep == IInv /\ [Next]_vars => ReapedDead'
<1> SUFFICES ASSUME IInv, [Next]_vars PROVE ReapedDead'
  OBVIOUS
<1> USE InputAssumptions DEF StdinStates, Frames, PumpPcs, MainPcs
<1>0. TypeNums /\ TypeFlags /\ TypeSets /\ Unspawned /\ ReapedDead /\ EofLast /\ DropInv /\ PumpSpawned /\ MainTarget /\ CloseReady /\ EOFAfterAllInput
  BY DEF IInv, TypeParts
<1>00. RecEta
  BY RecEtaOK DEF IInv, TypeParts
<1>1. ASSUME NEW p \in Procs, Spawn(p) PROVE ReapedDead'
  BY <1>0, <1>1 DEF Spawn, chanVars, ReapedDead, TypeNums, TypeFlags, TypeSets
<1>2. ASSUME NEW p \in Procs, PeerSend(p) PROVE ReapedDead'
  BY <1>0, <1>2 DEF PeerSend, childVars, pumpVars, ReapedDead
<1>3. ASSUME NEW p \in Procs, PeerClose(p) PROVE ReapedDead'
  BY <1>0, <1>3 DEF PeerClose, childVars, pumpVars, ReapedDead
<1>4. ASSUME NEW p \in Procs, ChildRead(p) PROVE ReapedDead'
  BY <1>0, <1>4 DEF ChildRead, childVars, chanVars, pumpVars, ReapedDead
<1>5. ASSUME NEW p \in Procs, ChildExit(p) PROVE ReapedDead'
  BY <1>0, <1>5 DEF ChildExit, chanVars, pumpVars, ReapedDead
<1>6. ASSUME NEW p \in Procs, ReapPop(p) PROVE ReapedDead'
  BY <1>0, <1>6 DEF ReapPop, chanVars, pumpVars, ReapedDead
<1>7. ASSUME NEW p \in Procs, ReapWait(p) PROVE ReapedDead'
  BY <1>0, <1>7 DEF ReapWait, chanVars, pumpVars, ReapedDead
<1>8. ASSUME Teardown PROVE ReapedDead'
  BY <1>0, <1>8 DEF Teardown, childVars, chanVars, pumpVars, ReapedDead
<1>9. ASSUME NEW p \in Procs, NEW c \in BOOLEAN, RecvFwdInput(p, c) PROVE ReapedDead'
  BY <1>0, <1>9 DEF RecvFwdInput, childVars, chanVars, pumpVars, NoMain, ReapedDead
<1>10. ASSUME FwdLookup PROVE ReapedDead'
  BY <1>0, <1>10 DEF FwdLookup, childVars, chanVars, pumpVars, ReapedDead
<1>11. ASSUME FwdWrite PROVE ReapedDead'
  BY <1>0, <1>11 DEF FwdWrite, PipeWrite, childVars, chanVars, pumpVars, ReapedDead
<1>12. ASSUME FwdRespond PROVE ReapedDead'
  BY <1>0, <1>12 DEF FwdRespond, childVars, chanVars, pumpVars, NoMain, ReapedDead
<1>13. ASSUME PumpUpdate PROVE ReapedDead'
  BY <1>0, <1>13 DEF PumpUpdate, QueuedProcs, childVars, chanVars, ReapedDead
<1>14. ASSUME PumpPoll PROVE ReapedDead'
  BY <1>0, <1>14 DEF PumpPoll, childVars, chanVars, ReapedDead
<1>15. ASSUME PumpForward PROVE ReapedDead'
  BY <1>0, <1>15 DEF PumpForward, PipeWrite, AfterForward, childVars, ReapedDead
<1>16. ASSUME PumpCheck PROVE ReapedDead'
  BY <1>0, <1>16 DEF PumpCheck, childVars, chanVars, ReapedDead
<1>17. ASSUME PumpClose PROVE ReapedDead'
  BY <1>0, <1>17 DEF PumpClose, childVars, chanVars, ReapedDead
<1>18. CASE UNCHANGED vars
  BY <1>0, <1>18 DEF vars, childVars, chanVars, pumpVars, ReapedDead
<1>. QED
  BY <1>1, <1>2, <1>3, <1>4, <1>5, <1>6, <1>7, <1>8, <1>9, <1>10, <1>11, <1>12,
     <1>13, <1>14, <1>15, <1>16, <1>17, <1>18
  DEF Next, MainStep, PumpStep, ReaperStep, Environment

\* The EOF frame stays the last frame of its channel.
LEMMA EofLastStep == IInv /\ [Next]_vars => EofLast'
<1> SUFFICES ASSUME IInv, [Next]_vars PROVE EofLast'
  OBVIOUS
<1> USE InputAssumptions DEF StdinStates, Frames, PumpPcs, MainPcs
<1>0. TypeNums /\ TypeFlags /\ TypeSets /\ Unspawned /\ ReapedDead /\ EofLast /\ DropInv /\ PumpSpawned /\ MainTarget /\ CloseReady /\ EOFAfterAllInput
  BY DEF IInv, TypeParts
<1>00. RecEta
  BY RecEtaOK DEF IInv, TypeParts
<1>1. ASSUME NEW p \in Procs, Spawn(p) PROVE EofLast'
  BY <1>0, <1>1 DEF Spawn, chanVars, EofLast, TypeSets, TypeFlags
<1>2. ASSUME NEW p \in Procs, PeerSend(p) PROVE EofLast'
  BY <1>0, <1>2 DEF PeerSend, childVars, pumpVars, EofLast, TypeSets, TypeFlags
<1>3. ASSUME NEW p \in Procs, PeerClose(p) PROVE EofLast'
  BY <1>0, <1>3 DEF PeerClose, childVars, pumpVars, EofLast, TypeSets, TypeFlags
<1>4. ASSUME NEW p \in Procs, ChildRead(p) PROVE EofLast'
  BY <1>0, <1>4 DEF ChildRead, childVars, chanVars, pumpVars, EofLast, TypeSets, TypeFlags
<1>5. ASSUME NEW p \in Procs, ChildExit(p) PROVE EofLast'
  BY <1>0, <1>5 DEF ChildExit, chanVars, pumpVars, EofLast, TypeSets, TypeFlags
<1>6. ASSUME NEW p \in Procs, ReapPop(p) PROVE EofLast'
  BY <1>0, <1>6 DEF ReapPop, chanVars, pumpVars, EofLast, TypeSets, TypeFlags
<1>7. ASSUME NEW p \in Procs, ReapWait(p) PROVE EofLast'
  BY <1>0, <1>7 DEF ReapWait, chanVars, pumpVars, EofLast, TypeSets, TypeFlags
<1>8. ASSUME Teardown PROVE EofLast'
  BY <1>0, <1>8 DEF Teardown, childVars, chanVars, pumpVars, EofLast, TypeSets, TypeFlags
<1>9. ASSUME NEW p \in Procs, NEW c \in BOOLEAN, RecvFwdInput(p, c) PROVE EofLast'
  BY <1>0, <1>9 DEF RecvFwdInput, childVars, chanVars, pumpVars, NoMain, EofLast, TypeSets, TypeFlags
<1>10. ASSUME FwdLookup PROVE EofLast'
  BY <1>0, <1>10 DEF FwdLookup, childVars, chanVars, pumpVars, EofLast, TypeSets, TypeFlags
<1>11. ASSUME FwdWrite PROVE EofLast'
  BY <1>0, <1>11 DEF FwdWrite, PipeWrite, childVars, chanVars, pumpVars, EofLast, TypeSets, TypeFlags
<1>12. ASSUME FwdRespond PROVE EofLast'
  BY <1>0, <1>12 DEF FwdRespond, childVars, chanVars, pumpVars, NoMain, EofLast, TypeSets, TypeFlags
<1>13. ASSUME PumpUpdate PROVE EofLast'
  BY <1>0, <1>13 DEF PumpUpdate, QueuedProcs, childVars, chanVars, EofLast, TypeSets, TypeFlags
<1>14. ASSUME PumpPoll PROVE EofLast'
  BY <1>0, <1>14 DEF PumpPoll, childVars, chanVars, EofLast, TypeSets, TypeFlags
<1>15. ASSUME PumpForward PROVE EofLast'
  <2>0. pump.cur \in Procs
    BY <1>0, <1>15 DEF PumpForward, PumpSpawned
  <2>1. UNCHANGED peerClosed
    BY <1>15 DEF PumpForward
  <2>2. chan' = chan \/ (chan[pump.cur] # <<>> /\ chan' = [chan EXCEPT ![pump.cur] = Tail(@)])
    BY <1>15 DEF PumpForward
  <2>3. CASE chan' = chan
    BY <1>0, <2>1, <2>3 DEF EofLast
  <2>4. CASE chan[pump.cur] # <<>> /\ chan' = [chan EXCEPT ![pump.cur] = Tail(@)]
    <3>1. \A i \in 1..Len(Tail(chan[pump.cur])) :
             Tail(chan[pump.cur])[i] = "eof" =>
                i = Len(Tail(chan[pump.cur])) /\ peerClosed[pump.cur]
      BY <1>0, <2>0, <2>4, EofTail DEF EofLast, TypeSets
    <3>. QED
      BY <1>0, <2>0, <2>1, <2>4, <3>1 DEF EofLast, TypeSets
  <2>. QED
    BY <2>2, <2>3, <2>4
<1>16. ASSUME PumpCheck PROVE EofLast'
  BY <1>0, <1>16 DEF PumpCheck, childVars, chanVars, EofLast, TypeSets, TypeFlags
<1>17. ASSUME PumpClose PROVE EofLast'
  BY <1>0, <1>17 DEF PumpClose, childVars, chanVars, EofLast, TypeSets, TypeFlags
<1>18. CASE UNCHANGED vars
  BY <1>0, <1>18 DEF vars, childVars, chanVars, pumpVars, EofLast
<1>. QED
  BY <1>1, <1>2, <1>3, <1>4, <1>5, <1>6, <1>7, <1>8, <1>9, <1>10, <1>11, <1>12,
     <1>13, <1>14, <1>15, <1>16, <1>17, <1>18
  DEF Next, MainStep, PumpStep, ReaperStep, Environment

\* A frame is dropped only once the stdin is not open or the child died.
LEMMA DropInvStep == IInv /\ [Next]_vars => DropInv'
<1> SUFFICES ASSUME IInv, [Next]_vars PROVE DropInv'
  OBVIOUS
<1> USE InputAssumptions DEF StdinStates, Frames, PumpPcs, MainPcs
<1>0. TypeNums /\ TypeFlags /\ TypeSets /\ Unspawned /\ ReapedDead /\ EofLast /\ DropInv /\ PumpSpawned /\ MainTarget /\ CloseReady /\ EOFAfterAllInput
  BY DEF IInv, TypeParts
<1>00. RecEta
  BY RecEtaOK DEF IInv, TypeParts
<1>1. ASSUME NEW p \in Procs, Spawn(p) PROVE DropInv'
  BY <1>0, <1>1 DEF Spawn, chanVars, DropInv, Unspawned, TypeFlags
<1>2. ASSUME NEW p \in Procs, PeerSend(p) PROVE DropInv'
  BY <1>0, <1>2 DEF PeerSend, childVars, pumpVars, DropInv, Unspawned, TypeFlags
<1>3. ASSUME NEW p \in Procs, PeerClose(p) PROVE DropInv'
  BY <1>0, <1>3 DEF PeerClose, childVars, pumpVars, DropInv, Unspawned, TypeFlags
<1>4. ASSUME NEW p \in Procs, ChildRead(p) PROVE DropInv'
  BY <1>0, <1>4 DEF ChildRead, childVars, chanVars, pumpVars, DropInv, Unspawned, TypeFlags
<1>5. ASSUME NEW p \in Procs, ChildExit(p) PROVE DropInv'
  BY <1>0, <1>5 DEF ChildExit, chanVars, pumpVars, DropInv, Unspawned, TypeFlags
<1>6. ASSUME NEW p \in Procs, ReapPop(p) PROVE DropInv'
  BY <1>0, <1>6 DEF ReapPop, chanVars, pumpVars, DropInv, Unspawned, TypeFlags
<1>7. ASSUME NEW p \in Procs, ReapWait(p) PROVE DropInv'
  BY <1>0, <1>7 DEF ReapWait, chanVars, pumpVars, DropInv, Unspawned, TypeFlags
<1>8. ASSUME Teardown PROVE DropInv'
  BY <1>0, <1>8 DEF Teardown, childVars, chanVars, pumpVars, DropInv, Unspawned, TypeFlags
<1>9. ASSUME NEW p \in Procs, NEW c \in BOOLEAN, RecvFwdInput(p, c) PROVE DropInv'
  BY <1>0, <1>9 DEF RecvFwdInput, childVars, chanVars, pumpVars, NoMain, DropInv, Unspawned, TypeFlags
<1>10. ASSUME FwdLookup PROVE DropInv'
  BY <1>0, <1>10 DEF FwdLookup, childVars, chanVars, pumpVars, DropInv, Unspawned, TypeFlags
<1>11. ASSUME FwdWrite PROVE DropInv'
  BY <1>0, <1>11 DEF FwdWrite, PipeWrite, childVars, chanVars, pumpVars, DropInv, Unspawned, TypeFlags
<1>12. ASSUME FwdRespond PROVE DropInv'
  BY <1>0, <1>12 DEF FwdRespond, childVars, chanVars, pumpVars, NoMain, DropInv, Unspawned, TypeFlags, TypeNums, TypeSets
<1>13. ASSUME PumpUpdate PROVE DropInv'
  BY <1>0, <1>13 DEF PumpUpdate, QueuedProcs, childVars, chanVars, DropInv, Unspawned, TypeFlags
<1>14. ASSUME PumpPoll PROVE DropInv'
  BY <1>0, <1>14 DEF PumpPoll, childVars, chanVars, DropInv, Unspawned, TypeFlags
<1>15. ASSUME PumpForward PROVE DropInv'
  BY <1>0, <1>15 DEF PumpForward, PipeWrite, AfterForward, childVars, DropInv, Unspawned, TypeFlags, TypeNums, TypeSets
<1>16. ASSUME PumpCheck PROVE DropInv'
  BY <1>0, <1>16 DEF PumpCheck, childVars, chanVars, DropInv, Unspawned, TypeFlags
<1>17. ASSUME PumpClose PROVE DropInv'
  BY <1>0, <1>17 DEF PumpClose, childVars, chanVars, DropInv, Unspawned, TypeFlags
<1>18. CASE UNCHANGED vars
  BY <1>0, <1>18 DEF vars, childVars, chanVars, pumpVars, DropInv
<1>. QED
  BY <1>1, <1>2, <1>3, <1>4, <1>5, <1>6, <1>7, <1>8, <1>9, <1>10, <1>11, <1>12,
     <1>13, <1>14, <1>15, <1>16, <1>17, <1>18
  DEF Next, MainStep, PumpStep, ReaperStep, Environment

\* The pump only holds connectors of spawned children.
LEMMA PumpSpawnedStep == IInv /\ [Next]_vars => PumpSpawned'
<1> SUFFICES ASSUME IInv, [Next]_vars PROVE PumpSpawned'
  OBVIOUS
<1> USE InputAssumptions DEF StdinStates, Frames, PumpPcs, MainPcs
<1>0. TypeNums /\ TypeFlags /\ TypeSets /\ Unspawned /\ ReapedDead /\ EofLast /\ DropInv /\ PumpSpawned /\ MainTarget /\ CloseReady /\ EOFAfterAllInput
  BY DEF IInv, TypeParts
<1>00. RecEta
  BY RecEtaOK DEF IInv, TypeParts
<1>1. ASSUME NEW p \in Procs, Spawn(p) PROVE PumpSpawned'
  BY <1>0, <1>1 DEF Spawn, chanVars, PumpSpawned, TypeSets, TypeNums, TypeFlags
<1>2. ASSUME NEW p \in Procs, PeerSend(p) PROVE PumpSpawned'
  BY <1>0, <1>2 DEF PeerSend, childVars, pumpVars, PumpSpawned, TypeSets
<1>3. ASSUME NEW p \in Procs, PeerClose(p) PROVE PumpSpawned'
  BY <1>0, <1>3 DEF PeerClose, childVars, pumpVars, PumpSpawned, TypeSets
<1>4. ASSUME NEW p \in Procs, ChildRead(p) PROVE PumpSpawned'
  BY <1>0, <1>4 DEF ChildRead, childVars, chanVars, pumpVars, PumpSpawned, TypeSets
<1>5. ASSUME NEW p \in Procs, ChildExit(p) PROVE PumpSpawned'
  BY <1>0, <1>5 DEF ChildExit, chanVars, pumpVars, PumpSpawned, TypeSets
<1>6. ASSUME NEW p \in Procs, ReapPop(p) PROVE PumpSpawned'
  BY <1>0, <1>6 DEF ReapPop, chanVars, pumpVars, PumpSpawned, TypeSets
<1>7. ASSUME NEW p \in Procs, ReapWait(p) PROVE PumpSpawned'
  BY <1>0, <1>7 DEF ReapWait, chanVars, pumpVars, PumpSpawned, TypeSets
<1>8. ASSUME Teardown PROVE PumpSpawned'
  BY <1>0, <1>8 DEF Teardown, childVars, chanVars, pumpVars, PumpSpawned, TypeSets
<1>9. ASSUME NEW p \in Procs, NEW c \in BOOLEAN, RecvFwdInput(p, c) PROVE PumpSpawned'
  BY <1>0, <1>9 DEF RecvFwdInput, childVars, chanVars, pumpVars, NoMain, PumpSpawned, TypeSets
<1>10. ASSUME FwdLookup PROVE PumpSpawned'
  BY <1>0, <1>10 DEF FwdLookup, childVars, chanVars, pumpVars, PumpSpawned, TypeSets
<1>11. ASSUME FwdWrite PROVE PumpSpawned'
  BY <1>0, <1>11 DEF FwdWrite, PipeWrite, childVars, chanVars, pumpVars, PumpSpawned, TypeSets
<1>12. ASSUME FwdRespond PROVE PumpSpawned'
  BY <1>0, <1>12 DEF FwdRespond, childVars, chanVars, pumpVars, NoMain, PumpSpawned, TypeSets
<1>13. ASSUME PumpUpdate PROVE PumpSpawned'
  <2>1. pump'.pc \in {"stopped", "update", "poll"}
    BY <1>00, <1>13 DEF PumpUpdate, RecEta
  <2>2. conns' \subseteq conns \cup QueuedProcs /\ (monQ' = monQ \/ monQ' = <<>>)
    BY <1>13 DEF PumpUpdate
  <2>3. UNCHANGED spawned
    BY <1>13 DEF PumpUpdate, childVars
  <2>. QED
    BY <1>0, <2>1, <2>2, <2>3 DEF PumpSpawned, QueuedProcs
<1>14. ASSUME PumpPoll PROVE PumpSpawned'
  BY <1>0, <1>00, <1>14 DEF PumpPoll, childVars, chanVars, PumpSpawned, TypeSets, TypeNums, TypeFlags, RecEta
<1>15. ASSUME PumpForward PROVE PumpSpawned'
  BY <1>0, <1>00, <1>15 DEF PumpForward, PipeWrite, AfterForward, childVars, PumpSpawned, TypeSets, TypeNums, TypeFlags, RecEta
<1>16. ASSUME PumpCheck PROVE PumpSpawned'
  BY <1>0, <1>00, <1>16 DEF PumpCheck, childVars, chanVars, PumpSpawned, TypeSets, TypeNums, TypeFlags, RecEta
<1>17. ASSUME PumpClose PROVE PumpSpawned'
  BY <1>0, <1>17 DEF PumpClose, childVars, chanVars, PumpSpawned, TypeSets
<1>18. CASE UNCHANGED vars
  BY <1>0, <1>18 DEF vars, childVars, chanVars, pumpVars, PumpSpawned
<1>. QED
  BY <1>1, <1>2, <1>3, <1>4, <1>5, <1>6, <1>7, <1>8, <1>9, <1>10, <1>11, <1>12,
     <1>13, <1>14, <1>15, <1>16, <1>17, <1>18
  DEF Next, MainStep, PumpStep, ReaperStep, Environment

\* The request in hand names a child.
LEMMA MainTargetStep == IInv /\ [Next]_vars => MainTarget'
<1> SUFFICES ASSUME IInv, [Next]_vars PROVE MainTarget'
  OBVIOUS
<1> USE InputAssumptions DEF StdinStates, Frames, PumpPcs, MainPcs
<1>0. TypeNums /\ TypeFlags /\ TypeSets /\ Unspawned /\ ReapedDead /\ EofLast /\ DropInv /\ PumpSpawned /\ MainTarget /\ CloseReady /\ EOFAfterAllInput
  BY DEF IInv, TypeParts
<1>00. RecEta
  BY RecEtaOK DEF IInv, TypeParts
<1>1. ASSUME NEW p \in Procs, Spawn(p) PROVE MainTarget'
  BY <1>0, <1>1 DEF Spawn, chanVars, MainTarget
<1>2. ASSUME NEW p \in Procs, PeerSend(p) PROVE MainTarget'
  BY <1>0, <1>2 DEF PeerSend, childVars, pumpVars, MainTarget
<1>3. ASSUME NEW p \in Procs, PeerClose(p) PROVE MainTarget'
  BY <1>0, <1>3 DEF PeerClose, childVars, pumpVars, MainTarget
<1>4. ASSUME NEW p \in Procs, ChildRead(p) PROVE MainTarget'
  BY <1>0, <1>4 DEF ChildRead, childVars, chanVars, pumpVars, MainTarget
<1>5. ASSUME NEW p \in Procs, ChildExit(p) PROVE MainTarget'
  BY <1>0, <1>5 DEF ChildExit, chanVars, pumpVars, MainTarget
<1>6. ASSUME NEW p \in Procs, ReapPop(p) PROVE MainTarget'
  BY <1>0, <1>6 DEF ReapPop, chanVars, pumpVars, MainTarget
<1>7. ASSUME NEW p \in Procs, ReapWait(p) PROVE MainTarget'
  BY <1>0, <1>7 DEF ReapWait, chanVars, pumpVars, MainTarget
<1>8. ASSUME Teardown PROVE MainTarget'
  BY <1>0, <1>8 DEF Teardown, childVars, chanVars, pumpVars, MainTarget
<1>9. ASSUME NEW p \in Procs, NEW c \in BOOLEAN, RecvFwdInput(p, c) PROVE MainTarget'
  BY <1>0, <1>9 DEF RecvFwdInput, childVars, chanVars, pumpVars, NoMain, MainTarget
<1>10. ASSUME FwdLookup PROVE MainTarget'
  BY <1>0, <1>10 DEF FwdLookup, childVars, chanVars, pumpVars, MainTarget
<1>11. ASSUME FwdWrite PROVE MainTarget'
  BY <1>0, <1>00, <1>11 DEF FwdWrite, PipeWrite, childVars, chanVars, pumpVars, MainTarget, TypeNums, TypeFlags, TypeSets, RecEta
<1>12. ASSUME FwdRespond PROVE MainTarget'
  BY <1>0, <1>12 DEF FwdRespond, childVars, chanVars, pumpVars, NoMain, MainTarget
<1>13. ASSUME PumpUpdate PROVE MainTarget'
  BY <1>0, <1>13 DEF PumpUpdate, QueuedProcs, childVars, chanVars, MainTarget
<1>14. ASSUME PumpPoll PROVE MainTarget'
  BY <1>0, <1>14 DEF PumpPoll, childVars, chanVars, MainTarget
<1>15. ASSUME PumpForward PROVE MainTarget'
  BY <1>0, <1>15 DEF PumpForward, PipeWrite, AfterForward, childVars, MainTarget
<1>16. ASSUME PumpCheck PROVE MainTarget'
  BY <1>0, <1>16 DEF PumpCheck, childVars, chanVars, MainTarget
<1>17. ASSUME PumpClose PROVE MainTarget'
  BY <1>0, <1>17 DEF PumpClose, childVars, chanVars, MainTarget
<1>18. CASE UNCHANGED vars
  BY <1>0, <1>18 DEF vars, childVars, chanVars, pumpVars, MainTarget
<1>. QED
  BY <1>1, <1>2, <1>3, <1>4, <1>5, <1>6, <1>7, <1>8, <1>9, <1>10, <1>11, <1>12,
     <1>13, <1>14, <1>15, <1>16, <1>17, <1>18
  DEF Next, MainStep, PumpStep, ReaperStep, Environment

\* What forward() leaves behind when close() starts on a live child.
LEMMA CloseReadyStep == IInv /\ [Next]_vars => CloseReady'
<1> SUFFICES ASSUME IInv, [Next]_vars PROVE CloseReady'
  OBVIOUS
<1> USE InputAssumptions DEF StdinStates, Frames, PumpPcs, MainPcs
<1>0. TypeNums /\ TypeFlags /\ TypeSets /\ Unspawned /\ ReapedDead /\ EofLast /\ DropInv /\ PumpSpawned /\ MainTarget /\ CloseReady /\ EOFAfterAllInput
  BY DEF IInv, TypeParts
<1>00. RecEta
  BY RecEtaOK DEF IInv, TypeParts
<1>1. ASSUME NEW p \in Procs, Spawn(p) PROVE CloseReady'
  BY <1>0, <1>1 DEF Spawn, chanVars, CloseReady, EofLast, DropInv, ReapedDead, PumpSpawned, TypeFlags, TypeSets
<1>2. ASSUME NEW p \in Procs, PeerSend(p) PROVE CloseReady'
  BY <1>0, <1>2 DEF PeerSend, childVars, pumpVars, CloseReady, EofLast, DropInv, ReapedDead, PumpSpawned, TypeFlags, TypeSets
<1>3. ASSUME NEW p \in Procs, PeerClose(p) PROVE CloseReady'
  BY <1>0, <1>3 DEF PeerClose, childVars, pumpVars, CloseReady, EofLast, DropInv, ReapedDead, PumpSpawned, TypeFlags, TypeSets
<1>4. ASSUME NEW p \in Procs, ChildRead(p) PROVE CloseReady'
  BY <1>0, <1>4 DEF ChildRead, childVars, chanVars, pumpVars, CloseReady, EofLast, DropInv, ReapedDead, PumpSpawned, TypeFlags, TypeSets
<1>5. ASSUME NEW p \in Procs, ChildExit(p) PROVE CloseReady'
  BY <1>0, <1>5 DEF ChildExit, chanVars, pumpVars, CloseReady, EofLast, DropInv, ReapedDead, PumpSpawned, TypeFlags, TypeSets
<1>6. ASSUME NEW p \in Procs, ReapPop(p) PROVE CloseReady'
  BY <1>0, <1>6 DEF ReapPop, chanVars, pumpVars, CloseReady, EofLast, DropInv, ReapedDead, PumpSpawned, TypeFlags, TypeSets
<1>7. ASSUME NEW p \in Procs, ReapWait(p) PROVE CloseReady'
  BY <1>0, <1>7 DEF ReapWait, chanVars, pumpVars, CloseReady, EofLast, DropInv, ReapedDead, PumpSpawned, TypeFlags, TypeSets
<1>8. ASSUME Teardown PROVE CloseReady'
  BY <1>0, <1>8 DEF Teardown, childVars, chanVars, pumpVars, CloseReady, EofLast, DropInv, ReapedDead, PumpSpawned, TypeFlags, TypeSets
<1>9. ASSUME NEW p \in Procs, NEW c \in BOOLEAN, RecvFwdInput(p, c) PROVE CloseReady'
  BY <1>0, <1>9 DEF RecvFwdInput, childVars, chanVars, pumpVars, NoMain, CloseReady, EofLast, DropInv, ReapedDead, PumpSpawned, TypeFlags, TypeSets
<1>10. ASSUME FwdLookup PROVE CloseReady'
  BY <1>0, <1>10 DEF FwdLookup, childVars, chanVars, pumpVars, CloseReady, EofLast, DropInv, ReapedDead, PumpSpawned, TypeFlags, TypeSets
<1>11. ASSUME FwdWrite PROVE CloseReady'
  BY <1>0, <1>11 DEF FwdWrite, PipeWrite, childVars, chanVars, pumpVars, CloseReady, EofLast, DropInv, ReapedDead, PumpSpawned, TypeFlags, TypeSets
<1>12. ASSUME FwdRespond PROVE CloseReady'
  BY <1>0, <1>12 DEF FwdRespond, childVars, chanVars, pumpVars, NoMain, CloseReady, EofLast, DropInv, ReapedDead, PumpSpawned, TypeFlags, TypeSets
<1>13. ASSUME PumpUpdate PROVE CloseReady'
  BY <1>0, <1>00, <1>13 DEF PumpUpdate, QueuedProcs, childVars, chanVars, CloseReady, EofLast, DropInv, ReapedDead, PumpSpawned, TypeFlags, TypeSets, TypeNums, RecEta
<1>14. ASSUME PumpPoll PROVE CloseReady'
  BY <1>0, <1>00, <1>14 DEF PumpPoll, childVars, chanVars, CloseReady, EofLast, DropInv, ReapedDead, PumpSpawned, TypeFlags, TypeSets, TypeNums, RecEta
<1>15. ASSUME PumpForward PROVE CloseReady'
  <2>0. pump.pc \in {"fwd", "cfwd"} /\ pump.cur \in Procs
    BY <1>0, <1>15 DEF PumpForward, PumpSpawned
  <2> DEFINE q == pump.cur
  <2>1. UNCHANGED <<alive, stdin, peerClosed>>
    BY <1>15 DEF PumpForward, childVars
  <2>2. pump'.cur = q
    BY <1>00, <1>15 DEF PumpForward, RecEta, AfterForward
  <2>3. CASE chan[q] = <<>>
    <3>1. pump'.eof = FALSE /\ pump'.pc = AfterForward /\ UNCHANGED <<chan, dropped>>
      BY <1>00, <1>15, <2>3 DEF PumpForward, RecEta
    <3>. QED
      BY <1>0, <2>0, <2>1, <2>2, <3>1 DEF CloseReady, AfterForward
  <2>4. CASE chan[q] # <<>> /\ Head(chan[q]) = "eof"
    <3>1. /\ chan' = [chan EXCEPT ![q] = Tail(@)]
          /\ pump'.eof = TRUE /\ pump'.pc = AfterForward /\ UNCHANGED dropped
      BY <1>00, <1>15, <2>4 DEF PumpForward, RecEta
    <3>0. chan[q] \in Seq(Frames) /\ chan[q][1] = "eof" /\ 1 \in 1..Len(chan[q])
      BY <1>0, <2>0, <2>4 DEF TypeSets
    <3>2. Len(chan[q]) = 1 /\ peerClosed[q]
      BY <1>0, <2>0, <3>0 DEF EofLast
    <3>5. Tail(chan[q]) = <<>>
      BY <3>0, <3>2, TailOne
    <3>3. chan'[q] = <<>>
      BY <1>0, <2>0, <3>1, <3>5 DEF TypeSets
    <3>4. pump.pc = "cfwd" => ~(alive[q] /\ stdin[q] = "open")
      BY <1>0, <2>4 DEF CloseReady
    <3>. QED
      BY <2>0, <2>1, <2>2, <3>1, <3>2, <3>3, <3>4 DEF CloseReady, AfterForward
  <2>5. CASE chan[q] # <<>> /\ Head(chan[q]) = "d"
    <3>1. \/ pump' = pump
          \/ /\ pump'.pc = AfterForward /\ pump'.eof = FALSE
             /\ (stdin[q] # "open" \/ ~alive[q])
      BY <1>00, <1>15, <2>5 DEF PumpForward, RecEta
    <3>2. pump.pc = "cfwd" => ~(alive[q] /\ stdin[q] = "open")
      BY <1>0, <2>5 DEF CloseReady
    <3>. QED
      BY <2>0, <2>1, <2>2, <3>1, <3>2 DEF CloseReady, AfterForward
  <2>. QED
    BY <1>0, <2>0, <2>3, <2>4, <2>5 DEF TypeSets, Frames
<1>16. ASSUME PumpCheck PROVE CloseReady'
  <2>0. pump.pc = "check" /\ pump.cur \in Procs
    BY <1>0, <1>16 DEF PumpCheck, PumpSpawned
  <2>1. pump'.cur = pump.cur /\ pump'.eof = pump.eof
    BY <1>00, <1>16 DEF PumpCheck, RecEta
  <2>2. pump'.pc \in {"update", "cfwd"} /\ (pump'.pc = "cfwd" => pump.eof \/ rc[pump.cur])
    BY <1>00, <1>16 DEF PumpCheck, RecEta
  <2>3. UNCHANGED <<alive, stdin, chan, peerClosed, dropped>>
    BY <1>16 DEF PumpCheck, childVars, chanVars
  <2>4. pump.eof => chan[pump.cur] = <<>> /\ peerClosed[pump.cur]
    BY <1>0, <2>0 DEF CloseReady
  <2>5. rc[pump.cur] => ~alive[pump.cur]
    BY <1>0, <2>0 DEF ReapedDead
  <2>6. alive[pump.cur] /\ stdin[pump.cur] = "open" => dropped[pump.cur] = 0
    BY <1>0, <2>0 DEF DropInv, TypeNums
  <2>. QED
    BY <2>1, <2>2, <2>3, <2>4, <2>5, <2>6 DEF CloseReady
<1>17. ASSUME PumpClose PROVE CloseReady'
  BY <1>0, <1>17 DEF PumpClose, childVars, chanVars, CloseReady, EofLast, DropInv, ReapedDead, PumpSpawned, TypeFlags, TypeSets
<1>18. CASE UNCHANGED vars
  BY <1>0, <1>18 DEF vars, childVars, chanVars, pumpVars, CloseReady
<1>. QED
  BY <1>1, <1>2, <1>3, <1>4, <1>5, <1>6, <1>7, <1>8, <1>9, <1>10, <1>11, <1>12,
     <1>13, <1>14, <1>15, <1>16, <1>17, <1>18
  DEF Next, MainStep, PumpStep, ReaperStep, Environment

\* A live child's stdin is closed by the pump only after all of its input.
LEMMA EOFAfterAllInputStep == IInv /\ [Next]_vars => EOFAfterAllInput'
<1> SUFFICES ASSUME IInv, [Next]_vars PROVE EOFAfterAllInput'
  OBVIOUS
<1> USE InputAssumptions DEF StdinStates, Frames, PumpPcs, MainPcs
<1>0. TypeNums /\ TypeFlags /\ TypeSets /\ Unspawned /\ ReapedDead /\ EofLast /\ DropInv /\ PumpSpawned /\ MainTarget /\ CloseReady /\ EOFAfterAllInput
  BY DEF IInv, TypeParts
<1>00. RecEta
  BY RecEtaOK DEF IInv, TypeParts
<1>1. ASSUME NEW p \in Procs, Spawn(p) PROVE EOFAfterAllInput'
  BY <1>0, <1>1 DEF Spawn, chanVars, EOFAfterAllInput, CloseReady, PumpSpawned, Unspawned, TypeSets
<1>2. ASSUME NEW p \in Procs, PeerSend(p) PROVE EOFAfterAllInput'
  BY <1>0, <1>2 DEF PeerSend, childVars, pumpVars, EOFAfterAllInput, CloseReady, PumpSpawned, Unspawned, TypeSets
<1>3. ASSUME NEW p \in Procs, PeerClose(p) PROVE EOFAfterAllInput'
  BY <1>0, <1>3 DEF PeerClose, childVars, pumpVars, EOFAfterAllInput, CloseReady, PumpSpawned, Unspawned, TypeSets
<1>4. ASSUME NEW p \in Procs, ChildRead(p) PROVE EOFAfterAllInput'
  BY <1>0, <1>4 DEF ChildRead, childVars, chanVars, pumpVars, EOFAfterAllInput, CloseReady, PumpSpawned, Unspawned, TypeSets
<1>5. ASSUME NEW p \in Procs, ChildExit(p) PROVE EOFAfterAllInput'
  BY <1>0, <1>5 DEF ChildExit, chanVars, pumpVars, EOFAfterAllInput, CloseReady, PumpSpawned, Unspawned, TypeSets
<1>6. ASSUME NEW p \in Procs, ReapPop(p) PROVE EOFAfterAllInput'
  BY <1>0, <1>6 DEF ReapPop, chanVars, pumpVars, EOFAfterAllInput, CloseReady, PumpSpawned, Unspawned, TypeSets
<1>7. ASSUME NEW p \in Procs, ReapWait(p) PROVE EOFAfterAllInput'
  BY <1>0, <1>7 DEF ReapWait, chanVars, pumpVars, EOFAfterAllInput, CloseReady, PumpSpawned, Unspawned, TypeSets
<1>8. ASSUME Teardown PROVE EOFAfterAllInput'
  BY <1>0, <1>8 DEF Teardown, childVars, chanVars, pumpVars, EOFAfterAllInput, CloseReady, PumpSpawned, Unspawned, TypeSets
<1>9. ASSUME NEW p \in Procs, NEW c \in BOOLEAN, RecvFwdInput(p, c) PROVE EOFAfterAllInput'
  BY <1>0, <1>9 DEF RecvFwdInput, childVars, chanVars, pumpVars, NoMain, EOFAfterAllInput, CloseReady, PumpSpawned, Unspawned, TypeSets
<1>10. ASSUME FwdLookup PROVE EOFAfterAllInput'
  BY <1>0, <1>10 DEF FwdLookup, childVars, chanVars, pumpVars, EOFAfterAllInput, CloseReady, PumpSpawned, Unspawned, TypeSets
<1>11. ASSUME FwdWrite PROVE EOFAfterAllInput'
  BY <1>0, <1>11 DEF FwdWrite, PipeWrite, childVars, chanVars, pumpVars, EOFAfterAllInput, CloseReady, PumpSpawned, Unspawned, TypeSets
<1>12. ASSUME FwdRespond PROVE EOFAfterAllInput'
  BY <1>0, <1>12 DEF FwdRespond, childVars, chanVars, pumpVars, NoMain, EOFAfterAllInput, CloseReady, PumpSpawned, Unspawned, TypeSets
<1>13. ASSUME PumpUpdate PROVE EOFAfterAllInput'
  BY <1>0, <1>13 DEF PumpUpdate, QueuedProcs, childVars, chanVars, EOFAfterAllInput, CloseReady, PumpSpawned, Unspawned, TypeSets
<1>14. ASSUME PumpPoll PROVE EOFAfterAllInput'
  BY <1>0, <1>14 DEF PumpPoll, childVars, chanVars, EOFAfterAllInput, CloseReady, PumpSpawned, Unspawned, TypeSets
<1>15. ASSUME PumpForward PROVE EOFAfterAllInput'
  BY <1>0, <1>15 DEF PumpForward, PipeWrite, AfterForward, childVars, EOFAfterAllInput, CloseReady, PumpSpawned, Unspawned, TypeSets, TypeNums, TypeFlags
<1>16. ASSUME PumpCheck PROVE EOFAfterAllInput'
  BY <1>0, <1>16 DEF PumpCheck, childVars, chanVars, EOFAfterAllInput, CloseReady, PumpSpawned, Unspawned, TypeSets
<1>17. ASSUME PumpClose PROVE EOFAfterAllInput'
  BY <1>0, <1>17 DEF PumpClose, childVars, chanVars, EOFAfterAllInput, CloseReady, PumpSpawned, Unspawned, TypeSets
<1>18. CASE UNCHANGED vars
  BY <1>0, <1>18 DEF vars, childVars, chanVars, pumpVars, EOFAfterAllInput
<1>. QED
  BY <1>1, <1>2, <1>3, <1>4, <1>5, <1>6, <1>7, <1>8, <1>9, <1>10, <1>11, <1>12,
     <1>13, <1>14, <1>15, <1>16, <1>17, <1>18
  DEF Next, MainStep, PumpStep, ReaperStep, Environment

-----------------------------------------------------------------------------
\* The strengthened invariant is inductive: each conjunct is kept by a step.
LEMMA NextIInv == IInv /\ [Next]_vars => IInv'
<1> SUFFICES ASSUME IInv, [Next]_vars PROVE IInv'
  OBVIOUS
<1>1. TypeParts'
  BY TypeStep DEF IInv
<1>. QED
  BY <1>1, UnspawnedStep, ReapedDeadStep, EofLastStep, DropInvStep,
     PumpSpawnedStep, MainTargetStep, CloseReadyStep, EOFAfterAllInputStep
  DEF IInv

(***************************************************************************)
(* Every reachable state of the input pump, the main thread's fwd_input    *)
(* handler, the reaper and the children is well typed: channels hold only  *)
(* data and EOF frames, the pump and the handler are at a known place, and *)
(* the writers of each stdin pipe are the pump and the main thread.        *)
(***************************************************************************)
THEOREM TypeCorrect == Spec => []TypeOK
<1>1. Spec => []IInv
  BY InitIInv, NextIInv, PTL DEF Spec
<1>2. IInv => TypeOK
  BY TypePartsOK DEF IInv
<1>. QED
  BY <1>1, <1>2, PTL

(***************************************************************************)
(* InputConnector.close (server.py 104-120) closes a live child's stdin    *)
(* only after every frame the peer sent before its EOF was written to the  *)
(* pipe: watch_input never drops a data frame of a child whose stdin is    *)
(* still open, and marks a connector dead only after it forwarded the EOF  *)
(* frame, which is the last frame of its channel.                          *)
(***************************************************************************)
THEOREM EOFAfterAllInputInvariant == Spec => []EOFAfterAllInput
<1>1. Spec => []IInv
  BY InitIInv, NextIInv, PTL DEF Spec
<1>2. IInv => EOFAfterAllInput
  BY DEF IInv
<1>. QED
  BY <1>1, <1>2, PTL

=============================================================================
