------------------------- MODULE LSCritical_proofs -------------------------
(***************************************************************************)
(* Proofs about the critical-child model: the type invariant, and that the *)
(* GS-gone and TA-gone latches watch_death consults are set only after     *)
(* the child announced its halt, for every behaviour of the launcher, GS   *)
(* and TA and every interleaving of the three LS threads.                  *)
(***************************************************************************)
EXTENDS LSCritical, SequenceTheorems, TLAPS

\* A halt announcement on its way, in the inbox or in GS's stdout pipe, was
\* really made.
InFlightSound ==
    /\ \A k \in 1..Len(inbox) : inbox[k] = "GSHalted" => said["gs"]
    /\ \A k \in 1..Len(inbox) : inbox[k] = "TAHalted" => said["ta"]
    /\ \A k \in 1..Len(gsOut) : gsOut[k] = "halted" => said["gs"]

(***************************************************************************)
(* The inductive invariant: LatchesSound alone is not inductive, since     *)
(* HandleGSHalted and PumpSelect set the GS latch from what they read; the *)
(* messages and the pipe contents must be sound as well.                   *)
(***************************************************************************)
IInv == TypeOK /\ LatchesSound /\ InFlightSound

\* Appending x keeps "every m in s justifies b" when x = m justifies b.
LEMMA AppendKeeps ==
    ASSUME NEW S, NEW s \in Seq(S), NEW x \in S, NEW m, NEW b,
           \A k \in 1..Len(s) : s[k] = m => b,
           x = m => b
    PROVE  /\ Append(s, x) \in Seq(S)
           /\ \A k \in 1..Len(Append(s, x)) : Append(s, x)[k] = m => b
BY AppendProperties

\* Removing the head keeps it.
LEMMA TailKeeps ==
    ASSUME NEW S, NEW s \in Seq(S), s # <<>>, NEW m, NEW b,
           \A k \in 1..Len(s) : s[k] = m => b
    PROVE  /\ Tail(s) \in Seq(S)
           /\ \A k \in 1..Len(Tail(s)) : Tail(s)[k] = m => b
BY HeadTailProperties

\* Keeping a suffix keeps it.
LEMMA SuffixKeeps ==
    ASSUME NEW S, NEW s \in Seq(S), NEW n \in 1..Len(s), NEW m, NEW b,
           \A k \in 1..Len(s) : s[k] = m => b
    PROVE  /\ SubSeq(s, n + 1, Len(s)) \in Seq(S)
           /\ \A k \in 1..Len(SubSeq(s, n + 1, Len(s))) :
                 SubSeq(s, n + 1, Len(s))[k] = m => b
<1>1. \A i \in n + 1..Len(s) : s[i] \in S
  OBVIOUS
<1> QED
  BY <1>1, SubSeqProperties

\* A prefix equal to <<x>> starts with x.
LEMMA PrefixOne ==
    ASSUME NEW S, NEW s \in Seq(S), NEW n \in 1..Len(s), NEW x,
           SubSeq(s, 1, n) = <<x>>
    PROVE  s[1] = x
<1>1. /\ Len(SubSeq(s, 1, n)) = n
      /\ SubSeq(s, 1, n)[1] = s[1]
  <2>1. \A i \in 1..n : s[i] \in S
    OBVIOUS
  <2> QED
    BY <2>1, SubSeqProperties
<1>2. Len(<<x>>) = 1 /\ <<x>>[1] = x
  OBVIOUS
<1> QED
  BY <1>1, <1>2

\* The initial state satisfies the inductive invariant.
LEMMA InitIInv == Init => IInv
<1> SUFFICES ASSUME Init PROVE IInv
  OBVIOUS
<1>1. TypeOK
  <2>1. life \in [Procs -> {"run", "exited", "reaped"}] /\ said \in [Procs -> BOOLEAN]
    BY DEF Init
  <2>2. gsOut \in Seq({"halted", "text"}) /\ inbox \in Seq(Msgs)
    BY DEF Init
  <2> QED
    BY <2>1, <2>2 DEF Init, TypeOK
<1>2. LatchesSound /\ InFlightSound
  BY DEF Init, LatchesSound, InFlightSound
<1> QED
  BY <1>1, <1>2 DEF IInv

\* Every step of the system preserves the inductive invariant.
LEMMA NextIInv == IInv /\ [Next]_vars => IInv'
<1> SUFFICES ASSUME IInv, [Next]_vars PROVE IInv'
  OBVIOUS
<1> USE DEF IInv, TypeOK, LatchesSound, InFlightSound, Procs
<1>1. CASE StartTeardown
  BY <1>1 DEF StartTeardown, latches, pump
<1>2. CASE SendHaltTA
  <2>1. /\ inbox' \in Seq(Msgs)
        /\ \A k \in 1..Len(inbox') : inbox'[k] = "GSHalted" => said'["gs"]
        /\ \A k \in 1..Len(inbox') : inbox'[k] = "TAHalted" => said'["ta"]
    BY <1>2, AppendKeeps DEF SendHaltTA, Msgs
  <2> QED
    BY <1>2, <2>1 DEF SendHaltTA, latches, pump
<1>3. CASE SendTeardown
  <2>1. /\ inbox' \in Seq(Msgs)
        /\ \A k \in 1..Len(inbox') : inbox'[k] = "GSHalted" => said'["gs"]
        /\ \A k \in 1..Len(inbox') : inbox'[k] = "TAHalted" => said'["ta"]
    BY <1>3, AppendKeeps DEF SendTeardown, Msgs
  <2> QED
    BY <1>3, <2>1 DEF SendTeardown, latches, pump
<1>4. CASE GSHalt
  <2>1. said' = [said EXCEPT !["gs"] = TRUE] /\ said'["gs"] /\ said'["ta"] = said["ta"]
    BY <1>4 DEF GSHalt
  <2>2. CASE inbox' = Append(inbox, "GSHalted") /\ UNCHANGED gsOut
    <3>1. /\ inbox' \in Seq(Msgs)
          /\ \A k \in 1..Len(inbox') : inbox'[k] = "GSHalted" => said'["gs"]
          /\ \A k \in 1..Len(inbox') : inbox'[k] = "TAHalted" => said'["ta"]
      BY <2>1, <2>2, AppendKeeps DEF Msgs
    <3> QED
      BY <1>4, <2>1, <2>2, <3>1 DEF GSHalt, latches
  <2>3. CASE gsOut' = Append(gsOut, "halted") /\ UNCHANGED inbox
    <3>1. /\ gsOut' \in Seq({"halted", "text"})
          /\ \A k \in 1..Len(gsOut') : gsOut'[k] = "halted" => said'["gs"]
      BY <2>1, <2>3, AppendKeeps
    <3> QED
      BY <1>4, <2>1, <2>3, <3>1 DEF GSHalt, latches
  <2> QED
    BY <1>4, <2>2, <2>3 DEF GSHalt
<1>5. CASE GSPrint
  <2>1. /\ gsOut' \in Seq({"halted", "text"})
        /\ \A k \in 1..Len(gsOut') : gsOut'[k] = "halted" => said'["gs"]
    BY <1>5, AppendKeeps DEF GSPrint
  <2> QED
    BY <1>5, <2>1 DEF GSPrint, latches
<1>6. CASE TAHalt
  <2>1. said' = [said EXCEPT !["ta"] = TRUE] /\ said'["ta"] /\ said'["gs"] = said["gs"]
    BY <1>6 DEF TAHalt
  <2>2. /\ inbox' \in Seq(Msgs)
        /\ \A k \in 1..Len(inbox') : inbox'[k] = "GSHalted" => said'["gs"]
        /\ \A k \in 1..Len(inbox') : inbox'[k] = "TAHalted" => said'["ta"]
    BY <1>6, <2>1, AppendKeeps DEF TAHalt, Msgs
  <2> QED
    BY <1>6, <2>1, <2>2 DEF TAHalt, latches, pump
<1>7. CASE \E p \in Procs : Exit(p)
  BY <1>7 DEF Exit, latches, pump
<1>8. CASE MainStep
  <2>1. /\ ~shut /\ inbox # <<>> /\ inbox' = Tail(inbox)
        /\ UNCHANGED <<said, gsOut>>
    BY <1>8 DEF MainStep, HandleGSHalted, HandleTAHalted, HandleHaltingTA,
                TeardownLS, Recv, env, pump
  <2>2. /\ inbox' \in Seq(Msgs)
        /\ \A k \in 1..Len(inbox') : inbox'[k] = "GSHalted" => said'["gs"]
        /\ \A k \in 1..Len(inbox') : inbox'[k] = "TAHalted" => said'["ta"]
    BY <2>1, TailKeeps
  <2>3. Head(inbox) = inbox[1] /\ 1 \in 1..Len(inbox)
    BY <2>1
  <2>4. CASE HandleGSHalted
    BY <2>1, <2>2, <2>3, <2>4 DEF HandleGSHalted, Recv, env, pump
  <2>5. CASE HandleTAHalted
    BY <2>1, <2>2, <2>3, <2>5 DEF HandleTAHalted, Recv, pump
  <2>6. CASE HandleHaltingTA
    BY <2>1, <2>2, <2>6 DEF HandleHaltingTA, latches, pump
  <2>7. CASE TeardownLS
    BY <2>1, <2>2, <2>7 DEF TeardownLS, env, pump
  <2> QED
    BY <1>8, <2>4, <2>5, <2>6, <2>7 DEF MainStep
<1>9. CASE ReaperStep
  BY <1>9 DEF ReaperStep, WatchDeath, latches
<1>10. CASE PumpSelect
  <2>1. CASE ~Readable /\ pumpPc' = "new" /\ UNCHANGED <<gsOut, conn, gsGone, beGS, abnormal>>
    BY <1>10, <2>1 DEF PumpSelect, env
  <2>2. CASE Readable /\ gsOut = <<>> /\ conn' = "closed" /\ pumpPc' = "new"
             /\ UNCHANGED <<gsOut, gsGone, beGS, abnormal>>
    BY <1>10, <2>2 DEF PumpSelect, env
  <2>3. CASE /\ Readable
             /\ \E n \in 1..Len(gsOut) :
                   /\ gsOut' = SubSeq(gsOut, n + 1, Len(gsOut))
                   /\ IF SubSeq(gsOut, 1, n) = <<"halted">>
                      THEN /\ gsGone' = TRUE /\ beGS' = beGS + 1
                           /\ pumpPc' = "closing" /\ UNCHANGED abnormal
                      ELSE /\ abnormal' = TRUE /\ pumpPc' = "new"
                           /\ UNCHANGED <<gsGone, beGS>>
             /\ UNCHANGED conn
    <3>1. PICK n \in 1..Len(gsOut) :
                   /\ gsOut' = SubSeq(gsOut, n + 1, Len(gsOut))
                   /\ IF SubSeq(gsOut, 1, n) = <<"halted">>
                      THEN /\ gsGone' = TRUE /\ beGS' = beGS + 1
                           /\ pumpPc' = "closing" /\ UNCHANGED abnormal
                      ELSE /\ abnormal' = TRUE /\ pumpPc' = "new"
                           /\ UNCHANGED <<gsGone, beGS>>
      BY <2>3
    <3>2. UNCHANGED said
      BY <1>10 DEF PumpSelect, env
    <3>3. /\ gsOut' \in Seq({"halted", "text"})
          /\ \A k \in 1..Len(gsOut') : gsOut'[k] = "halted" => said'["gs"]
      BY <3>1, <3>2, SuffixKeeps
    <3>4. gsGone' => said'["gs"]
      <4>1. CASE SubSeq(gsOut, 1, n) = <<"halted">>
        BY <3>2, <4>1, PrefixOne
      <4>2. CASE SubSeq(gsOut, 1, n) # <<"halted">>
        BY <3>1, <3>2, <4>2
      <4> QED
        BY <4>1, <4>2
    <3>5. beGS' \in Nat /\ gsGone' \in BOOLEAN /\ abnormal' \in BOOLEAN
          /\ pumpPc' \in {"select", "closing", "new", "exited", "dead"}
      <4>1. CASE SubSeq(gsOut, 1, n) = <<"halted">>
        BY <3>1, <4>1
      <4>2. CASE SubSeq(gsOut, 1, n) # <<"halted">>
        BY <3>1, <4>2
      <4> QED
        BY <4>1, <4>2
    <3> QED
      BY <1>10, <2>3, <3>2, <3>3, <3>4, <3>5 DEF PumpSelect, env
  <2> QED
    BY <1>10, <2>1, <2>2, <2>3 DEF PumpSelect
<1>11. CASE PumpClose
  <2>1. gsOut' = <<>> /\ conn' = "closed" /\ UNCHANGED <<env, inbox, latches, beGS>>
    BY <1>11 DEF PumpClose
  <2>2. pumpPc' \in {"new", "dead"} /\ abnormal' \in BOOLEAN
    BY <1>11 DEF PumpClose
  <2> QED
    BY <1>11, <2>1, <2>2 DEF PumpClose, env, latches
<1>12. CASE PumpDrainNew
  BY <1>12 DEF PumpDrainNew, env, latches
<1>13. CASE PumpDrainExited
  <2>1. /\ UNCHANGED <<env, inbox, latches, beGS, beTA, exits>>
        /\ exitedQ' = FALSE
    BY <1>13 DEF PumpDrainExited
  <2>2. /\ gsOut' \in {gsOut, <<>>}
        /\ conn' \in {conn, "closed"}
        /\ pumpPc' \in {"select", "dead"}
        /\ abnormal' \in BOOLEAN
    BY <1>13 DEF PumpDrainExited
  <2>3. gsOut' \in Seq({"halted", "text"})
        /\ \A k \in 1..Len(gsOut') : gsOut'[k] = "halted" => said'["gs"]
    <3>1. CASE gsOut' = gsOut
      BY <2>1, <3>1 DEF env
    <3>2. CASE gsOut' = <<>>
      BY <3>2
    <3> QED
      BY <2>2, <3>1, <3>2
  <2> QED
    BY <2>1, <2>2, <2>3 DEF env, latches
<1>14. CASE UNCHANGED vars
  BY <1>14 DEF vars
<1> QED
  BY <1>1, <1>2, <1>3, <1>4, <1>5, <1>6, <1>7, <1>8, <1>9, <1>10, <1>11,
     <1>12, <1>13, <1>14 DEF Next, Environment, PumpStep

(***************************************************************************)
(* The type invariant holds in every reachable state.                      *)
(***************************************************************************)
THEOREM TypeCorrect == Spec => []TypeOK
<1>1. IInv => TypeOK
  BY DEF IInv
<1> QED
  BY <1>1, InitIInv, NextIInv, PTL DEF Spec

(***************************************************************************)
(* LatchesSound for every behaviour: watch_death's gs_shutdown and         *)
(* ta_shutdown checks pass over a child's death only when that child       *)
(* announced its halt, whether GSHalted came as a message or through the   *)
(* output pump's parse of GS's stdout.                                     *)
(***************************************************************************)
THEOREM LatchesSoundInvariant == Spec => []LatchesSound
<1>1. IInv => LatchesSound
  BY DEF IInv
<1> QED
  BY <1>1, InitIInv, NextIInv, PTL DEF Spec

=============================================================================
