------------------------- MODULE LSResources_proofs -------------------------
(***************************************************************************)
(* Proofs about LSResources for every value of its constants.              *)
(*                                                                         *)
(* The refinement and CleanupReleasesAll rest on two facts about the live  *)
(* channels: a live request channel is in self.channels under its own      *)
(* pool (LiveInTable), which is what makes create_channel's in-use check   *)
(* a check that the name is free; and every live channel lives in a pool   *)
(* of self.pools (LiveInPools), which is why destroying every pool at      *)
(* cleanup frees the PMI launch channels that never enter the table.       *)
(***************************************************************************)
EXTENDS LSResources, TLAPS

LiveInTable == \A c \in CUids : live[c] # NoPool => chans[c] = live[c]
LiveInPools == \A c \in AllCUids : live[c] # NoPool => live[c] \in pools
DoneEmpty == main.pc = "done" => pools = {}

IInv == TypeOK /\ LiveInTable /\ LiveInPools /\ DoneEmpty

LEMMA InitIInv == Init => IInv
<1> SUFFICES ASSUME Init PROVE IInv
  OBVIOUS
<1>0. [in |-> NoChan, out |-> NoChan, err |-> NoChan, pool |-> InfPool, pmi |-> NoChan]
        \in CreateReqs
  BY ResourceAssumptions DEF CreateReqs
<1>1. (CHOOSE r \in CreateReqs : TRUE) \in CreateReqs
  BY <1>0
<1>. QED
  BY <1>1, ResourceAssumptions DEF Init, IInv, TypeOK, LiveInTable, LiveInPools,
     DoneEmpty, MainPcs, AllCUids

\* A step of create_channel keeps the tables well typed and in step.
LEMMA CreateChannelOK ==
  ASSUME IInv, NEW c \in CUids, NEW m \in MUids, NEW ok \in BOOLEAN,
         CreateChannel(c, m, ok), UNCHANGED pools
  PROVE  /\ chans' \in [CUids -> MUids \cup {NoPool}]
         /\ live' \in [AllCUids -> MUids \cup {NoPool}]
         /\ LiveInTable' /\ LiveInPools'
         /\ \/ ok /\ R!CreateChannel(c, m)
            \/ UNCHANGED <<pools, live>>
<1>1. CASE ok /\ chans[c] = NoPool /\ m \in pools /\ chans' = [chans EXCEPT ![c] = m]
           /\ live' = [live EXCEPT ![c] = m]
  <2>1. live[c] = NoPool
    BY <1>1 DEF IInv, LiveInTable
  <2>. QED
    BY <1>1, <2>1 DEF IInv, TypeOK, LiveInTable, LiveInPools, AllCUids, R!CreateChannel
<1>2. CASE UNCHANGED <<chans, live>>
  BY <1>2 DEF IInv, TypeOK, LiveInTable, LiveInPools
<1>. QED
  BY <1>1, <1>2 DEF CreateChannel

\* Freeing a pool keeps the live channels typed, in the table and in pools.
LEMMA FreePoolOK ==
  ASSUME IInv, NEW m \in pools, live' = FreePool(m), pools' = pools \ {m},
         UNCHANGED chans
  PROVE  /\ live' \in [AllCUids -> MUids \cup {NoPool}]
         /\ LiveInTable' /\ LiveInPools'
         /\ R!DestroyPool(m)
BY DEF IInv, TypeOK, LiveInTable, LiveInPools, FreePool, AllCUids, R!DestroyPool

\* Destroying a channel of the table keeps the live channels in step.
LEMMA DropChannelOK ==
  ASSUME IInv, NEW c \in CUids, chans' = [chans EXCEPT ![c] = NoPool],
         live' = [live EXCEPT ![c] = NoPool], UNCHANGED pools
  PROVE  /\ chans' \in [CUids -> MUids \cup {NoPool}]
         /\ live' \in [AllCUids -> MUids \cup {NoPool}]
         /\ LiveInTable' /\ LiveInPools'
         /\ R!DestroyChannel(c) \/ UNCHANGED <<pools, live>>
<1>1. CASE live[c] # NoPool
  BY <1>1 DEF IInv, TypeOK, LiveInTable, LiveInPools, AllCUids, R!DestroyChannel
<1>2. CASE live[c] = NoPool
  <2>1. live' = live
    BY <1>2 DEF IInv, TypeOK, AllCUids
  <2>. QED
    BY <1>2, <2>1 DEF IInv, TypeOK, LiveInTable, LiveInPools, AllCUids
<1>. QED
  BY <1>1, <1>2


\* Moving the main thread to another place keeps its record typed.
LEMMA MainPcOK ==
  ASSUME NEW mn \in [pc : MainPcs, req : CreateReqs], NEW x \in MainPcs
  PROVE  [mn EXCEPT !.pc = x] \in [pc : MainPcs, req : CreateReqs]
OBVIOUS

\* A request handler of the table answers and leaves the main thread idle.
LEMMA RecvOK ==
  ASSUME IInv, Recv
  PROVE  nreq' \in 0..MaxReq /\ main.pc = "idle"
BY ResourceAssumptions DEF IInv, TypeOK, Recv

\* One helper channel of create_process.
LEMMA HelperOK ==
  ASSUME IInv, NEW pc \in MainPcs, NEW c \in CUids \cup {NoChan}, NEW next \in MainPcs,
         next # "done", CreateHelper(pc, c, next)
  PROVE  IInv' /\ [R!Next]_R!vars
<1>0. main \in [pc : MainPcs, req : CreateReqs] /\ main.req.pool \in MUids
  BY DEF IInv, TypeOK, CreateReqs
<1>1. CASE c = NoChan /\ main' = [main EXCEPT !.pc = next] /\ UNCHANGED <<chans, live>>
  <2>1. main' \in [pc : MainPcs, req : CreateReqs] /\ main'.pc # "done"
    BY <1>0, <1>1, MainPcOK
  <2>. QED
    BY <1>1, <2>1 DEF CreateHelper, IInv, TypeOK, LiveInTable, LiveInPools, DoneEmpty, R!vars
<1>2. CASE c # NoChan /\ \E ok \in BOOLEAN :
                /\ CreateChannel(c, main.req.pool, ok)
                /\ main' = [main EXCEPT !.pc = IF ok THEN next ELSE "idle"]
  <2>1. PICK ok \in BOOLEAN : /\ CreateChannel(c, main.req.pool, ok)
                              /\ main' = [main EXCEPT !.pc = IF ok THEN next ELSE "idle"]
    BY <1>2
  <2>2. main' \in [pc : MainPcs, req : CreateReqs] /\ main'.pc # "done"
    <3>1. (IF ok THEN next ELSE "idle") \in MainPcs
      BY DEF MainPcs
    <3>. QED
      BY <1>0, <2>1, <3>1, MainPcOK
  <2>3. UNCHANGED <<pools, nreq>>
    BY DEF CreateHelper
  <2>4. /\ chans' \in [CUids -> MUids \cup {NoPool}]
        /\ live' \in [AllCUids -> MUids \cup {NoPool}]
        /\ LiveInTable' /\ LiveInPools'
        /\ \/ ok /\ R!CreateChannel(c, main.req.pool)
           \/ UNCHANGED <<pools, live>>
    BY <1>0, <1>2, <2>1, <2>3, CreateChannelOK
  <2>5. c \in AllCUids
    BY <1>2 DEF AllCUids
  <2>6. [R!Next]_R!vars
    BY <1>0, <2>4, <2>5 DEF R!Next, R!vars
  <2>7. IInv'
    BY <2>2, <2>3, <2>4 DEF IInv, TypeOK, DoneEmpty
  <2>. QED
    BY <2>6, <2>7
<1>. QED
  BY <1>1, <1>2 DEF CreateHelper


\* The request handlers of the table keep the invariant and move the live
\* resources by one step of the specification's table, or not at all.
LEMMA RequestStep ==
  ASSUME IInv, Requests
  PROVE  IInv' /\ [R!Next]_R!vars
<1>0. TypeOK
  BY DEF IInv
<1>1. ASSUME NEW m \in MUids, PoolCreate(m) PROVE IInv' /\ [R!Next]_R!vars
  <2>1. nreq' \in 0..MaxReq /\ main.pc = "idle" /\ UNCHANGED <<chans, live, main>>
    BY <1>1, RecvOK DEF PoolCreate
  <2>2. CASE m \notin pools /\ pools' = pools \cup {m}
    <3>1. R!CreatePool(m)
      BY <2>1, <2>2 DEF R!CreatePool
    <3>2. IInv'
      BY <2>1, <2>2 DEF IInv, TypeOK, LiveInTable, LiveInPools, DoneEmpty
    <3>. QED
      BY <3>1, <3>2 DEF R!Next
  <2>3. CASE UNCHANGED pools
    BY <2>1, <2>3 DEF IInv, TypeOK, LiveInTable, LiveInPools, DoneEmpty, R!vars
  <2>. QED
    BY <1>1, <2>2, <2>3 DEF PoolCreate
<1>2. ASSUME NEW m \in MUids, PoolDestroy(m) PROVE IInv' /\ [R!Next]_R!vars
  <2>1. nreq' \in 0..MaxReq /\ main.pc = "idle" /\ UNCHANGED <<chans, main>>
    BY <1>2, RecvOK DEF PoolDestroy
  <2>2. CASE m \in pools /\ pools' = pools \ {m} /\ live' = FreePool(m)
    <3>1. /\ live' \in [AllCUids -> MUids \cup {NoPool}]
          /\ LiveInTable' /\ LiveInPools'
          /\ R!DestroyPool(m)
      BY <2>1, <2>2, FreePoolOK
    <3>2. IInv'
      BY <2>1, <2>2, <3>1 DEF IInv, TypeOK, DoneEmpty
    <3>. QED
      BY <3>1, <3>2 DEF R!Next
  <2>3. CASE m \notin pools /\ UNCHANGED <<pools, live>>
    BY <2>1, <2>3 DEF IInv, TypeOK, LiveInTable, LiveInPools, DoneEmpty, R!vars
  <2>. QED
    BY <1>2, <2>2, <2>3 DEF PoolDestroy
<1>3. ASSUME NEW c \in CUids, NEW m \in MUids, ChannelCreate(c, m)
      PROVE IInv' /\ [R!Next]_R!vars
  <2>1. nreq' \in 0..MaxReq /\ main.pc = "idle" /\ UNCHANGED <<pools, main>>
    BY <1>3, RecvOK DEF ChannelCreate
  <2>2. PICK ok \in BOOLEAN : CreateChannel(c, m, ok)
    BY <1>3 DEF ChannelCreate
  <2>3. /\ chans' \in [CUids -> MUids \cup {NoPool}]
        /\ live' \in [AllCUids -> MUids \cup {NoPool}]
        /\ LiveInTable' /\ LiveInPools'
        /\ \/ ok /\ R!CreateChannel(c, m)
           \/ UNCHANGED <<pools, live>>
    BY <2>1, <2>2, CreateChannelOK
  <2>4. c \in AllCUids
    BY DEF AllCUids
  <2>. QED
    BY <2>1, <2>3, <2>4 DEF IInv, TypeOK, DoneEmpty, R!Next, R!vars
<1>4. ASSUME NEW c \in CUids, ChannelDestroy(c) PROVE IInv' /\ [R!Next]_R!vars
  <2>1. nreq' \in 0..MaxReq /\ main.pc = "idle" /\ UNCHANGED <<pools, main>>
    BY <1>4, RecvOK DEF ChannelDestroy
  <2>2. CASE chans[c] # NoPool /\ chans' = [chans EXCEPT ![c] = NoPool]
             /\ live' = [live EXCEPT ![c] = NoPool]
    <3>1. /\ chans' \in [CUids -> MUids \cup {NoPool}]
          /\ live' \in [AllCUids -> MUids \cup {NoPool}]
          /\ LiveInTable' /\ LiveInPools'
          /\ R!DestroyChannel(c) \/ UNCHANGED <<pools, live>>
      BY <2>1, <2>2, DropChannelOK
    <3>2. c \in AllCUids
      BY DEF AllCUids
    <3>. QED
      BY <2>1, <3>1, <3>2 DEF IInv, TypeOK, DoneEmpty, R!Next, R!vars
  <2>3. CASE chans[c] = NoPool /\ UNCHANGED <<chans, live>>
    BY <2>1, <2>3 DEF IInv, TypeOK, LiveInTable, LiveInPools, DoneEmpty, R!vars
  <2>. QED
    BY <1>4, <2>2, <2>3 DEF ChannelDestroy
<1>5. ASSUME NEW r \in CreateReqs, RecvCreate(r) PROVE IInv' /\ [R!Next]_R!vars
  <2>1. nreq' \in 0..MaxReq /\ main.pc = "idle" /\ UNCHANGED <<pools, chans, live>>
    BY <1>5, RecvOK DEF RecvCreate
  <2>2. main' \in [pc : MainPcs, req : CreateReqs] /\ main'.pc # "done"
    BY <1>5 DEF RecvCreate, MainPcs
  <2>. QED
    BY <2>1, <2>2 DEF IInv, TypeOK, LiveInTable, LiveInPools, DoneEmpty, R!vars
<1>6. CASE Teardown
  <2>1. main' \in [pc : MainPcs, req : CreateReqs] /\ main'.pc # "done"
    BY <1>0, <1>6, MainPcOK DEF Teardown, TypeOK, MainPcs
  <2>. QED
    BY <1>6, <2>1 DEF Teardown, IInv, TypeOK, LiveInTable, LiveInPools, DoneEmpty, R!vars
<1>. QED
  BY <1>1, <1>2, <1>3, <1>4, <1>5, <1>6 DEF Requests


\* The steps of create_process after the request and of cleanup() keep the
\* invariant and move the live resources by a step of the table, or not.
LEMMA MainStepOK ==
  ASSUME IInv, MainStep
  PROVE  IInv' /\ [R!Next]_R!vars
<1>0. /\ main \in [pc : MainPcs, req : CreateReqs]
      /\ main.req.in \in CUids \cup {NoChan} /\ main.req.out \in CUids \cup {NoChan}
      /\ main.req.err \in CUids \cup {NoChan} /\ main.req.pmi \in PmodCUids \cup {NoChan}
  BY DEF IInv, TypeOK, CreateReqs
<1>1. CASE CreateStdin
  BY <1>0, <1>1, HelperOK DEF CreateStdin, MainPcs
<1>2. CASE CreateStdout
  BY <1>0, <1>2, HelperOK DEF CreateStdout, MainPcs
<1>3. CASE CreateStderr
  BY <1>0, <1>3, HelperOK DEF CreateStderr, MainPcs
<1>4. CASE CreatePmod
  <2> DEFINE k == main.req.pmi
  <2>1. UNCHANGED <<pools, chans, nreq>>
    BY <1>4 DEF CreatePmod
  <2>0. main' = [main EXCEPT !.pc = "popen"] \/ main' = [main EXCEPT !.pc = "dead"]
    BY <1>4 DEF CreatePmod
  <2>2. main' \in [pc : MainPcs, req : CreateReqs] /\ main'.pc # "done"
    BY <1>0, <2>0, MainPcOK DEF MainPcs
  <2>3. CASE k # NoChan /\ InfPool \in pools /\ live[k] = NoPool
             /\ live' = [live EXCEPT ![k] = InfPool]
    <3>1. k \in AllCUids /\ k \notin CUids /\ InfPool \in MUids
      BY <1>0, <2>3, ResourceAssumptions DEF AllCUids
    <3>2. R!CreateChannel(k, InfPool)
      BY <2>1, <2>3 DEF R!CreateChannel
    <3>3. IInv'
      BY <2>1, <2>2, <2>3, <3>1 DEF IInv, TypeOK, LiveInTable, LiveInPools, DoneEmpty
    <3>. QED
      BY <3>1, <3>2, <3>3 DEF R!Next
  <2>4. CASE ~(k # NoChan /\ InfPool \in pools /\ live[k] = NoPool)
    <3>1. UNCHANGED live
      BY <1>4, <2>4 DEF CreatePmod
    <3>. QED
      BY <2>1, <2>2, <3>1 DEF IInv, TypeOK, LiveInTable, LiveInPools, DoneEmpty, R!vars
  <2>. QED
    BY <2>3, <2>4, <1>4 DEF CreatePmod
<1>5. CASE CreatePopen \/ Crash \/ CleanupChansDone
  <2>1. main' \in [pc : MainPcs, req : CreateReqs] /\ main'.pc # "done"
    BY <1>0, <1>5, MainPcOK DEF CreatePopen, Crash, CleanupChansDone, MainPcs
  <2>2. UNCHANGED <<pools, chans, live, nreq>>
    BY <1>5 DEF CreatePopen, Crash, CleanupChansDone
  <2>. QED
    BY <2>1, <2>2 DEF IInv, TypeOK, LiveInTable, LiveInPools, DoneEmpty, R!vars
<1>6. CASE CleanupDone
  <2>1. main' \in [pc : MainPcs, req : CreateReqs] /\ pools = {}
    BY <1>0, <1>6, MainPcOK DEF CleanupDone, MainPcs
  <2>2. UNCHANGED <<pools, chans, live, nreq>>
    BY <1>6 DEF CleanupDone
  <2>. QED
    BY <2>1, <2>2 DEF IInv, TypeOK, LiveInTable, LiveInPools, DoneEmpty, R!vars
<1>7. ASSUME NEW c \in CUids, CleanupChannel(c) PROVE IInv' /\ [R!Next]_R!vars
  <2>1. UNCHANGED <<pools, main, nreq>> /\ main.pc = "cleanChans"
    BY <1>7 DEF CleanupChannel
  <2>2. /\ chans' \in [CUids -> MUids \cup {NoPool}]
        /\ live' \in [AllCUids -> MUids \cup {NoPool}]
        /\ LiveInTable' /\ LiveInPools'
        /\ R!DestroyChannel(c) \/ UNCHANGED <<pools, live>>
    BY <1>7, <2>1, DropChannelOK DEF CleanupChannel
  <2>3. c \in AllCUids
    BY DEF AllCUids
  <2>. QED
    BY <2>1, <2>2, <2>3 DEF IInv, TypeOK, DoneEmpty, R!Next, R!vars
<1>8. ASSUME NEW m \in MUids, CleanupPool(m) PROVE IInv' /\ [R!Next]_R!vars
  <2>1. /\ UNCHANGED <<chans, main, nreq>> /\ main.pc = "cleanPools" /\ m \in pools
        /\ pools' = pools \ {m}
    BY <1>8 DEF CleanupPool
  <2>2. /\ live' \in [AllCUids -> MUids \cup {NoPool}]
        /\ LiveInTable' /\ LiveInPools'
        /\ R!DestroyPool(m)
    BY <1>8, <2>1, FreePoolOK DEF CleanupPool
  <2>. QED
    BY <2>1, <2>2 DEF IInv, TypeOK, DoneEmpty, R!Next
<1>. QED
  BY <1>1, <1>2, <1>3, <1>4, <1>5, <1>6, <1>7, <1>8 DEF MainStep


\* Every step, or a stutter, keeps IInv and is a step or a stutter of R.
LEMMA NextStep == IInv /\ [Next]_vars => IInv' /\ [R!Next]_R!vars
<1> SUFFICES ASSUME IInv, [Next]_vars PROVE IInv' /\ [R!Next]_R!vars
  OBVIOUS
<1>1. CASE Requests
  BY <1>1, RequestStep
<1>2. CASE MainStep
  BY <1>2, MainStepOK
<1>3. CASE UNCHANGED vars
  BY <1>3 DEF vars, IInv, TypeOK, LiveInTable, LiveInPools, DoneEmpty, R!vars
<1>. QED
  BY <1>1, <1>2, <1>3 DEF Next

LEMMA SpecIInv == Spec => []IInv
BY InitIInv, NextStep, PTL DEF Spec

(***************************************************************************)
(* Every reachable state of the resource manager is well typed: the two    *)
(* tables and the live channels map names to pools, and the main thread    *)
(* holds a request of the allocating kind.                                 *)
(***************************************************************************)
THEOREM TypeCorrect == Spec => []TypeOK
BY SpecIInv, PTL DEF IInv

(***************************************************************************)
(* cleanup() leaves nothing allocated, for any number of pools, channels   *)
(* and PMI launch channels: every live channel lives in a pool of          *)
(* self.pools, and clean_pools destroys them all.                          *)
(***************************************************************************)
THEOREM CleanupReleasesAllInvariant == Spec => []CleanupReleasesAll
<1>1. IInv => CleanupReleasesAll
  BY DEF IInv, TypeOK, LiveInPools, DoneEmpty, CleanupReleasesAll
<1>. QED
  BY <1>1, SpecIInv, PTL

(***************************************************************************)
(* The resource manager implements the specification's resource table:    *)
(* under the mapping that keeps the pools and the live channels, its       *)
(* initial state is the table's and each of its steps is a step of the     *)
(* table or leaves it alone.                                               *)
(***************************************************************************)
THEOREM Refinement == Spec => ResourceRefinement
<1>1. Init => R!Init
  BY DEF Init, R!Init, AllCUids
<1>2. IInv /\ [Next]_vars => [R!Next]_R!vars
  BY NextStep
<1>. QED
  BY <1>1, <1>2, SpecIInv, PTL DEF Spec, ResourceRefinement, R!Spec

=============================================================================
