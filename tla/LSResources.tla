----------------------------- MODULE LSResources -----------------------------
(***************************************************************************)
(* The resource manager of Local Services, server.py: the pool and channel *)
(* tables (self.pools, self.channels) and every code path that changes     *)
(* them or the arenas behind them: the SHPoolCreate/Destroy and            *)
(* SHChannelCreate/Destroy handlers, the helper channels and the PMI       *)
(* launch channel that create_process allocates, and cleanup().  All of    *)
(* these run on the main thread (or after the main loop, in cleanup), so   *)
(* a handler is one step, except create_process, whose allocations are one *)
(* step each because it returns early between them.                        *)
(*                                                                         *)
(* chans is the table self.channels; live is what exists in memory.  They  *)
(* differ: destroying a pool frees the channels inside it, but their       *)
(* entries stay in self.channels, and the PMI launch channel is allocated  *)
(* without ever entering the table.                                        *)
(***************************************************************************)
EXTENDS Naturals

CONSTANTS
    MUids,      \* m_uids of pools
    CUids,      \* c_uids of channels created on request
    PmodCUids,  \* c_uids pmod_launch_cuid_from_jobinfo can return
    NoPool,     \* model value: no pool / no such channel
    NoChan,     \* model value: the request carries no ChannelCreate here
    InitPools,  \* the pools LocalServer is constructed with
    InfPool,    \* infrastructure_pool_muid_from_index(node_index)
    MaxReq      \* requests the environment sends

ASSUME ResourceAssumptions ==
    /\ NoPool \notin MUids
    /\ InitPools \subseteq MUids
    /\ InfPool \in InitPools
    /\ CUids \cap PmodCUids = {}
    /\ NoChan \notin CUids \cup PmodCUids
    /\ MaxReq \in Nat

AllCUids == CUids \cup PmodCUids

\* The parts of an SHProcessCreate that allocate: the stdin/stdout/stderr
\* ChannelCreate payloads, the pool they name, and the PMI launch channel.
CreateReqs ==
    [in : CUids \cup {NoChan}, out : CUids \cup {NoChan}, err : CUids \cup {NoChan},
     pool : MUids, pmi : PmodCUids \cup {NoChan}]

MainPcs == {"idle", "stdin", "stdout", "stderr", "pmi", "popen", "dead",
            "cleanChans", "cleanPools", "done"}

VARIABLES
    pools,  \* the keys of self.pools
    chans,  \* chans[c]: the pool of self.channels[c], NoPool if c is no key
    live,   \* live[c]: the pool the channel c is allocated in, NoPool if none
    main,   \* the main thread: pc and the SHProcessCreate in hand
    nreq    \* requests received

vars == <<pools, chans, live, main, nreq>>

Init ==
    /\ pools = InitPools
    /\ chans = [c \in CUids |-> NoPool]
    /\ live = [c \in AllCUids |-> NoPool]
    /\ main = [pc |-> "idle", req |-> CHOOSE r \in CreateReqs : TRUE]
    /\ nreq = 0

\* pool.destroy(): the arena goes, and with it every channel inside it.
FreePool(m) == [c \in AllCUids |-> IF live[c] = m THEN NoPool ELSE live[c]]

\* Mutant: create_channel without the c_uid-in-use check.
CreateChannelNoInUse(c, m, ok) ==
    \/ /\ ok /\ m \in pools
       /\ chans' = [chans EXCEPT ![c] = m]
       /\ live' = [live EXCEPT ![c] = m]
    \/ ~ok /\ UNCHANGED <<chans, live>>

\* create_channel: ok when the c_uid is free, the pool is known and
\* dch.Channel does not raise; a failure changes nothing.
CreateChannel(c, m, ok) ==
    \/ /\ ok /\ chans[c] = NoPool /\ m \in pools
       /\ chans' = [chans EXCEPT ![c] = m]
       /\ live' = [live EXCEPT ![c] = m]
    \/ ~ok /\ UNCHANGED <<chans, live>>

\* main_loop receives a request and, for the table handlers, answers it.
Recv == main.pc = "idle" /\ nreq < MaxReq /\ nreq' = nreq + 1

PoolCreate(m) ==
    /\ Recv
    /\ \/ m \notin pools /\ pools' = pools \cup {m}
       \/ UNCHANGED pools
    /\ UNCHANGED <<chans, live, main>>

\* The entry is popped, the pool destroyed; its channels' entries stay.
PoolDestroy(m) ==
    /\ Recv
    /\ \/ m \in pools /\ pools' = pools \ {m} /\ live' = FreePool(m)
       \/ m \notin pools /\ UNCHANGED <<pools, live>>
    /\ UNCHANGED <<chans, main>>

ChannelCreate(c, m) ==
    /\ Recv
    /\ \E ok \in BOOLEAN : CreateChannel(c, m, ok)
    /\ UNCHANGED <<pools, main>>

\* The entry is popped, then destroy() frees the channel, or raises
\* ChannelError when its pool is already gone.
ChannelDestroy(c) ==
    /\ Recv
    /\ \/ /\ chans[c] # NoPool
          /\ chans' = [chans EXCEPT ![c] = NoPool]
          /\ live' = [live EXCEPT ![c] = NoPool]
       \/ chans[c] = NoPool /\ UNCHANGED <<chans, live>>
    /\ UNCHANGED <<pools, main>>

RecvCreate(r) ==
    /\ Recv
    /\ main' = [pc |-> "stdin", req |-> r]
    /\ UNCHANGED <<pools, chans, live>>

\* One helper channel of create_process; a failure returns fail(...).
CreateHelper(pc, c, next) ==
    /\ main.pc = pc
    /\ \/ c = NoChan /\ main' = [main EXCEPT !.pc = next] /\ UNCHANGED <<chans, live>>
       \/ /\ c # NoChan
          /\ \E ok \in BOOLEAN :
                /\ CreateChannel(c, main.req.pool, ok)
                /\ main' = [main EXCEPT !.pc = IF ok THEN next ELSE "idle"]
    /\ UNCHANGED <<pools, nreq>>

CreateStdin == CreateHelper("stdin", main.req.in, "stdout")
CreateStdout == CreateHelper("stdout", main.req.out, "stderr")
CreateStderr == CreateHelper("stderr", main.req.err, "pmi")

\* dch.Channel(self.pools[inf_muid], pmod_launch_cuid): a KeyError when the
\* infrastructure pool was destroyed, a ChannelError when the c_uid exists;
\* neither is caught, and the main loop dies.  The channel never enters
\* self.channels.
CreatePmod ==
    /\ main.pc = "pmi"
    /\ LET k == main.req.pmi IN
       \/ k = NoChan /\ main' = [main EXCEPT !.pc = "popen"] /\ UNCHANGED live
       \/ /\ k # NoChan /\ InfPool \in pools /\ live[k] = NoPool
          /\ live' = [live EXCEPT ![k] = InfPool]
          /\ main' = [main EXCEPT !.pc = "popen"]
       \/ /\ k # NoChan /\ (InfPool \notin pools \/ live[k] # NoPool)
          /\ main' = [main EXCEPT !.pc = "dead"] /\ UNCHANGED live
    /\ UNCHANGED <<pools, chans, nreq>>

\* Popen, success or OSError: either way the channels stay where they are.
CreatePopen ==
    /\ main.pc = "popen"
    /\ main' = [main EXCEPT !.pc = "idle"]
    /\ UNCHANGED <<pools, chans, live, nreq>>

\* SHTeardown sets shutdown_sig; main_loop exits and run() reaches cleanup().
Teardown ==
    /\ main.pc = "idle"
    /\ main' = [main EXCEPT !.pc = "cleanChans"]
    /\ UNCHANGED <<pools, chans, live, nreq>>

\* run() catches the main loop's exception; cleanup() follows.
Crash ==
    /\ main.pc = "dead"
    /\ main' = [main EXCEPT !.pc = "cleanChans"]
    /\ UNCHANGED <<pools, chans, live, nreq>>

\* cleanup(): chan.destroy() for every entry of self.channels.
CleanupChannel(c) ==
    /\ main.pc = "cleanChans" /\ chans[c] # NoPool
    /\ chans' = [chans EXCEPT ![c] = NoPool]
    /\ live' = [live EXCEPT ![c] = NoPool]
    /\ UNCHANGED <<pools, main, nreq>>

\* Mutant: cleanup() returns without clean_pools.
CleanupChansDoneSkipPools ==
    /\ main.pc = "cleanChans" /\ \A c \in CUids : chans[c] = NoPool
    /\ main' = [main EXCEPT !.pc = "done"]
    /\ UNCHANGED <<pools, chans, live, nreq>>

CleanupChansDone ==
    /\ main.pc = "cleanChans" /\ \A c \in CUids : chans[c] = NoPool
    /\ main' = [main EXCEPT !.pc = "cleanPools"]
    /\ UNCHANGED <<pools, chans, live, nreq>>

\* clean_pools: pool.destroy() for every entry of self.pools.
CleanupPool(m) ==
    /\ main.pc = "cleanPools" /\ m \in pools
    /\ pools' = pools \ {m}
    /\ live' = FreePool(m)
    /\ UNCHANGED <<chans, main, nreq>>

CleanupDone ==
    /\ main.pc = "cleanPools" /\ pools = {}
    /\ main' = [main EXCEPT !.pc = "done"]
    /\ UNCHANGED <<pools, chans, live, nreq>>

MainStep ==
    \/ CreateStdin \/ CreateStdout \/ CreateStderr \/ CreatePmod \/ CreatePopen
    \/ Crash \/ CleanupChansDone \/ CleanupDone
    \/ \E c \in CUids : CleanupChannel(c)
    \/ \E m \in MUids : CleanupPool(m)

Requests ==
    \/ Teardown
    \/ \E m \in MUids : PoolCreate(m) \/ PoolDestroy(m)
    \/ \E c \in CUids : ChannelDestroy(c) \/ \E m \in MUids : ChannelCreate(c, m)
    \/ \E r \in CreateReqs : RecvCreate(r)

Next == MainStep \/ Requests

\* The main thread is a preemptively scheduled thread that does not wait
\* inside a handler; requests come from outside and get no fairness.
Spec == Init /\ [][Next]_vars /\ WF_vars(MainStep)

-----------------------------------------------------------------------------
\* The live resources, seen as the table the specification describes.
R == INSTANCE ResourceTable WITH CUids <- AllCUids, chans <- live

(***************************************************************************)
(* Refinement: whatever sequence of requests, failures and shutdown the    *)
(* handlers go through, the pools and the channels that really exist       *)
(* change only as the specification's table does: a name is never bound   *)
(* twice, a channel is made only inside an existing pool, and it lives no  *)
(* longer than its pool.  It rests on create_channel's in-use check and    *)
(* on every live request channel being in self.channels.                   *)
(***************************************************************************)
ResourceRefinement == R!Spec

(***************************************************************************)
(* Spec section 8: no channel or pool remains allocated after cleanup()    *)
(* returns, the PMI launch channels that never enter self.channels and     *)
(* the helper channels a failed create_process left behind included.       *)
(***************************************************************************)
CleanupReleasesAll ==
    main.pc = "done" => pools = {} /\ \A c \in AllCUids : live[c] = NoPool

(***************************************************************************)
(* Spec invariant 2: a c_uid is in self.channels only while Local Services *)
(* owns a live channel under it.  destroy_pool does not look at the        *)
(* channels inside the pool.                                               *)
(***************************************************************************)
ChannelInLivePool == \A c \in CUids : chans[c] # NoPool => live[c] = chans[c]

(***************************************************************************)
(* Spec section 8: every SHProcessCreate is answered.  create_process      *)
(* catches only OSError and ValueError around the PMI launch channel.      *)
(***************************************************************************)
CreateAnswered == main.pc = "stdin" ~> main.pc = "idle"

\* Every variable holds a value of its type.
TypeOK ==
    /\ pools \subseteq MUids
    /\ chans \in [CUids -> MUids \cup {NoPool}]
    /\ live \in [AllCUids -> MUids \cup {NoPool}]
    /\ main \in [pc : MainPcs, req : CreateReqs]
    /\ nreq \in 0..MaxReq
=============================================================================
