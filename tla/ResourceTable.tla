---------------------------- MODULE ResourceTable ----------------------------
(***************************************************************************)
(* What the resource manager of Local Services promises about the pools    *)
(* and channels it owns.  A pool is an arena named by an m_uid; a channel  *)
(* is allocated inside one pool and named by a c_uid.  A name is bound at  *)
(* most once at a time, a channel is created only inside a pool that       *)
(* exists, and a channel lives no longer than its pool.  Creation and      *)
(* destruction are the only changes; a request that fails changes nothing. *)
(***************************************************************************)
CONSTANTS
    MUids,      \* pool names
    CUids,      \* channel names
    NoPool,     \* "no channel of this name"
    InitPools   \* pools that exist when Local Services starts

VARIABLES
    pools,      \* the pools that exist
    chans       \* chans[c]: the pool the channel c lives in, or NoPool

vars == <<pools, chans>>

Init ==
    /\ pools = InitPools
    /\ chans = [c \in CUids |-> NoPool]

CreatePool(m) ==
    /\ m \notin pools
    /\ pools' = pools \cup {m}
    /\ UNCHANGED chans

\* The channels inside a pool go with it.
DestroyPool(m) ==
    /\ m \in pools
    /\ pools' = pools \ {m}
    /\ chans' = [c \in CUids |-> IF chans[c] = m THEN NoPool ELSE chans[c]]

CreateChannel(c, m) ==
    /\ chans[c] = NoPool
    /\ m \in pools
    /\ chans' = [chans EXCEPT ![c] = m]
    /\ UNCHANGED pools

DestroyChannel(c) ==
    /\ chans[c] # NoPool
    /\ chans' = [chans EXCEPT ![c] = NoPool]
    /\ UNCHANGED pools

Next ==
    \/ \E m \in MUids : CreatePool(m) \/ DestroyPool(m)
    \/ \E c \in CUids : DestroyChannel(c) \/ \E m \in MUids : CreateChannel(c, m)

Spec == Init /\ [][Next]_vars
=============================================================================
