------------------------- MODULE LSProcesses_proofs -------------------------
(***************************************************************************)
(* Proofs about LSProcesses for every value of its constants.              *)
(*                                                                         *)
(* Neither TypeOK nor TableConsistent is inductive alone.  TypeOK needs    *)
(* the output pump never to read more than a child wrote (fwd <= wrote),   *)
(* or FlushOnce could push fwd past MaxOut.  TableConsistent needs that a  *)
(* pid in the table is one the OS has handed out (so the pid Popen gets is *)
(* never already a key of apt), and that the request the main thread is    *)
(* creating names a real p_uid.                                            *)
(***************************************************************************)
EXTENDS LSProcesses, TLAPS

\* The pump never forwards output a child has not written.
FwdBounded == \A c \in Conns : fwd[c] <= wrote[c]

\* Every pid in LocalServer.apt was spawned, for a real p_uid.
AptSpawned == \A p \in apt : osState[p] # "none" /\ props[p].puid \in Puids

\* The p_uid of a ProcessCreate being handled is a real one.
MainPuid == main.pc = "create" => main.puid \in Puids

\* Once create_process has spawned, and while kill_process signals, the
\* main thread holds a real pid.
MainPid == main.pc \in {"spawned", "queued", "killing"} => main.pid \in Pids

IInv == TypeOK /\ FwdBounded /\ AptSpawned /\ MainPuid /\ MainPid /\ TableConsistent

\* The strengthened invariant holds in the initial state of LS.
LEMMA InitIInv == Init => IInv
<1> SUFFICES ASSUME Init PROVE IInv
  OBVIOUS
<1>1. TypeOK
  <2>1. main \in Req
    BY DEF Init, NoReq, Req, MainPcs, StdoutModes, StderrModes, NoPid
  <2>2. props \in [Pids -> Props]
    BY DEF Init, NoProps, Props, StdoutModes, StderrModes
  <2>3. told \in [Pids -> Told]
    BY DEF Init, Told
  <2>4. wrote \in [Conns -> 0..MaxOut] /\ fwd \in [Conns -> 0..MaxOut]
    BY Assumptions DEF Init
  <2>5. puid2pid \in [Puids -> Pids \cup {NoPid}] /\ osState \in [Pids -> OsStates]
    BY DEF Init, OsStates
  <2>6. nreq \in 0..MaxReq /\ abnTerms \in Nat /\ reaper \in Pids \cup {NoPid}
    BY Assumptions DEF Init
  <2>7. pump \in PumpPcs /\ newProcs \in Seq(Pids) /\ exitedQ \in Seq(Conns)
    BY DEF Init, PumpPcs
  <2>. QED
    BY <2>1, <2>2, <2>3, <2>4, <2>5, <2>6, <2>7 DEF Init, TypeOK
<1>2. FwdBounded /\ AptSpawned /\ MainPuid /\ MainPid /\ TableConsistent
  BY DEF Init, FwdBounded, AptSpawned, MainPuid, MainPid, TableConsistent, NoReq
<1>. QED
  BY <1>1, <1>2 DEF IInv

\* create_process's response marks the child's record as answered; the
\* record keeps its type.
LEMMA RespondOK ==
  ASSUME NEW T \in [Pids -> Told], NEW p \in Pids
  PROVE  [T EXCEPT ![p].resp = TRUE] \in [Pids -> Told]
<1> DEFINE U == [T EXCEPT ![p].resp = TRUE]
<1>1. T[p] \in Told
  OBVIOUS
<1>2. U[p] = [resp |-> TRUE, exits |-> T[p].exits, early |-> T[p].early]
  BY <1>1 DEF Told
<1>3. U[p] \in Told
  BY <1>1, <1>2, Zenon DEF Told
<1>4. \A q \in Pids : U[q] \in Told
  BY <1>3
<1>5. U = [q \in Pids |-> U[q]]
  OBVIOUS
<1>. QED
  BY <1>4, <1>5

\* Recording a message about a pid keeps the per-pid record well formed.
LEMMA TellOK ==
  ASSUME NEW T \in [Pids -> Told], NEW p \in Pids, NEW n \in Nat
  PROVE  [T EXCEPT ![p].exits = @ + n, ![p].early = @ \/ ~T[p].resp] \in [Pids -> Told]
<1> DEFINE U == [T EXCEPT ![p].exits = @ + n, ![p].early = @ \/ ~T[p].resp]
<1>1. T[p] \in Told
  OBVIOUS
<1>2. U[p] = [resp |-> T[p].resp, exits |-> T[p].exits + n,
              early |-> T[p].early \/ ~T[p].resp]
  BY <1>1 DEF Told
<1>3. U[p] \in Told
  <2>1. T[p].exits + n \in Nat
    BY <1>1 DEF Told
  <2>2. T[p].resp \in BOOLEAN /\ (T[p].early \/ ~T[p].resp) \in BOOLEAN
    BY <1>1, Zenon DEF Told
  <2>. QED
    BY <1>2, <2>1, <2>2, Zenon DEF Told
<1>4. \A q \in Pids : U[q] \in Told
  BY <1>3
<1>5. U = [q \in Pids |-> U[q]]
  OBVIOUS
<1>. QED
  BY <1>4, <1>5

\* One OutputConnector.flush reads no more than the child wrote and keeps
\* the counters and the record of what was told in their types.
LEMMA FlushOnceOK ==
  ASSUME TypeOK, FwdBounded, NEW c \in Conns, FlushOnce(c), wrote' = wrote
  PROVE  /\ fwd' \in [Conns -> 0..MaxOut]
         /\ \A d \in Conns : fwd'[d] <= wrote'[d]
         /\ told' \in [Pids -> Told]
<1>1. MinOf(Unread(c), ReadMax) \in 0..(wrote[c] - fwd[c])
  BY Assumptions DEF TypeOK, FwdBounded, MinOf, Unread
<1>2. fwd' = [fwd EXCEPT ![c] = @ + MinOf(Unread(c), ReadMax)]
  BY DEF FlushOnce
<1>3. fwd' \in [Conns -> 0..MaxOut] /\ \A d \in Conns : fwd'[d] <= wrote'[d]
  BY <1>1, <1>2, Assumptions DEF TypeOK, FwdBounded
<1>4. told' \in [Pids -> Told]
  <2>1. c[1] \in Pids
    BY DEF Conns
  <2>2. CASE MinOf(Unread(c), ReadMax) > 0 /\ ToLauncher(c)
    <3>1. told' = [told EXCEPT ![c[1]].exits = @ + 0, ![c[1]].early = @ \/ ~told[c[1]].resp]
      BY <2>2 DEF FlushOnce, Tell
    <3>. QED
      BY <2>1, <3>1, TellOK DEF TypeOK
  <2>3. CASE ~(MinOf(Unread(c), ReadMax) > 0 /\ ToLauncher(c))
    BY <2>3 DEF FlushOnce, TypeOK
  <2>. QED
    BY <2>2, <2>3
<1>. QED
  BY <1>3, <1>4

\* Every step of the main dispatch thread, the reaper, the output pump,
\* the children and the environment keeps the strengthened invariant.
LEMMA NextIInv == IInv /\ [Next]_vars => IInv'
<1> SUFFICES ASSUME IInv, [Next]_vars PROVE IInv'
  OBVIOUS
<1> USE Assumptions DEF IInv, TypeOK, FwdBounded, AptSpawned, MainPuid, MainPid,
                       TableConsistent, tableVars, ioVars, queueVars, msgVars
<1>1. ASSUME NEW u \in Puids, NEW io \in StdioReqs, RecvCreate(u, io) PROVE IInv'
  BY <1>1 DEF RecvCreate, Req, MainPcs
<1>2. ASSUME NEW u \in Puids, RecvKill(u) PROVE IInv'
  BY <1>2 DEF RecvKill, Req, NoReq, MainPcs, NoPid, StdoutModes, StderrModes
<1>3. CASE Teardown
  BY <1>3 DEF Teardown, Req, MainPcs
<1>4. CASE CreateDup
  BY <1>4 DEF CreateDup, Req, NoReq, MainPcs, NoPid, StdoutModes, StderrModes
<1>5. CASE CreateFail
  BY <1>5 DEF CreateFail, Req, NoReq, MainPcs, NoPid, StdoutModes, StderrModes
<1>6. CASE CreateCrash
  <2>1. main' \in Req
    BY <1>6 DEF CreateCrash, Req, MainPcs
  <2>2. abnTerms' \in Nat
    BY <1>6 DEF CreateCrash
  <2>. QED
    BY <1>6, <2>1, <2>2 DEF CreateCrash
<1>7. CASE CreateSpawn
  <2>1. PICK p \in FreePids :
          /\ main.pc = "create" /\ puid2pid[main.puid] = NoPid
          /\ osState' = [osState EXCEPT ![p] = "running"]
          /\ props' = [props EXCEPT ![p] = [puid |-> main.puid, out |-> main.io[1],
                                            err |-> main.io[2]]]
          /\ apt' = apt \cup {p}
          /\ puid2pid' = [puid2pid EXCEPT ![main.puid] = p]
          /\ main' = [main EXCEPT !.pc = "spawned", !.pid = p]
          /\ UNCHANGED <<ioVars, queueVars, reaper, pump, ready, shutdown, msgVars, nreq>>
    BY <1>7 DEF CreateSpawn
  <2>2. p \in Pids /\ p \notin apt /\ main.puid \in Puids
    BY <2>1 DEF FreePids
  <2>3. TypeOK'
    <3>1. main' \in Req
      BY <2>1, <2>2 DEF Req, MainPcs
    <3>2. props' \in [Pids -> Props]
      BY <2>1, <2>2 DEF Req, Props
    <3>3. osState' \in [Pids -> OsStates] /\ puid2pid' \in [Puids -> Pids \cup {NoPid}]
      BY <2>1, <2>2 DEF OsStates
    <3>. QED
      BY <2>1, <2>2, <3>1, <3>2, <3>3
  <2>4. AptSpawned'
    BY <2>1, <2>2
  <2>5. TableConsistent'
    <3>1. \A q \in apt : q # p /\ q # NoPid
      BY <2>2 DEF NoPid, Pids
    <3>2. \A u \in Puids : puid2pid'[u] # NoPid =>
                             puid2pid'[u] \in apt' /\ props'[puid2pid'[u]].puid = u
      BY <2>1, <2>2, <3>1
    <3>3. \A q \in apt' : puid2pid'[props'[q].puid] = q
      BY <2>1, <2>2, <3>1
    <3>. QED
      BY <3>2, <3>3
  <2>. QED
    BY <2>1, <2>2, <2>3, <2>4, <2>5
<1>8. CASE CreatePut
  <2>1. main' \in Req
    BY <1>8 DEF CreatePut, Req, MainPcs
  <2>2. newProcs' \in Seq(Pids)
    BY <1>8 DEF CreatePut
  <2>. QED
    BY <1>8, <2>1, <2>2 DEF CreatePut
<1>9. CASE CreateRespond
  <2>1. main' \in Req
    BY <1>9 DEF CreateRespond, Req, NoReq, MainPcs, NoPid, StdoutModes, StderrModes
  <2>2. told' \in [Pids -> Told]
    <3>1. told' = [told EXCEPT ![main.pid].resp = TRUE]
      BY <1>9 DEF CreateRespond
    <3>. QED
      BY <3>1, RespondOK
  <2>. QED
    BY <1>9, <2>1, <2>2 DEF CreateRespond, NoReq
<1>10. CASE KillDeliver
  BY <1>10 DEF KillDeliver, Req, NoReq, MainPcs, NoPid, StdoutModes, StderrModes, OsStates
<1>11. CASE SendHaltBE
  BY <1>11 DEF SendHaltBE, Req, MainPcs
<1>12. CASE Cleanup
  BY <1>12 DEF Cleanup, Req, MainPcs, OsStates, NoPid
<1>13. ASSUME NEW c \in Conns, ChildWrite(c) PROVE IInv'
  BY <1>13 DEF ChildWrite
<1>14. ASSUME NEW p \in Pids, ChildExit(p) PROVE IInv'
  BY <1>14 DEF ChildExit, OsStates
<1>15. ASSUME NEW p \in Pids, ReapWait(p) PROVE IInv'
  BY <1>15 DEF ReapWait, OsStates
<1>16. CASE ReapHandle
  <2>1. reaper \in Pids
    BY <1>16 DEF ReapHandle, NoPid
  <2>2. CASE reaper \in apt
    <3> DEFINE p == reaper
    <3>1. /\ apt' = apt \ {p}
          /\ puid2pid' = [puid2pid EXCEPT ![props[p].puid] = NoPid]
          /\ told' = [told EXCEPT ![p].exits = @ + 1, ![p].early = @ \/ ~told[p].resp]
          /\ exitedQ' = exitedQ \o <<<<p, "out">>, <<p, "err">>>>
          /\ reaper' = NoPid
          /\ UNCHANGED <<props, osState, wrote, fwd, registered, closed, newProcs,
                         main, pump, ready, shutdown, abnTerms, haltBE, nreq>>
      BY <1>16, <2>2 DEF ReapHandle, Tell
    <3>2. props[p].puid \in Puids
      BY <2>2
    <3>3. exitedQ' \in Seq(Conns)
      BY <2>1, <3>1 DEF Conns, Fds
    <3>4. told' \in [Pids -> Told]
      BY <2>1, <3>1, TellOK
    <3>5. TableConsistent'
      <5>1. \A q \in apt : props[q].puid = props[p].puid => q = p
        BY <2>2
      <5>2. \A u \in Puids : puid2pid'[u] # NoPid =>
                               puid2pid'[u] \in apt' /\ props'[puid2pid'[u]].puid = u
        BY <3>1, <3>2, <5>1
      <5>3. \A q \in apt' : puid2pid'[props'[q].puid] = q
        BY <3>1, <3>2, <5>1
      <5>. QED
        BY <5>2, <5>3
    <3>. QED
      BY <2>1, <3>1, <3>2, <3>3, <3>4, <3>5 DEF NoPid
  <2>3. CASE reaper \notin apt
    BY <1>16, <2>3 DEF ReapHandle, NoPid
  <2>. QED
    BY <2>2, <2>3
<1>17. CASE PumpSelect
  <2>1. pump' \in PumpPcs /\ ready' \subseteq Conns
    BY <1>17 DEF PumpSelect, PumpPcs
  <2>. QED
    BY <1>17, <2>1 DEF PumpSelect
<1>18. ASSUME NEW c \in Conns, PumpFlush(c) PROVE IInv'
  <2>1. CASE Unread(c) = 0
    BY <1>18, <2>1 DEF PumpFlush
  <2>2. CASE Unread(c) # 0
    <3>1. FlushOnce(c) /\ wrote' = wrote
      BY <1>18, <2>2 DEF PumpFlush
    <3>. QED
      BY <1>18, <2>2, <3>1, FlushOnceOK DEF PumpFlush
  <2>. QED
    BY <2>1, <2>2
<1>19. CASE PumpFlushDone
  BY <1>19 DEF PumpFlushDone, PumpPcs
<1>20. CASE PumpAddProc
  <2>1. Head(newProcs) \in Pids /\ Tail(newProcs) \in Seq(Pids)
    BY <1>20 DEF PumpAddProc
  <2>2. registered' \subseteq Conns
    BY <1>20, <2>1 DEF PumpAddProc, Conns, Fds
  <2>. QED
    BY <1>20, <2>1, <2>2 DEF PumpAddProc
<1>21. CASE PumpNewDone
  BY <1>21 DEF PumpNewDone, PumpPcs
<1>22. CASE PumpExited
  <2> DEFINE c == Head(exitedQ)
  <2>1. c \in Conns /\ exitedQ' = Tail(exitedQ) /\ Tail(exitedQ) \in Seq(Conns)
    BY <1>22 DEF PumpExited
  <2>2. UNCHANGED <<puid2pid, apt, props, osState, wrote, newProcs, main, reaper,
                    ready, shutdown, haltBE, nreq>>
    BY <1>22 DEF PumpExited
  <2>3. CASE /\ ~Piped(c) \/ c \in closed
             /\ pump' = "select"
             /\ UNCHANGED <<fwd, registered, closed, told, abnTerms>>
    BY <2>1, <2>2, <2>3 DEF PumpPcs
  <2>4. CASE /\ Piped(c) /\ c \notin closed /\ c \in registered
             /\ registered' = registered \ {c}
             /\ closed' = closed \cup {c}
             /\ FlushOnce(c)
             /\ UNCHANGED <<pump, abnTerms>>
    BY <2>1, <2>2, <2>4, FlushOnceOK
  <2>5. CASE /\ Piped(c) /\ c \notin closed /\ c \notin registered
             /\ pump' = "dead"
             /\ abnTerms' = abnTerms + 1
             /\ UNCHANGED <<fwd, registered, closed, told>>
    BY <2>1, <2>2, <2>5 DEF PumpPcs
  <2>. QED
    BY <1>22, <2>3, <2>4, <2>5 DEF PumpExited
<1>23. CASE PumpExitedDone
  BY <1>23 DEF PumpExitedDone, PumpPcs
<1>24. CASE UNCHANGED vars
  BY <1>24 DEF vars, tableVars, ioVars, queueVars, msgVars
<1>. QED
  BY <1>1, <1>2, <1>3, <1>4, <1>5, <1>6, <1>7, <1>8, <1>9, <1>10, <1>11, <1>12,
     <1>13, <1>14, <1>15, <1>16, <1>17, <1>18, <1>19, <1>20, <1>21, <1>22, <1>23,
     <1>24
     DEF Next, Requests, MainStep, ReaperStep, PumpStep, Children, Finished

\* ExitAccounting made inductive: a pid the OS has not handed out has no
\* exit notification and is not in the table, and after cleanup() the
\* table stays empty.
ExitInv ==
    /\ \A p \in Pids : osState[p] = "none" => told[p].exits = 0 /\ p \notin apt
    /\ main.pc = "done" => apt = {}
    /\ ExitAccounting

\* Forwarding output never changes the count of exit notifications.
LEMMA FlushKeepsExits ==
  ASSUME TypeOK, NEW c \in Conns, FlushOnce(c)
  PROVE  \A p \in Pids : told'[p].exits = told[p].exits
<1>1. c[1] \in Pids
  BY DEF Conns
<1>2. CASE MinOf(Unread(c), ReadMax) > 0 /\ ToLauncher(c)
  <2>1. told' = [told EXCEPT ![c[1]].exits = @ + 0, ![c[1]].early = @ \/ ~told[c[1]].resp]
    BY <1>2 DEF FlushOnce, Tell
  <2>2. \A p \in Pids : told[p].exits \in Nat
    BY DEF TypeOK, Told
  <2>. QED
    BY <1>1, <2>1, <2>2 DEF TypeOK
<1>3. CASE ~(MinOf(Unread(c), ReadMax) > 0 /\ ToLauncher(c))
  BY <1>3 DEF FlushOnce
<1>. QED
  BY <1>2, <1>3

LEMMA InitExitInv == Init => ExitInv
BY DEF Init, ExitInv, ExitAccounting, ExitSent, NoReq

\* No step hands out a second SHProcessExit or loses a table entry
\* without one.
LEMMA NextExitInv == IInv /\ ExitInv /\ [Next]_vars => ExitInv'
<1> SUFFICES ASSUME IInv, ExitInv, [Next]_vars PROVE ExitInv'
  OBVIOUS
<1> USE DEF ExitInv, ExitAccounting, ExitSent, IInv, TypeOK, tableVars, ioVars,
           queueVars, msgVars
<1>1. CASE CreateSpawn
  <2>1. PICK p \in FreePids :
          /\ main.pc = "create"
          /\ osState' = [osState EXCEPT ![p] = "running"]
          /\ apt' = apt \cup {p}
          /\ main' = [main EXCEPT !.pc = "spawned", !.pid = p]
          /\ UNCHANGED told
    BY <1>1 DEF CreateSpawn, msgVars
  <2>. QED
    BY <2>1 DEF FreePids, Req
<1>2. CASE Cleanup
  BY <1>2 DEF Cleanup, msgVars, Req
<1>3. CASE ReapHandle
  <2>1. reaper \in Pids
    BY <1>3 DEF ReapHandle, NoPid
  <2>2. CASE reaper \in apt
    <3> DEFINE p == reaper
    <3>1. /\ apt' = apt \ {p}
          /\ told' = [told EXCEPT ![p].exits = @ + 1, ![p].early = @ \/ ~told[p].resp]
          /\ UNCHANGED <<osState, main>>
      BY <1>3, <2>2 DEF ReapHandle, Tell
    <3>2. main.pc # "done" /\ osState[p] # "none" /\ told[p].exits = 0
      <4>1. main.pc # "done" /\ osState[p] # "none"
        BY <2>2 DEF AptSpawned
      <4>2. told[p].exits \in Nat
        BY <2>1 DEF Told
      <4>. QED
        BY <2>1, <2>2, <4>1, <4>2
    <3>3. told'[p].exits = 1 /\ \A q \in Pids \ {p} : told'[q] = told[q]
      BY <2>1, <3>1, <3>2
    <3>. QED
      BY <2>1, <3>1, <3>2, <3>3
  <2>3. CASE reaper \notin apt
    BY <1>3, <2>3 DEF ReapHandle
  <2>. QED
    BY <2>2, <2>3
<1>4. ASSUME NEW c \in Conns, PumpFlush(c) PROVE ExitInv'
  <2>1. \A p \in Pids : told'[p].exits = told[p].exits
    BY <1>4, FlushKeepsExits DEF PumpFlush
  <2>. QED
    BY <1>4, <2>1 DEF PumpFlush
<1>5. CASE PumpExited
  <2>1. \A p \in Pids : told'[p].exits = told[p].exits
    BY <1>5, FlushKeepsExits DEF PumpExited
  <2>. QED
    BY <1>5, <2>1 DEF PumpExited
<1>6. ASSUME NEW u \in Puids, NEW io \in StdioReqs, RecvCreate(u, io) PROVE ExitInv'
  BY <1>6 DEF RecvCreate, tableVars, msgVars
<1>9. ASSUME NEW u \in Puids, RecvKill(u) PROVE ExitInv'
  BY <1>9 DEF RecvKill, NoReq, tableVars, msgVars
<1>10. CASE Teardown
  BY <1>10 DEF Teardown
<1>13. CASE CreateCrash
  BY <1>13 DEF CreateCrash
<1>14. CASE SendHaltBE
  BY <1>14 DEF SendHaltBE
<1>11. CASE CreateDup
  BY <1>11 DEF CreateDup, NoReq
<1>15. CASE CreateFail
  BY <1>15 DEF CreateFail, NoReq
<1>16. CASE CreatePut
  BY <1>16 DEF CreatePut
<1>12. CASE CreateRespond
  <2>1. \A p \in Pids : told'[p].exits = told[p].exits
    BY <1>12 DEF CreateRespond
  <2>. QED
    BY <1>12, <2>1 DEF CreateRespond, NoReq, tableVars
<1>7. CASE \/ KillDeliver \/ (\E p \in Pids : ChildExit(p)) \/ (\E p \in Pids : ReapWait(p))
  BY <1>7 DEF KillDeliver, ChildExit, ReapWait, NoReq, tableVars, msgVars
<1>8. CASE \/ \E c \in Conns : ChildWrite(c)
           \/ PumpSelect \/ PumpFlushDone \/ PumpAddProc \/ PumpNewDone \/ PumpExitedDone
           \/ UNCHANGED vars
  BY <1>8 DEF ChildWrite, PumpSelect, PumpFlushDone, PumpAddProc, PumpNewDone,
              PumpExitedDone, vars, tableVars, msgVars
<1>. QED
  BY <1>1, <1>2, <1>3, <1>4, <1>5, <1>6, <1>7, <1>8, <1>9, <1>10, <1>11, <1>12,
     <1>13, <1>14, <1>15, <1>16
     DEF Next, Requests, MainStep, ReaperStep, PumpStep, Children, Finished

\* Every reachable state of LS is well typed: the pid/p_uid tables, the
\* output counters, both SimpleQueues and the threads' control state.
THEOREM TypeCorrect == Spec => []TypeOK
<1>1. IInv => TypeOK
  BY DEF IInv
<1>. QED
  BY InitIInv, NextIInv, <1>1, PTL DEF Spec

\* For every number of pids, p_uids and requests, puid2pid and apt agree:
\* create_process inserts into both and watch_death pops from both under
\* apt_lock, and _clean_procs empties both.
THEOREM TableInvariant == Spec => []TableConsistent
<1>1. IInv => TableConsistent
  BY DEF IInv
<1>. QED
  BY InitIInv, NextIInv, <1>1, PTL DEF Spec

\* For every bound, watch_death sends at most one SHProcessExit per child,
\* and until cleanup() a spawned child is in the table exactly as long as
\* none was sent.
THEOREM ExitAccountingInvariant == Spec => []ExitAccounting
<1>1. Init => IInv /\ ExitInv
  BY InitIInv, InitExitInv
<1>2. IInv /\ ExitInv /\ [Next]_vars => IInv' /\ ExitInv'
  BY NextIInv, NextExitInv
<1>3. ExitInv => ExitAccounting
  BY DEF ExitInv
<1>. QED
  BY <1>1, <1>2, <1>3, PTL DEF Spec


\* The pid watch_death holds between waitpid and the table pop is one the
\* OS has reaped: nothing hands the pid out again, and only a running
\* child is signalled or exits.
ReaperReaped == reaper # NoPid => osState[reaper] = "reaped"

\* The step ExitOnlyAfterDeath constrains.
ExitStep ==
    \A p \in Pids : told'[p].exits # told[p].exits =>
        osState[p] = "reaped" /\ p \in apt /\ p \notin apt'

LEMMA NextReaperReaped == IInv /\ ReaperReaped /\ [Next]_vars => ReaperReaped'
<1> SUFFICES ASSUME IInv, ReaperReaped, [Next]_vars PROVE ReaperReaped'
  OBVIOUS
<1> USE DEF ReaperReaped, IInv, TypeOK
<1>1. ASSUME NEW p \in Pids, ReapWait(p) PROVE ReaperReaped'
  BY <1>1 DEF ReapWait
<1>2. CASE ReapHandle
  BY <1>2 DEF ReapHandle
<1>3. CASE CreateSpawn
  <2>1. PICK p \in FreePids : osState' = [osState EXCEPT ![p] = "running"]
    BY <1>3 DEF CreateSpawn
  <2>2. UNCHANGED reaper
    BY <1>3 DEF CreateSpawn
  <2>. QED
    BY <2>1, <2>2 DEF FreePids, NoPid, Pids
<1>4. CASE KillDeliver
  BY <1>4 DEF KillDeliver
<1>5. ASSUME NEW p \in Pids, ChildExit(p) PROVE ReaperReaped'
  BY <1>5 DEF ChildExit
<1>6. CASE Cleanup
  BY <1>6 DEF Cleanup
\* Every other step leaves osState and reaper alone.
<1>7. CASE UNCHANGED <<osState, reaper>>
  BY <1>7
<1>8. CASE ~ReapHandle /\ ~CreateSpawn /\ ~KillDeliver /\ ~Cleanup
           /\ \A p \in Pids : ~ReapWait(p) /\ ~ChildExit(p)
  BY <1>7, <1>8 DEF Next, Requests, MainStep, ReaperStep, PumpStep, Children, Finished,
     RecvCreate, RecvKill, CreateDup, CreateFail, CreateCrash, CreatePut, CreateRespond,
     Teardown, SendHaltBE, ChildWrite, PumpSelect, PumpFlush, PumpFlushDone,
     PumpAddProc, PumpNewDone, PumpExited, PumpExitedDone, vars
<1>. QED
  BY <1>1, <1>2, <1>3, <1>4, <1>5, <1>6, <1>8

\* Only watch_death's notification changes a count of SHProcessExit, and
\* it does so for the reaped pid it pops from the table.
LEMMA NextExitStep == IInv /\ ReaperReaped /\ [Next]_vars => ExitStep
<1> SUFFICES ASSUME IInv, ReaperReaped, [Next]_vars PROVE ExitStep
  OBVIOUS
<1> USE DEF ExitStep, IInv, TypeOK, msgVars
<1>1. CASE ReapHandle
  <2>1. reaper \in Pids
    BY <1>1 DEF ReapHandle, NoPid
  <2>2. CASE reaper \in apt
    <3> DEFINE r == reaper
    <3>1. /\ apt' = apt \ {r}
          /\ told' = [told EXCEPT ![r].exits = @ + 1, ![r].early = @ \/ ~told[r].resp]
      BY <1>1, <2>2 DEF ReapHandle, Tell
    <3>2. \A q \in Pids \ {r} : told'[q] = told[q]
      BY <2>1, <3>1
    <3>3. osState[r] = "reaped"
      BY <2>1 DEF ReaperReaped, NoPid, Pids
    <3>. QED
      BY <2>2, <3>1, <3>2, <3>3
  <2>3. CASE reaper \notin apt
    BY <1>1, <2>3 DEF ReapHandle
  <2>. QED
    BY <2>2, <2>3
<1>2. ASSUME NEW c \in Conns, PumpFlush(c) PROVE ExitStep
  BY <1>2, FlushKeepsExits DEF PumpFlush
<1>3. CASE PumpExited
  BY <1>3, FlushKeepsExits DEF PumpExited
<1>4. CASE CreateRespond
  BY <1>4 DEF CreateRespond
<1>5. CASE CreateCrash
  BY <1>5 DEF CreateCrash
<1>6. CASE UNCHANGED told
  BY <1>6
<1>7. CASE ~ReapHandle /\ ~PumpExited /\ ~CreateRespond /\ ~CreateCrash
           /\ \A c \in Conns : ~PumpFlush(c)
  BY <1>6, <1>7 DEF Next, Requests, MainStep, ReaperStep, PumpStep, Children, Finished,
     RecvCreate, RecvKill, CreateDup, CreateFail, CreateSpawn, CreatePut, KillDeliver,
     Teardown, SendHaltBE, Cleanup, ChildWrite, ChildExit, ReapWait, PumpSelect,
     PumpFlushDone, PumpAddProc, PumpNewDone, PumpExitedDone, vars
<1>. QED
  BY <1>1, <1>2, <1>3, <1>4, <1>5, <1>7

\* For every number of pids, p_uids and requests, LS sends an SHProcessExit
\* only for a child waitpid has reaped and that is still in the process
\* table, and the same step of watch_death removes it from the table: no
\* exit is reported for a live child, for an unknown pid, or after cleanup().
THEOREM ExitOnlyAfterDeathHolds == Spec => ExitOnlyAfterDeath
<1>1. Init => IInv /\ ReaperReaped
  BY InitIInv DEF Init, ReaperReaped
<1>2. IInv /\ ReaperReaped /\ [Next]_vars => (IInv /\ ReaperReaped)'
  BY NextIInv, NextReaperReaped
<1>3. IInv /\ ReaperReaped /\ [Next]_vars => [ExitStep]_vars
  BY NextExitStep
<1>. QED
  BY <1>1, <1>2, <1>3, PTL DEF Spec, ExitOnlyAfterDeath, ExitStep
=============================================================================
