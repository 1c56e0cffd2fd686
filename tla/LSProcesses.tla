---------------------------- MODULE LSProcesses ----------------------------
(***************************************************************************)
(* The process side of Dragon Local Services (LS),                         *)
(* src/dragon/localservices/server.py: the main dispatch thread handling   *)
(* SHProcessCreate, SHProcessKill and SHTeardown, the death-reaper thread  *)
(* (watch_death), the output-pump thread (watch_output) with its           *)
(* OutputConnectors, the two SimpleQueues between them (new_procs and      *)
(* exited_channel_output_monitors), the children themselves, and the       *)
(* terminal sequence of run() followed by cleanup().                       *)
(*                                                                         *)
(* Data is abstracted: a child's output is a count of units and one read   *)
(* of FwdOutput.MAX bytes takes at most ReadMax units.  Of the messages LS *)
(* sends, the model keeps what the properties tell apart: per pid, whether *)
(* its ProcessCreateResponse went out, how many SHProcessExit did, and     *)
(* whether an exit or output for it went out before that response.         *)
(***************************************************************************)
EXTENDS Naturals, Sequences, FiniteSets

CONSTANTS
    Puids,      \* p_uids that requests name
    NoPuid,     \* model value: "no p_uid"
    MaxPid,     \* OS pids available to children: 1..MaxPid (fork fails after)
    MaxOut,     \* units of output one child writes on one stream, at most
    ReadMax,    \* units one read of FwdOutput.MAX bytes returns, at most
    MaxReq,     \* requests the environment sends to the LS endpoint
    StdioReqs   \* <<stdout, stderr>> dispositions that ProcessCreate requests carry

\* chan: stdout_msg given, a root connector over a new channel; be: PIPE
\* with the output forwarded to the launcher back end; devnull: DEVNULL.
StdoutModes == {"chan", "be", "devnull"}
\* pipe: PIPE forwarded to the launcher; stdout: merged into stdout.
StderrModes == {"pipe", "devnull", "stdout"}

ASSUME Assumptions ==
    /\ NoPuid \notin Puids
    /\ MaxPid \in Nat \ {0}
    /\ MaxOut \in Nat
    /\ ReadMax \in Nat \ {0}
    /\ MaxReq \in Nat
    /\ StdioReqs \subseteq StdoutModes \X StderrModes

Pids == 1..MaxPid
NoPid == 0
Fds == {"out", "err"}
Conns == Pids \X Fds          \* the stdout and stderr OutputConnector of each pid
OsStates == {"none", "running", "exited", "reaped"}
MainPcs == {"idle", "create", "spawned", "queued", "killing", "exited", "halted", "done"}
PumpPcs == {"select", "flush", "new", "exited", "stopped", "dead"}
Props == [puid : Puids \cup {NoPuid}, out : StdoutModes, err : StderrModes]
NoProps == [puid |-> NoPuid, out |-> "devnull", err |-> "devnull"]
Told == [resp : BOOLEAN, exits : Nat, early : BOOLEAN]
Req == [pc : MainPcs, puid : Puids \cup {NoPuid}, io : StdoutModes \X StderrModes,
        pid : Pids \cup {NoPid}]
NoReq == [pc |-> "idle", puid |-> NoPuid, io |-> <<"be", "pipe">>, pid |-> NoPid]

VARIABLES
    puid2pid,   \* LocalServer.puid2pid, NoPid where a p_uid is absent
    apt,        \* the pids that are keys of LocalServer.apt
    props,      \* ProcessProps of each spawned pid
    osState,    \* what the OS knows of each pid
    wrote,      \* units the child wrote on a connector's stream
    fwd,        \* units the pump read from a connector's pipe and forwarded
    registered, \* connectors registered with the output selector
    closed,     \* connectors whose close() ran: file handle closed
    newProcs,   \* queue new_procs: pids
    exitedQ,    \* queue exited_channel_output_monitors: connectors
    main,       \* the main dispatch thread: pc and the request it handles
    reaper,     \* pid watch_death got from waitpid and has not handled yet
    pump,       \* the output pump's place in its loop
    ready,      \* the connectors the pump's last select reported
    shutdown,   \* shutdown_sig
    told,       \* per pid: what LS has told about it (see Told)
    abnTerms,   \* AbnormalTermination messages sent to the launcher
    haltBE,     \* SHHaltBE sent to the launcher
    nreq        \* requests received so far

tableVars == <<puid2pid, apt, props>>
ioVars == <<wrote, fwd, registered, closed>>
queueVars == <<newProcs, exitedQ>>
msgVars == <<told, abnTerms, haltBE>>
vars == <<tableVars, osState, ioVars, queueVars, main, reaper, pump, ready,
          shutdown, msgVars, nreq>>

Init ==
    /\ puid2pid = [u \in Puids |-> NoPid]
    /\ apt = {}
    /\ props = [p \in Pids |-> NoProps]
    /\ osState = [p \in Pids |-> "none"]
    /\ wrote = [c \in Conns |-> 0]
    /\ fwd = [c \in Conns |-> 0]
    /\ registered = {}
    /\ closed = {}
    /\ newProcs = <<>>
    /\ exitedQ = <<>>
    /\ main = NoReq
    /\ reaper = NoPid
    /\ pump = "select"
    /\ ready = {}
    /\ shutdown = FALSE
    /\ told = [p \in Pids |-> [resp |-> FALSE, exits |-> 0, early |-> FALSE]]
    /\ abnTerms = 0
    /\ haltBE = FALSE
    /\ nreq = 0

(***************************************************************************)
(* Helpers                                                                 *)
(***************************************************************************)
MinOf(a, b) == IF a <= b THEN a ELSE b

\* Units in the pipe of connector c that nobody has read.
Unread(c) == wrote[c] - fwd[c]

\* The stream of connector c is a pipe LS reads (create_process, 819-833):
\* stdout unless DEVNULL; stderr only when it is PIPE (STDOUT merges it
\* into the stdout pipe and leaves proc.stderr None).
Piped(c) ==
    IF c[2] = "out" THEN props[c[1]].out # "devnull" ELSE props[c[1]].err = "pipe"

\* The connector has no Connection (conn is None), so _sendit sends each
\* block to the launcher as an SHFwdOutput.
ToLauncher(c) == c[2] = "err" \/ props[c[1]].out = "be"

\* select reports a pipe readable when it holds data or when its writer,
\* the child, is gone, which reads as EOF.
Readable(c) == Unread(c) > 0 \/ osState[c[1]] \in {"exited", "reaped"}

\* Record a message about pid p: an SHFwdOutput or SHProcessExit sent
\* before the ProcessCreateResponse marks the pid "early".
Tell(p, isExit) ==
    told' = [told EXCEPT ![p].exits = @ + (IF isExit THEN 1 ELSE 0),
                         ![p].early = @ \/ ~told[p].resp]

\* Variant of FlushOnce that counts a full FwdOutput.MAX block as read,
\* whatever the read returned.
FlushOnceFullBlock(c) ==
    /\ fwd' = [fwd EXCEPT ![c] = @ + ReadMax]
    /\ IF ToLauncher(c) THEN Tell(c[1], FALSE) ELSE UNCHANGED told

\* OutputConnector.flush: one read of at most ReadMax units, then forward;
\* a block for the launcher is one SHFwdOutput.
FlushOnce(c) ==
    LET k == MinOf(Unread(c), ReadMax) IN
    /\ fwd' = [fwd EXCEPT ![c] = @ + k]
    /\ IF k > 0 /\ ToLauncher(c) THEN Tell(c[1], FALSE) ELSE UNCHANGED told

FreePids == {p \in Pids : osState[p] = "none"}
ExitSent(p) == told[p].exits > 0

\* stderr == STDOUT requested without an stdout channel (create_process 807-811).
Crashes(io) == io[2] = "stdout" /\ io[1] # "chan"

(***************************************************************************)
(* Main dispatch thread: main_loop and its handlers                        *)
(***************************************************************************)
\* main_loop receives an SHProcessCreate and enters create_process.
RecvCreate(u, io) ==
    /\ main.pc = "idle" /\ ~shutdown /\ nreq < MaxReq
    /\ main' = [pc |-> "create", puid |-> u, io |-> io, pid |-> NoPid]
    /\ nreq' = nreq + 1
    /\ UNCHANGED <<tableVars, osState, ioVars, queueVars, reaper, pump, ready,
                   shutdown, msgVars>>

\* t_p_uid is already in puid2pid: the failure is sent and the handler
\* returns.  The check reads puid2pid without apt_lock.
CreateDup ==
    /\ main.pc = "create" /\ puid2pid[main.puid] # NoPid
    /\ main' = NoReq
    /\ UNCHANGED <<tableVars, osState, ioVars, queueVars, reaper, pump, ready,
                   shutdown, msgVars, nreq>>

\* A helper channel cannot be created or Popen raises OSError (the exe is
\* missing, or fork fails, as it always does once no pid is free): the
\* FAIL response is returned and sent.
CreateFail ==
    /\ main.pc = "create" /\ puid2pid[main.puid] = NoPid
    /\ main' = NoReq
    /\ UNCHANGED <<tableVars, osState, ioVars, queueVars, reaper, pump, ready,
                   shutdown, msgVars, nreq>>

\* stderr == STDOUT without an stdout channel: stdout_resp is None and
\* stdout_resp.desc raises AttributeError outside the try.  main_loop ends
\* and run() reports it with _abnormal_termination; shutdown_sig stays clear.
CreateCrash ==
    /\ main.pc = "create" /\ puid2pid[main.puid] = NoPid
    /\ Crashes(main.io)
    /\ abnTerms' = abnTerms + 1
    /\ main' = [main EXCEPT !.pc = "exited"]
    /\ UNCHANGED <<tableVars, osState, ioVars, queueVars, reaper, pump, ready,
                   shutdown, told, haltBE, nreq>>

\* Variant of CreateSpawn that forgets the puid2pid insert.
CreateSpawnNoPuidMap ==
    /\ main.pc = "create" /\ puid2pid[main.puid] = NoPid
    /\ ~Crashes(main.io)
    /\ \E p \in FreePids :
       /\ osState' = [osState EXCEPT ![p] = "running"]
       /\ props' = [props EXCEPT ![p] = [puid |-> main.puid, out |-> main.io[1],
                                         err |-> main.io[2]]]
       /\ apt' = apt \cup {p}
       /\ main' = [main EXCEPT !.pc = "spawned", !.pid = p]
    /\ UNCHANGED <<puid2pid, ioVars, queueVars, reaper, pump, ready, shutdown, msgVars, nreq>>

\* Popen and the table insert, both under apt_lock; the OS picks any free pid.
CreateSpawn ==
    /\ main.pc = "create" /\ puid2pid[main.puid] = NoPid
    /\ ~Crashes(main.io)
    /\ \E p \in FreePids :
       /\ osState' = [osState EXCEPT ![p] = "running"]
       /\ props' = [props EXCEPT ![p] = [puid |-> main.puid, out |-> main.io[1],
                                         err |-> main.io[2]]]
       /\ apt' = apt \cup {p}
       /\ puid2pid' = [puid2pid EXCEPT ![main.puid] = p]
       /\ main' = [main EXCEPT !.pc = "spawned", !.pid = p]
    /\ UNCHANGED <<ioVars, queueVars, reaper, pump, ready, shutdown, msgVars, nreq>>

\* After the PMI wire-up data: self.new_procs.put(the_proc).
CreatePut ==
    /\ main.pc = "spawned"
    /\ newProcs' = Append(newProcs, main.pid)
    /\ main' = [main EXCEPT !.pc = "queued"]
    /\ UNCHANGED <<tableVars, osState, ioVars, exitedQ, reaper, pump, ready,
                   shutdown, msgVars, nreq>>

\* initial_stdin is written, the handler returns the SUCCESS response and
\* main_loop sends it with _send_response.
CreateRespond ==
    /\ main.pc = "queued"
    /\ told' = [told EXCEPT ![main.pid].resp = TRUE]
    /\ main' = NoReq
    /\ UNCHANGED <<tableVars, osState, ioVars, queueVars, reaper, pump, ready,
                   shutdown, abnTerms, haltBE, nreq>>

\* kill_process reads self.puid2pid[t_p_uid] without apt_lock; a missing
\* p_uid is answered with a failure at once.
RecvKill(u) ==
    /\ main.pc = "idle" /\ ~shutdown /\ nreq < MaxReq
    /\ nreq' = nreq + 1
    /\ main' = IF puid2pid[u] = NoPid THEN NoReq
               ELSE [pc |-> "killing", puid |-> u, io |-> NoReq.io, pid |-> puid2pid[u]]
    /\ UNCHANGED <<tableVars, osState, ioVars, queueVars, reaper, pump, ready,
                   shutdown, msgVars>>

\* os.kill(target, sig): ESRCH once the pid is reaped (a failure response);
\* otherwise the signal is delivered and a running child dies.
KillDeliver ==
    /\ main.pc = "killing"
    /\ osState' = IF osState[main.pid] = "running"
                  THEN [osState EXCEPT ![main.pid] = "exited"] ELSE osState
    /\ main' = NoReq
    /\ UNCHANGED <<tableVars, ioVars, queueVars, reaper, pump, ready, shutdown,
                   msgVars, nreq>>

\* SHTeardown: teardown_ls sets shutdown_sig and main_loop exits.
Teardown ==
    /\ main.pc = "idle" /\ ~shutdown
    /\ shutdown' = TRUE
    /\ main' = [main EXCEPT !.pc = "exited"]
    /\ UNCHANGED <<tableVars, osState, ioVars, queueVars, reaper, pump, ready,
                   msgVars, nreq>>

\* run() after main_loop: the worker joins time out after QUIESCE_TIME
\* without stopping the workers, the gateway channels go, SHHaltBE is sent.
SendHaltBE ==
    /\ main.pc = "exited"
    /\ haltBE' = TRUE
    /\ main' = [main EXCEPT !.pc = "halted"]
    /\ UNCHANGED <<tableVars, osState, ioVars, queueVars, reaper, pump, ready,
                   shutdown, told, abnTerms, nreq>>

\* cleanup() / _clean_procs: kill and wait for every child in the table,
\* then empty puid2pid and apt.
Cleanup ==
    /\ main.pc = "halted"
    /\ osState' = [p \in Pids |-> IF p \in apt THEN "reaped" ELSE osState[p]]
    /\ apt' = {}
    /\ puid2pid' = [u \in Puids |-> NoPid]
    /\ main' = [main EXCEPT !.pc = "done"]
    /\ UNCHANGED <<props, ioVars, queueVars, reaper, pump, ready, shutdown,
                   msgVars, nreq>>

(***************************************************************************)
(* Children                                                                *)
(***************************************************************************)
\* A running child writes one unit on a stream LS pipes.
ChildWrite(c) ==
    /\ osState[c[1]] = "running" /\ Piped(c) /\ wrote[c] < MaxOut
    /\ wrote' = [wrote EXCEPT ![c] = @ + 1]
    /\ UNCHANGED <<tableVars, osState, fwd, registered, closed, queueVars, main,
                   reaper, pump, ready, shutdown, msgVars, nreq>>

\* A running child exits: it becomes a zombie and its pipes reach EOF.
ChildExit(p) ==
    /\ osState[p] = "running"
    /\ osState' = [osState EXCEPT ![p] = "exited"]
    /\ UNCHANGED <<tableVars, ioVars, queueVars, main, reaper, pump, ready,
                   shutdown, msgVars, nreq>>

(***************************************************************************)
(* Death reaper: watch_death                                               *)
(***************************************************************************)
\* Variant of ReapWait that reaps the zombie and drops its pid.
ReapWaitDropped(p) ==
    /\ reaper = NoPid /\ ~shutdown
    /\ osState[p] = "exited"
    /\ osState' = [osState EXCEPT ![p] = "reaped"]
    /\ UNCHANGED <<tableVars, ioVars, queueVars, main, reaper, pump, ready, shutdown,
                   msgVars, nreq>>

\* os.waitpid(0, WNOHANG) returns a zombie child and reaps it.
ReapWait(p) ==
    /\ reaper = NoPid /\ ~shutdown
    /\ osState[p] = "exited"
    /\ osState' = [osState EXCEPT ![p] = "reaped"]
    /\ reaper' = p
    /\ UNCHANGED <<tableVars, ioVars, queueVars, main, pump, ready, shutdown,
                   msgVars, nreq>>

\* Variant of ReapHandle that notifies without popping the table entry.
ReapHandleNoPop ==
    /\ reaper # NoPid
    /\ LET p == reaper IN
       IF p \in apt
       THEN /\ Tell(p, TRUE)
            /\ exitedQ' = exitedQ \o <<<<p, "out">>, <<p, "err">>>>
       ELSE UNCHANGED <<told, exitedQ>>
    /\ reaper' = NoPid
    /\ UNCHANGED <<apt, puid2pid, props, osState, ioVars, newProcs, main, pump, ready,
                   shutdown, abnTerms, haltBE, nreq>>

\* Variant of ReapHandle that does not skip an unknown pid: the exit is
\* sent with the record the pid last had.
ReapHandleNoSkip ==
    /\ reaper # NoPid
    /\ LET p == reaper IN
       /\ apt' = apt \ {p}
       /\ puid2pid' = IF p \in apt THEN [puid2pid EXCEPT ![props[p].puid] = NoPid]
                                   ELSE puid2pid
       /\ Tell(p, TRUE)
       /\ exitedQ' = exitedQ \o <<<<p, "out">>, <<p, "err">>>>
    /\ reaper' = NoPid
    /\ UNCHANGED <<props, osState, ioVars, newProcs, main, pump, ready, shutdown,
                   abnTerms, haltBE, nreq>>

\* Under apt_lock the record is popped from apt and puid2pid (an unknown
\* pid is logged and skipped); SHProcessExit goes to r_c_uid, and the
\* stdout and stderr connectors are queued for the output pump.
ReapHandle ==
    /\ reaper # NoPid
    /\ LET p == reaper IN
       IF p \in apt
       THEN /\ apt' = apt \ {p}
            /\ puid2pid' = [puid2pid EXCEPT ![props[p].puid] = NoPid]
            /\ Tell(p, TRUE)
            /\ exitedQ' = exitedQ \o <<<<p, "out">>, <<p, "err">>>>
       ELSE UNCHANGED <<apt, puid2pid, told, exitedQ>>
    /\ reaper' = NoPid
    /\ UNCHANGED <<props, osState, ioVars, newProcs, main, pump, ready, shutdown,
                   abnTerms, haltBE, nreq>>

(***************************************************************************)
(* Output pump: watch_output                                               *)
(***************************************************************************)
\* Top of the loop: leave it on shutdown_sig, otherwise select.
PumpSelect ==
    /\ pump = "select"
    /\ IF shutdown
       THEN pump' = "stopped" /\ UNCHANGED ready
       ELSE pump' = "flush" /\ ready' = {c \in registered : Readable(c)}
    /\ UNCHANGED <<tableVars, osState, ioVars, queueVars, main, reaper, shutdown,
                   msgVars, nreq>>

\* One selected connector is flushed; at EOF it is unregistered and closed
\* (close flushes again, which finds nothing, and closes the file).
PumpFlush(c) ==
    /\ pump = "flush" /\ c \in ready
    /\ ready' = ready \ {c}
    /\ IF Unread(c) = 0
       THEN /\ registered' = registered \ {c}
            /\ closed' = closed \cup {c}
            /\ UNCHANGED <<fwd, told>>
       ELSE /\ FlushOnce(c)
            /\ UNCHANGED <<registered, closed>>
    /\ UNCHANGED <<tableVars, osState, wrote, queueVars, main, reaper, pump,
                   shutdown, abnTerms, haltBE, nreq>>

\* After the selected work: break on shutdown_sig, else drain new_procs.
PumpFlushDone ==
    /\ pump = "flush" /\ ready = {}
    /\ pump' = IF shutdown THEN "stopped" ELSE "new"
    /\ UNCHANGED <<tableVars, osState, ioVars, queueVars, main, reaper, ready,
                   shutdown, msgVars, nreq>>

\* add_proc_streams: register stdout and stderr; a None or closed file
\* raises ValueError, which is ignored.
PumpAddProc ==
    /\ pump = "new" /\ newProcs # <<>>
    /\ LET p == Head(newProcs) IN
       registered' = registered \cup
                     {c \in {<<p, "out">>, <<p, "err">>} : Piped(c) /\ c \notin closed}
    /\ newProcs' = Tail(newProcs)
    /\ UNCHANGED <<tableVars, osState, wrote, fwd, closed, exitedQ, main, reaper,
                   pump, ready, shutdown, msgVars, nreq>>

PumpNewDone ==
    /\ pump = "new" /\ newProcs = <<>>
    /\ pump' = "exited"
    /\ UNCHANGED <<tableVars, osState, ioVars, queueVars, main, reaper, ready,
                   shutdown, msgVars, nreq>>

\* Variant of PumpExited that unregisters and flushes but never closes.
PumpExitedNoClose ==
    /\ pump = "exited" /\ exitedQ # <<>>
    /\ exitedQ' = Tail(exitedQ)
    /\ LET c == Head(exitedQ) IN
       \/ /\ ~Piped(c) \/ c \in closed
          /\ pump' = "select"
          /\ UNCHANGED <<fwd, registered, closed, told, abnTerms>>
       \/ /\ Piped(c) /\ c \notin closed /\ c \in registered
          /\ registered' = registered \ {c}
          /\ FlushOnce(c)
          /\ UNCHANGED <<pump, abnTerms, closed>>
       \/ /\ Piped(c) /\ c \notin closed /\ c \notin registered
          /\ pump' = "dead"
          /\ abnTerms' = abnTerms + 1
          /\ UNCHANGED <<fwd, registered, closed, told>>
    /\ UNCHANGED <<tableVars, osState, wrote, newProcs, main, reaper, ready,
                   shutdown, haltBE, nreq>>

\* One exited connector: unregister(file_obj), then close(), which flushes
\* once and closes the file.  A None or closed file raises ValueError, which
\* ends this drain; an open file never registered raises KeyError, which
\* nothing catches: the thread dies and the excepthook calls
\* _abnormal_termination.
PumpExited ==
    /\ pump = "exited" /\ exitedQ # <<>>
    /\ exitedQ' = Tail(exitedQ)
    /\ LET c == Head(exitedQ) IN
       \/ /\ ~Piped(c) \/ c \in closed
          /\ pump' = "select"
          /\ UNCHANGED <<fwd, registered, closed, told, abnTerms>>
       \/ /\ Piped(c) /\ c \notin closed /\ c \in registered
          /\ registered' = registered \ {c}
          /\ closed' = closed \cup {c}
          /\ FlushOnce(c)
          /\ UNCHANGED <<pump, abnTerms>>
       \/ /\ Piped(c) /\ c \notin closed /\ c \notin registered
          /\ pump' = "dead"
          /\ abnTerms' = abnTerms + 1
          /\ UNCHANGED <<fwd, registered, closed, told>>
    /\ UNCHANGED <<tableVars, osState, wrote, newProcs, main, reaper, ready,
                   shutdown, haltBE, nreq>>

PumpExitedDone ==
    /\ pump = "exited" /\ exitedQ = <<>>
    /\ pump' = "select"
    /\ UNCHANGED <<tableVars, osState, ioVars, queueVars, main, reaper, ready,
                   shutdown, msgVars, nreq>>

(***************************************************************************)
(* The specification                                                       *)
(***************************************************************************)
\* The LS process has returned from cleanup() and exits.
Finished ==
    /\ main.pc = "done"
    /\ UNCHANGED vars

MainStep ==
    \/ CreateDup \/ CreateFail \/ CreateCrash \/ CreateSpawn \/ CreatePut
    \/ CreateRespond \/ KillDeliver \/ SendHaltBE \/ Cleanup

Requests ==
    \/ \E u \in Puids, io \in StdioReqs : RecvCreate(u, io)
    \/ \E u \in Puids : RecvKill(u)
    \/ Teardown

ReaperStep == (\E p \in Pids : ReapWait(p)) \/ ReapHandle

PumpStep ==
    \/ PumpSelect \/ (\E c \in Conns : PumpFlush(c)) \/ PumpFlushDone
    \/ PumpAddProc \/ PumpNewDone \/ PumpExited \/ PumpExitedDone

Children == (\E c \in Conns : ChildWrite(c)) \/ (\E p \in Pids : ChildExit(p))

Next == Requests \/ MainStep \/ ReaperStep \/ PumpStep \/ Children \/ Finished

\* Each LS thread that has work keeps running (preemptive threads); the
\* requests and the children are the environment and get no fairness.
Fairness == WF_vars(MainStep) /\ WF_vars(ReaperStep) /\ WF_vars(PumpStep)

Spec == Init /\ [][Next]_vars /\ Fairness

(***************************************************************************)
(* Properties                                                              *)
(***************************************************************************)
TypeOK ==
    /\ puid2pid \in [Puids -> Pids \cup {NoPid}]
    /\ apt \subseteq Pids
    /\ props \in [Pids -> Props]
    /\ osState \in [Pids -> OsStates]
    /\ wrote \in [Conns -> 0..MaxOut]
    /\ fwd \in [Conns -> 0..MaxOut]
    /\ registered \subseteq Conns
    /\ closed \subseteq Conns
    /\ newProcs \in Seq(Pids)
    /\ exitedQ \in Seq(Conns)
    /\ main \in Req
    /\ reaper \in Pids \cup {NoPid}
    /\ pump \in PumpPcs
    /\ ready \subseteq Conns
    /\ shutdown \in BOOLEAN
    /\ told \in [Pids -> Told]
    /\ abnTerms \in Nat
    /\ haltBE \in BOOLEAN
    /\ nreq \in 0..MaxReq

\* A p_uid maps to a pid in the table exactly when that pid's record names
\* it: puid2pid and apt, kept by create_process and watch_death under
\* apt_lock and by _clean_procs, agree (spec invariant 1).
TableConsistent ==
    /\ \A u \in Puids : puid2pid[u] # NoPid =>
          puid2pid[u] \in apt /\ props[puid2pid[u]].puid = u
    /\ \A p \in apt : puid2pid[props[p].puid] = p

\* Until cleanup(), a spawned child is in the table exactly as long as no
\* SHProcessExit has been sent for it, and none is sent twice: the insert
\* in create_process against the pop and notification in watch_death.
ExitAccounting ==
    /\ \A p \in Pids : told[p].exits <= 1
    /\ main.pc # "done" =>
          \A p \in Pids : osState[p] # "none" => (p \in apt <=> ~ExitSent(p))

\* Spec 4.4: an SHProcessExit reports a real death.  watch_death sends one
\* only for a child the OS has reaped (waitpid returned its pid) and that is
\* still in the table, which the same step leaves without it; a death that
\* cleanup() reaped first, or a pid LS never spawned, is skipped.
ExitOnlyAfterDeath ==
    [][\A p \in Pids : told'[p].exits # told[p].exits =>
          osState[p] = "reaped" /\ p \in apt /\ p \notin apt']_vars

\* Every child in the table that dies is reported by watch_death with an
\* SHProcessExit, unless LS shuts down first.
ExitReported ==
    \A p \in Pids :
        (p \in apt /\ osState[p] \in {"exited", "reaped"})
            ~> (ExitSent(p) \/ shutdown \/ main.pc = "done")

\* Every piped stdout or stderr of a dead child is eventually closed by the
\* output pump (on EOF or from the exited-process queue), unless the pump
\* has stopped or died.
ConnectorsClosed ==
    \A c \in Conns :
        (Piped(c) /\ osState[c[1]] \in {"exited", "reaped"})
            ~> (c \in closed \/ pump \in {"stopped", "dead"})

\* Spec 5: the ProcessCreateResponse of a process is sent before any
\* FwdOutput for it and before its ProcessExit.
CreateResponseFirst == \A p \in Pids : ~told[p].early

\* Spec 4.5: the output pump runs until shutdown; it does not die while
\* deregistering the connectors watch_death hands it.
OutputPumpAlive == pump # "dead"

\* Spec 8: what a child writes reaches its consumer; a closed connector
\* has forwarded every unit the child wrote on its stream.
OutputComplete == \A c \in closed : fwd[c] = wrote[c]

\* Spec 8: every ProcessCreate is answered by exactly one response.
CreateAnswered == (main.pc = "create") ~> (main.pc = "idle")
=============================================================================
