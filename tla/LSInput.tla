------------------------------ MODULE LSInput ------------------------------
(***************************************************************************)
(* The stdin side of Dragon Local Services, server.py: the input pump      *)
(* thread (watch_input, update_watch_set, InputConnector.forward/close),   *)
(* the main thread's SHFwdInput handler (fwd_input), and what they share:  *)
(* each child's stdin pipe and the process table.  create_process and      *)
(* watch_death appear only as far as they touch these: the spawn puts the  *)
(* child in the table and its InputConnector on new_channel_input_monitors;*)
(* the reaper pops the table entry and only later sets proc.returncode.    *)
(*                                                                         *)
(* A stdin channel carries data frames "d" and, once the peer closes it,   *)
(* the EOF frame "eof".  The stdin pipe holds at most PipeCap frames; a    *)
(* write to a full pipe blocks (Popen's stdin is a blocking FileIO).        *)
(***************************************************************************)
EXTENDS Naturals, Sequences, FiniteSets

CONSTANTS
    Procs,      \* children created with a stdin channel (stdin_msg given)
    NoProc,     \* model value: dead_connector is None
    Readers,    \* children that keep reading their stdin
    MaxData,    \* data frames a peer sends into one stdin channel, at most
    PipeCap,    \* frames a stdin pipe buffers before write blocks
    MaxReq      \* SHFwdInput requests the environment sends

ASSUME InputAssumptions ==
    /\ NoProc \notin Procs
    /\ Readers \subseteq Procs
    /\ MaxData \in Nat
    /\ PipeCap \in Nat \ {0}
    /\ MaxReq \in Nat

\* proc.stdin: an open file, a closed file object, or None.
StdinStates == {"open", "closed", "none"}
Frames == {"d", "eof"}
PumpPcs == {"update", "poll", "fwd", "check", "cfwd", "close", "stopped"}
MainPcs == {"idle", "lookup", "write", "respond", "dead"}

VARIABLES
    spawned,    \* the child exists (create_process ran)
    inTable,    \* its p_uid is in puid2pid / apt
    alive,      \* the child process has not exited
    rc,         \* proc.returncode is set (proc.wait(0) in watch_death)
    stdin,      \* the state of proc.stdin
    pipe,       \* frames in the child's stdin pipe not read yet
    chan,       \* frames in the child's stdin channel
    nsent,      \* data frames the peer sent
    peerClosed, \* the peer closed the channel (sent the EOF frame)
    dropped,    \* history: data frames the pump took off the channel and lost
    monQ,       \* queue new_channel_input_monitors
    conns,      \* the pump's set of connectors
    dead,       \* dead_connector
    connClosed, \* connectors whose close() ran
    pump,       \* the input pump: pc, the connector in hand, the EOF result
    main,       \* the main thread in fwd_input: pc, target, confirm, targ, err
    nreq,       \* SHFwdInput requests received
    writers,    \* history: which threads wrote into each child's stdin
    shutdown    \* shutdown_sig

childVars == <<spawned, inTable, alive, rc>>
chanVars == <<chan, nsent, peerClosed>>
pumpVars == <<monQ, conns, dead, connClosed, pump, dropped>>
vars == <<childVars, stdin, pipe, chanVars, pumpVars, main, nreq, writers, shutdown>>

NoMain == [pc |-> "idle", p |-> NoProc, confirm |-> FALSE, targ |-> FALSE, err |-> FALSE]

Init ==
    /\ spawned = [p \in Procs |-> FALSE]
    /\ inTable = [p \in Procs |-> FALSE]
    /\ alive = [p \in Procs |-> FALSE]
    /\ rc = [p \in Procs |-> FALSE]
    /\ stdin = [p \in Procs |-> "none"]
    /\ pipe = [p \in Procs |-> 0]
    /\ chan = [p \in Procs |-> <<>>]
    /\ nsent = [p \in Procs |-> 0]
    /\ peerClosed = [p \in Procs |-> FALSE]
    /\ dropped = [p \in Procs |-> 0]
    /\ monQ = <<>>
    /\ conns = {}
    /\ dead = NoProc
    /\ connClosed = {}
    /\ pump = [pc |-> "update", cur |-> NoProc, eof |-> FALSE]
    /\ main = NoMain
    /\ nreq = 0
    /\ writers = [p \in Procs |-> {}]
    /\ shutdown = FALSE

QueuedProcs == {monQ[i] : i \in 1..Len(monQ)}

\* A write into p's stdin pipe from thread t succeeds.
PipeWrite(p, t) ==
    /\ pipe' = [pipe EXCEPT ![p] = @ + 1]
    /\ writers' = [writers EXCEPT ![p] = @ \cup {t}]

(***************************************************************************)
(* Environment: create_process, the peer on the channel, the children,     *)
(* the reaper, SHTeardown                                                  *)
(***************************************************************************)
\* Under apt_lock create_process starts the child with stdin=PIPE, inserts
\* it in the table and puts its InputConnector on new_channel_input_monitors.
Spawn(p) ==
    /\ ~spawned[p] /\ ~shutdown
    /\ spawned' = [spawned EXCEPT ![p] = TRUE]
    /\ inTable' = [inTable EXCEPT ![p] = TRUE]
    /\ alive' = [alive EXCEPT ![p] = TRUE]
    /\ stdin' = [stdin EXCEPT ![p] = "open"]
    /\ monQ' = Append(monQ, p)
    /\ UNCHANGED <<rc, pipe, chanVars, conns, dead, connClosed, pump, dropped, main, nreq,
                   writers, shutdown>>

PeerSend(p) ==
    /\ spawned[p] /\ ~peerClosed[p] /\ nsent[p] < MaxData
    /\ chan' = [chan EXCEPT ![p] = Append(@, "d")]
    /\ nsent' = [nsent EXCEPT ![p] = @ + 1]
    /\ UNCHANGED <<childVars, stdin, pipe, peerClosed, pumpVars, main, nreq, writers,
                   shutdown>>

\* The peer closes its end: the zero-length EOF frame.
PeerClose(p) ==
    /\ spawned[p] /\ ~peerClosed[p]
    /\ chan' = [chan EXCEPT ![p] = Append(@, "eof")]
    /\ peerClosed' = [peerClosed EXCEPT ![p] = TRUE]
    /\ UNCHANGED <<childVars, stdin, pipe, nsent, pumpVars, main, nreq, writers, shutdown>>

ChildRead(p) ==
    /\ alive[p] /\ pipe[p] > 0
    /\ pipe' = [pipe EXCEPT ![p] = @ - 1]
    /\ UNCHANGED <<childVars, stdin, chanVars, pumpVars, main, nreq, writers, shutdown>>

\* A child exits; what its stdin pipe held is gone.
ChildExit(p) ==
    /\ alive[p]
    /\ alive' = [alive EXCEPT ![p] = FALSE]
    /\ pipe' = [pipe EXCEPT ![p] = 0]
    /\ UNCHANGED <<spawned, inTable, rc, stdin, chanVars, pumpVars, main, nreq,
                   writers, shutdown>>

\* watch_death pops the record under apt_lock ...
ReapPop(p) ==
    /\ spawned[p] /\ ~alive[p] /\ inTable[p] /\ ~shutdown
    /\ inTable' = [inTable EXCEPT ![p] = FALSE]
    /\ UNCHANGED <<spawned, alive, rc, stdin, pipe, chanVars, pumpVars, main, nreq,
                   writers, shutdown>>

\* ... and after sending SHProcessExit calls proc.wait(0), which sets
\* proc.returncode.
ReapWait(p) ==
    /\ spawned[p] /\ ~inTable[p] /\ ~rc[p] /\ ~shutdown
    /\ rc' = [rc EXCEPT ![p] = TRUE]
    /\ UNCHANGED <<spawned, inTable, alive, stdin, pipe, chanVars, pumpVars, main,
                   nreq, writers, shutdown>>

\* SHTeardown sets shutdown_sig.
Teardown ==
    /\ main.pc = "idle" /\ ~shutdown
    /\ shutdown' = TRUE
    /\ UNCHANGED <<childVars, stdin, pipe, chanVars, pumpVars, main, nreq, writers>>


(***************************************************************************)
(* The input pump: watch_input (1140-1198), update_watch_set (1127-1138),  *)
(* InputConnector.forward (78-92) and close (104-120)                      *)
(***************************************************************************)
\* Top of the loop: stop on shutdown_sig, else drain new_channel_input_monitors
\* into the set and discard dead_connector.  With no connector the pump
\* sleeps and keeps dead_connector; otherwise it is reset before the poll.
PumpUpdate ==
    /\ pump.pc = "update"
    /\ IF shutdown
       THEN /\ pump' = [pump EXCEPT !.pc = "stopped"]
            /\ UNCHANGED <<monQ, conns, dead>>
       ELSE LET new == (conns \cup QueuedProcs) \ {dead}
            IN /\ conns' = new
               /\ monQ' = <<>>
               /\ dead' = IF new = {} THEN dead ELSE NoProc
               /\ pump' = [pump EXCEPT !.pc = IF new = {} THEN "update" ELSE "poll"]
    /\ UNCHANGED <<childVars, stdin, pipe, chanVars, connClosed, dropped, main, nreq,
                   writers, shutdown>>

\* channel_set.poll: a frame on some watched channel, or ChannelSetTimeout.
PumpPoll ==
    /\ pump.pc = "poll"
    /\ \/ /\ \A p \in conns : chan[p] = <<>>
          /\ pump' = [pump EXCEPT !.pc = "update"]
       \/ \E p \in conns :
            /\ chan[p] # <<>>
            /\ pump' = [pump EXCEPT !.pc = "fwd", !.cur = p]
    /\ UNCHANGED <<childVars, stdin, pipe, chanVars, monQ, conns, dead, connClosed,
                   dropped, main, nreq, writers, shutdown>>

\* Where forward() returns to: the check after the poll, or the rest of close().
AfterForward == IF pump.pc = "fwd" THEN "check" ELSE "close"

\* Mutant: a stdin left non-blocking; a full pipe raises BlockingIOError,
\* which the bare except swallows, and the frame is lost.
PumpForwardDropFull ==
    LET p == pump.cur IN
    /\ pump.pc \in {"fwd", "cfwd"}
    /\ \/ /\ chan[p] = <<>>
          /\ pump' = [pump EXCEPT !.pc = AfterForward, !.eof = FALSE]
          /\ UNCHANGED <<chan, pipe, writers, dropped>>
       \/ /\ chan[p] # <<>> /\ Head(chan[p]) = "eof"
          /\ chan' = [chan EXCEPT ![p] = Tail(@)]
          /\ pump' = [pump EXCEPT !.pc = AfterForward, !.eof = TRUE]
          /\ UNCHANGED <<pipe, writers, dropped>>
       \/ /\ chan[p] # <<>> /\ Head(chan[p]) = "d"
          /\ stdin[p] = "open" /\ alive[p] /\ pipe[p] < PipeCap
          /\ chan' = [chan EXCEPT ![p] = Tail(@)]
          /\ PipeWrite(p, "pump")
          /\ UNCHANGED <<pump, dropped>>
       \/ /\ chan[p] # <<>> /\ Head(chan[p]) = "d"
          /\ stdin[p] # "open" \/ ~alive[p] \/ pipe[p] = PipeCap
          /\ chan' = [chan EXCEPT ![p] = Tail(@)]
          /\ dropped' = [dropped EXCEPT ![p] = @ + 1]
          /\ pump' = [pump EXCEPT !.pc = AfterForward, !.eof = FALSE]
          /\ UNCHANGED <<pipe, writers>>
    /\ UNCHANGED <<childVars, stdin, nsent, peerClosed, monQ, conns, dead, connClosed,
                   main, nreq, shutdown>>

\* One turn of forward()'s loop: recv a frame and write it into stdin.  The
\* recv of the EOF frame raises EOFError and forward returns True.  A data
\* frame blocks while the pipe is full; a write that raises (BrokenPipeError
\* from a dead child, ValueError or AttributeError on a closed or None stdin)
\* is swallowed by the bare except, the frame is lost and forward returns
\* False.  An empty channel ends the loop with False.
PumpForward ==
    LET p == pump.cur IN
    /\ pump.pc \in {"fwd", "cfwd"}
    /\ \/ /\ chan[p] = <<>>
          /\ pump' = [pump EXCEPT !.pc = AfterForward, !.eof = FALSE]
          /\ UNCHANGED <<chan, pipe, writers, dropped>>
       \/ /\ chan[p] # <<>> /\ Head(chan[p]) = "eof"
          /\ chan' = [chan EXCEPT ![p] = Tail(@)]
          /\ pump' = [pump EXCEPT !.pc = AfterForward, !.eof = TRUE]
          /\ UNCHANGED <<pipe, writers, dropped>>
       \/ /\ chan[p] # <<>> /\ Head(chan[p]) = "d"
          /\ stdin[p] = "open" /\ alive[p] /\ pipe[p] < PipeCap
          /\ chan' = [chan EXCEPT ![p] = Tail(@)]
          /\ PipeWrite(p, "pump")
          /\ UNCHANGED <<pump, dropped>>
       \/ /\ chan[p] # <<>> /\ Head(chan[p]) = "d"
          /\ stdin[p] # "open" \/ ~alive[p]
          /\ chan' = [chan EXCEPT ![p] = Tail(@)]
          /\ dropped' = [dropped EXCEPT ![p] = @ + 1]
          /\ pump' = [pump EXCEPT !.pc = AfterForward, !.eof = FALSE]
          /\ UNCHANGED <<pipe, writers>>
    /\ UNCHANGED <<childVars, stdin, nsent, peerClosed, monQ, conns, dead, connClosed,
                   main, nreq, shutdown>>

\* Mutant: only a set returncode marks the connector dead; EOF is ignored.
PumpCheckIgnoreEOF ==
    LET p == pump.cur IN
    /\ pump.pc = "check"
    /\ IF rc[p]
       THEN /\ dead' = p
            /\ pump' = [pump EXCEPT !.pc = IF p \in connClosed THEN "update" ELSE "cfwd"]
       ELSE /\ pump' = [pump EXCEPT !.pc = "update"]
            /\ UNCHANGED dead
    /\ UNCHANGED <<childVars, stdin, pipe, chanVars, monQ, conns, connClosed, dropped,
                   main, nreq, writers, shutdown>>

\* After the poll: on EOF or a set returncode the connector becomes
\* dead_connector and is closed; close() returns at once if it already ran,
\* else it forwards what is pending.
PumpCheck ==
    LET p == pump.cur IN
    /\ pump.pc = "check"
    /\ IF pump.eof \/ rc[p]
       THEN /\ dead' = p
            /\ pump' = [pump EXCEPT !.pc = IF p \in connClosed THEN "update" ELSE "cfwd"]
       ELSE /\ pump' = [pump EXCEPT !.pc = "update"]
            /\ UNCHANGED dead
    /\ UNCHANGED <<childVars, stdin, pipe, chanVars, monQ, conns, connClosed, dropped,
                   main, nreq, writers, shutdown>>

\* The rest of close(): conn.close(), then stdin.flush() and stdin.close(),
\* whose errors on a closed or None stdin are swallowed.
PumpClose ==
    LET p == pump.cur IN
    /\ pump.pc = "close"
    /\ stdin' = [stdin EXCEPT ![p] = IF @ = "open" THEN "closed" ELSE @]
    /\ connClosed' = connClosed \cup {p}
    /\ pump' = [pump EXCEPT !.pc = "update"]
    /\ UNCHANGED <<childVars, pipe, chanVars, monQ, conns, dead, dropped, main, nreq,
                   writers, shutdown>>

(***************************************************************************)
(* The main thread: the SHFwdInput handler fwd_input (953-999), answered   *)
(* by main_loop when confirm is set                                        *)
(***************************************************************************)
RecvFwdInput(p, confirm) ==
    /\ main.pc = "idle" /\ ~shutdown /\ nreq < MaxReq
    /\ main' = [NoMain EXCEPT !.pc = "lookup", !.p = p, !.confirm = confirm]
    /\ nreq' = nreq + 1
    /\ UNCHANGED <<childVars, stdin, pipe, chanVars, pumpVars, writers, shutdown>>

\* Under apt_lock: the target must be in the table and have a stdin.
FwdLookup ==
    LET p == main.p
        err == ~inTable[p] \/ stdin[p] = "none"
    IN /\ main.pc = "lookup"
       /\ main' = [main EXCEPT !.pc = IF err THEN "respond" ELSE "write",
                               !.targ = inTable[p], !.err = err]
       /\ UNCHANGED <<childVars, stdin, pipe, chanVars, pumpVars, nreq, writers, shutdown>>

\* Mutant: the write is not guarded by select; it goes past a full pipe.
FwdWriteNoSelect ==
    LET p == main.p IN
    /\ main.pc = "write"
    /\ \/ /\ stdin[p] # "open"
          /\ main' = [main EXCEPT !.pc = "dead"]
          /\ UNCHANGED <<pipe, writers>>
       \/ /\ stdin[p] = "open" /\ alive[p]
          /\ PipeWrite(p, "main")
          /\ main' = [main EXCEPT !.pc = "respond"]
       \/ /\ stdin[p] = "open" /\ ~alive[p]
          /\ main' = [main EXCEPT !.pc = "respond", !.err = TRUE]
          /\ UNCHANGED <<pipe, writers>>
    /\ UNCHANGED <<childVars, stdin, chanVars, pumpVars, nreq, shutdown>>

\* register, select for writing with the 10 ms timeout, write.  register
\* (or a write) on a stdin the pump has closed raises ValueError, which no
\* except clause catches: the handler and main_loop end.  A write to a dead
\* child raises BrokenPipeError; a full pipe makes select time out.
FwdWrite ==
    LET p == main.p IN
    /\ main.pc = "write"
    /\ \/ /\ stdin[p] # "open"
          /\ main' = [main EXCEPT !.pc = "dead"]
          /\ UNCHANGED <<pipe, writers>>
       \/ /\ stdin[p] = "open" /\ alive[p] /\ pipe[p] < PipeCap
          /\ PipeWrite(p, "main")
          /\ main' = [main EXCEPT !.pc = "respond"]
       \/ /\ stdin[p] = "open" /\ (~alive[p] \/ pipe[p] = PipeCap)
          /\ main' = [main EXCEPT !.pc = "respond", !.err = TRUE]
          /\ UNCHANGED <<pipe, writers>>
    /\ UNCHANGED <<childVars, stdin, chanVars, pumpVars, nreq, shutdown>>

\* On an error the target's stdin is closed and set to None; then the
\* response (when confirm) is returned and main_loop sends it.
FwdRespond ==
    LET p == main.p IN
    /\ main.pc = "respond"
    /\ IF main.err /\ main.targ /\ stdin[p] # "none"
       THEN stdin' = [stdin EXCEPT ![p] = "none"]
       ELSE UNCHANGED stdin
    /\ main' = NoMain
    /\ UNCHANGED <<childVars, pipe, chanVars, pumpVars, nreq, writers, shutdown>>

(***************************************************************************)
(* The specification                                                       *)
(***************************************************************************)
MainStep == FwdLookup \/ FwdWrite \/ FwdRespond
PumpStep == PumpUpdate \/ PumpPoll \/ PumpForward \/ PumpCheck \/ PumpClose
ReaperStep == \E p \in Procs : ReapPop(p) \/ ReapWait(p)
Environment ==
    \/ Teardown
    \/ \E p \in Procs : \E c \in BOOLEAN : RecvFwdInput(p, c)
    \/ \E p \in Procs :
         \/ Spawn(p) \/ PeerSend(p) \/ PeerClose(p) \/ ChildRead(p) \/ ChildExit(p)

Next == MainStep \/ PumpStep \/ ReaperStep \/ Environment

\* The three LS threads are scheduled preemptively and the pump polls with
\* a 10 ms timeout; children in Readers keep reading their stdin.
Fairness ==
    /\ WF_vars(MainStep) /\ WF_vars(PumpStep) /\ WF_vars(ReaperStep)
    /\ \A p \in Readers : WF_vars(ChildRead(p))

Spec == Init /\ [][Next]_vars /\ Fairness

(***************************************************************************)
(* Properties                                                              *)
(***************************************************************************)
TypeOK ==
    /\ spawned \in [Procs -> BOOLEAN] /\ inTable \in [Procs -> BOOLEAN]
    /\ alive \in [Procs -> BOOLEAN] /\ rc \in [Procs -> BOOLEAN]
    /\ stdin \in [Procs -> StdinStates]
    /\ pipe \in [Procs -> 0..PipeCap]
    /\ chan \in [Procs -> Seq(Frames)]
    /\ nsent \in [Procs -> 0..MaxData]
    /\ peerClosed \in [Procs -> BOOLEAN]
    /\ dropped \in [Procs -> Nat]
    /\ monQ \in Seq(Procs)
    /\ conns \subseteq Procs /\ connClosed \subseteq Procs
    /\ dead \in Procs \cup {NoProc}
    /\ pump \in [pc : PumpPcs, cur : Procs \cup {NoProc}, eof : BOOLEAN]
    /\ main \in [pc : MainPcs, p : Procs \cup {NoProc}, confirm : BOOLEAN,
                 targ : BOOLEAN, err : BOOLEAN]
    /\ nreq \in 0..MaxReq
    /\ writers \in [Procs -> SUBSET {"pump", "main"}]
    /\ shutdown \in BOOLEAN

\* When the input pump closes a live child's stdin (InputConnector.close
\* after forward() returned True), the peer has closed the channel and every
\* data frame it sent has been written into the pipe: the child sees EOF
\* only after all of its input (spec: stdin forwarding, `cat` echoes the
\* bytes and then exits).
EOFAfterAllInput ==
    \A p \in Procs :
        stdin[p] = "closed" /\ alive[p] =>
            /\ peerClosed[p]
            /\ chan[p] = <<>>
            /\ dropped[p] = 0

\* Once the peer has closed a reading child's stdin channel, the input pump
\* eventually closes the child's stdin (so `cat` sees EOF), unless the child
\* exited, fwd_input closed the stdin first, or LS shut down.
StdinEOFDelivered ==
    \A p \in Readers :
        peerClosed[p] ~> (stdin[p] # "open" \/ ~alive[p] \/ shutdown)

\* The InputConnector is the single writer of its child's stdin (spec,
\* InputConnector: "Single-writer, single-reader").  fwd_input also writes
\* into the same stdin from the main thread.
SingleWriter ==
    \A p \in Procs : Cardinality(writers[p]) <= 1

\* Every SHFwdInput with confirm=true is answered (spec, invariants): the
\* handler started on a request returns to main_loop, which sends the answer.
FwdInputAnswered ==
    (main.pc = "lookup" /\ main.confirm) ~> (main.pc = "idle")

=============================================================================
