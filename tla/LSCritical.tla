----------------------------- MODULE LSCritical -----------------------------
(***************************************************************************)
(* The critical infrastructure children of Local Services on the primary   *)
(* node, Global Services (GS_PUID) and the Transport Agent, and how LS     *)
(* tells their orderly halt from a crash (server.py).  Three LS threads    *)
(* take part: the main loop handles GSHalted, TAHalted, SHHaltTA and       *)
(* SHTeardown and sets the latches; the reaper (watch_death) escalates the *)
(* death of a critical child whose latch is clear; the output pump         *)
(* (watch_output) reads GS's stdout, where a GSHalted may arrive instead   *)
(* of as a message, and drains the connectors the reaper hands over.  The  *)
(* launcher, GS and TA are the environment: the launcher's teardown        *)
(* sequence GSTeardown -> GSHalted -> SHHaltTA -> TAHalted -> SHTeardown,  *)
(* and a child may exit at any time.                                       *)
(***************************************************************************)
EXTENDS Naturals, Sequences

CONSTANT GSPrints   \* whether GS may write to stdout anything but GSHalted

ASSUME CriticalAssumptions == GSPrints \in BOOLEAN

Procs == {"gs", "ta"}
Msgs == {"GSHalted", "TAHalted", "SHHaltTA", "SHTeardown"}

VARIABLES
    life,     \* life[p]: "run", "exited" (a zombie) or "reaped"
    said,     \* said[p]: p announced its halt (GSHalted / TAHalted)
    printed,  \* GS wrote something other than GSHalted to stdout
    gsOut,    \* what GS wrote to its stdout pipe and LS has not read
    inbox,    \* LS's inbound channel
    taTold,   \* SHHaltTA forwarded to TA
    lstage,   \* the launcher's teardown sequence
    gsGone, taGone, shut,   \* the GS-gone, TA-gone and LS shutdown latches
    beGS,     \* GSHalted messages forwarded to the launcher back end
    beTA,     \* TAHalted forwarded to the launcher back end
    abnormal, \* an AbnormalTermination was sent to the launcher back end
    exits,    \* the children an SHProcessExit was sent for
    conn,     \* GS's stdout connector: "new" (in new_procs), "reg", "closed"
    exitedQ,  \* GS's stdout connector is in exited_channel_output_monitors
    pumpPc    \* the output pump: "select", "closing", "new", "exited", "dead"

vars == <<life, said, printed, gsOut, inbox, taTold, lstage, gsGone, taGone,
          shut, beGS, beTA, abnormal, exits, conn, exitedQ, pumpPc>>
env == <<life, said, printed, taTold, lstage>>
latches == <<gsGone, taGone, shut>>
pump == <<gsOut, conn, exitedQ, pumpPc>>

\* add_proc for GS and TA before run() starts the threads: both are in the
\* tables and GS's connector waits in new_procs.
Init ==
    /\ life = [p \in Procs |-> "run"]
    /\ said = [p \in Procs |-> FALSE]
    /\ printed = FALSE /\ gsOut = <<>> /\ inbox = <<>>
    /\ taTold = FALSE /\ lstage = "run"
    /\ gsGone = FALSE /\ taGone = FALSE /\ shut = FALSE
    /\ beGS = 0 /\ beTA = FALSE /\ abnormal = FALSE /\ exits = {}
    /\ conn = "new" /\ exitedQ = FALSE /\ pumpPc = "select"

(***************************************************************************)
(* The environment.                                                        *)
(***************************************************************************)
StartTeardown ==
    /\ lstage = "run" /\ lstage' = "gsTeardown"
    /\ UNCHANGED <<life, said, printed, taTold, inbox, latches, beGS, beTA, abnormal, exits, pump>>

SendHaltTA ==
    /\ lstage = "gsTeardown" /\ beGS > 0
    /\ lstage' = "haltTA" /\ inbox' = Append(inbox, "SHHaltTA")
    /\ UNCHANGED <<life, said, printed, taTold, latches, beGS, beTA, abnormal, exits, pump>>

SendTeardown ==
    /\ lstage # "teardown" /\ ((lstage = "haltTA" /\ beTA) \/ abnormal)
    /\ lstage' = "teardown" /\ inbox' = Append(inbox, "SHTeardown")
    /\ UNCHANGED <<life, said, printed, taTold, latches, beGS, beTA, abnormal, exits, pump>>

\* GS announces its halt on its channel to LS or, out of band, on stdout.
GSHalt ==
    /\ lstage # "run" /\ life["gs"] = "run" /\ ~said["gs"]
    /\ said' = [said EXCEPT !["gs"] = TRUE]
    /\ \/ inbox' = Append(inbox, "GSHalted") /\ UNCHANGED gsOut
       \/ gsOut' = Append(gsOut, "halted") /\ UNCHANGED inbox
    /\ UNCHANGED <<life, printed, taTold, lstage, latches, beGS, beTA, abnormal, exits, conn, exitedQ, pumpPc>>

GSPrint ==
    /\ GSPrints /\ life["gs"] = "run" /\ ~printed
    /\ printed' = TRUE /\ gsOut' = Append(gsOut, "text")
    /\ UNCHANGED <<life, said, taTold, lstage, inbox, latches, beGS, beTA, abnormal, exits, conn, exitedQ, pumpPc>>

TAHalt ==
    /\ taTold /\ life["ta"] = "run" /\ ~said["ta"]
    /\ said' = [said EXCEPT !["ta"] = TRUE] /\ inbox' = Append(inbox, "TAHalted")
    /\ UNCHANGED <<life, printed, taTold, lstage, latches, beGS, beTA, abnormal, exits, pump>>

Exit(p) ==
    /\ life[p] = "run" /\ life' = [life EXCEPT ![p] = "exited"]
    /\ UNCHANGED <<said, printed, taTold, lstage, inbox, latches, beGS, beTA, abnormal, exits, pump>>

Environment ==
    StartTeardown \/ SendHaltTA \/ SendTeardown \/ GSHalt \/ GSPrint \/ TAHalt
    \/ \E p \in Procs : Exit(p)

(***************************************************************************)
(* The main loop: one message per step while the shutdown latch is clear.  *)
(***************************************************************************)
Recv(m) == ~shut /\ inbox # <<>> /\ Head(inbox) = m /\ inbox' = Tail(inbox)

\* handle_gs_halted: set the GS-gone latch, forward to the launcher.
HandleGSHalted ==
    /\ Recv("GSHalted") /\ gsGone' = TRUE /\ beGS' = beGS + 1
    /\ UNCHANGED <<env, taGone, shut, beTA, abnormal, exits, pump>>

\* handle_ta_halted
HandleTAHalted ==
    /\ Recv("TAHalted") /\ taGone' = TRUE /\ beTA' = TRUE
    /\ UNCHANGED <<life, said, printed, taTold, lstage, gsGone, shut, beGS, abnormal, exits, pump>>

\* handle_halting_ta: forward SHHaltTA to TA.
HandleHaltingTA ==
    /\ Recv("SHHaltTA") /\ taTold' = TRUE
    /\ UNCHANGED <<life, said, printed, lstage, latches, beGS, beTA, abnormal, exits, pump>>

\* teardown_ls
TeardownLS ==
    /\ Recv("SHTeardown") /\ shut' = TRUE
    /\ UNCHANGED <<env, gsGone, taGone, beGS, beTA, abnormal, exits, pump>>

MainStep == HandleGSHalted \/ HandleTAHalted \/ HandleHaltingTA \/ TeardownLS

(***************************************************************************)
(* watch_death for one reaped child: pop it, send SHProcessExit unless it  *)
(* is GS, escalate a critical death whose latch is clear, and hand GS's    *)
(* stdout connector to the output pump.                                    *)
(***************************************************************************)
\* Mutant: the escalation without the GS branch.
WatchDeathNoGSEscalation(p) ==
    /\ ~shut /\ life[p] = "exited"
    /\ life' = [life EXCEPT ![p] = "reaped"]
    /\ exits' = IF p = "gs" THEN exits ELSE exits \cup {p}
    /\ abnormal' = (abnormal \/ (p = "ta" /\ ~taGone))
    /\ exitedQ' = (exitedQ \/ p = "gs")
    /\ UNCHANGED <<said, printed, taTold, lstage, inbox, latches, beGS, beTA, gsOut, conn, pumpPc>>

WatchDeath(p) ==
    /\ ~shut /\ life[p] = "exited"
    /\ life' = [life EXCEPT ![p] = "reaped"]
    /\ exits' = IF p = "gs" THEN exits ELSE exits \cup {p}
    /\ abnormal' = (abnormal \/ (p = "gs" /\ ~gsGone) \/ (p = "ta" /\ ~taGone))
    /\ exitedQ' = (exitedQ \/ p = "gs")
    /\ UNCHANGED <<said, printed, taTold, lstage, inbox, latches, beGS, beTA, gsOut, conn, pumpPc>>

ReaperStep == \E p \in Procs : WatchDeath(p)

(***************************************************************************)
(* watch_output, one step per stage of its loop.  A read takes whatever    *)
(* part of the pipe is there; any data on GS's stdout raises               *)
(* TerminationException, which the select loop catches and the close()     *)
(* calls do not.  An exception that leaves the thread reaches              *)
(* _logging_ex_handler, which sends AbnormalTermination.                   *)
(***************************************************************************)
Readable == conn = "reg" /\ (gsOut # <<>> \/ life["gs"] # "run")

\* Mutant: every TerminationException taken for a GSHalted, unparsed.
PumpSelectNoParse ==
    /\ pumpPc = "select" /\ ~shut
    /\ \/ ~Readable /\ pumpPc' = "new" /\ UNCHANGED <<gsOut, conn, gsGone, beGS, abnormal>>
       \/ /\ Readable /\ gsOut = <<>>
          /\ conn' = "closed" /\ pumpPc' = "new"
          /\ UNCHANGED <<gsOut, gsGone, beGS, abnormal>>
       \/ /\ Readable
          /\ \E n \in 1..Len(gsOut) :
                /\ gsOut' = SubSeq(gsOut, n + 1, Len(gsOut))
                /\ IF TRUE
                   THEN /\ gsGone' = TRUE /\ beGS' = beGS + 1
                        /\ pumpPc' = "closing" /\ UNCHANGED abnormal
                   ELSE /\ abnormal' = TRUE /\ pumpPc' = "new"
                        /\ UNCHANGED <<gsGone, beGS>>
          /\ UNCHANGED conn
    /\ UNCHANGED <<env, inbox, taGone, shut, beTA, exits, exitedQ>>

\* select, then flush() of GS's stdout if it is ready.
PumpSelect ==
    /\ pumpPc = "select" /\ ~shut
    /\ \/ ~Readable /\ pumpPc' = "new" /\ UNCHANGED <<gsOut, conn, gsGone, beGS, abnormal>>
       \/ /\ Readable /\ gsOut = <<>>
          /\ conn' = "closed" /\ pumpPc' = "new"
          /\ UNCHANGED <<gsOut, gsGone, beGS, abnormal>>
       \/ /\ Readable
          /\ \E n \in 1..Len(gsOut) :
                /\ gsOut' = SubSeq(gsOut, n + 1, Len(gsOut))
                /\ IF SubSeq(gsOut, 1, n) = <<"halted">>
                   THEN /\ gsGone' = TRUE /\ beGS' = beGS + 1
                        /\ pumpPc' = "closing" /\ UNCHANGED abnormal
                   ELSE /\ abnormal' = TRUE /\ pumpPc' = "new"
                        /\ UNCHANGED <<gsGone, beGS>>
          /\ UNCHANGED conn
    /\ UNCHANGED <<env, inbox, taGone, shut, beTA, exits, exitedQ>>

\* On EOF after GSHalted: unregister and close(), whose flush() blocks on
\* the pipe until GS writes again or exits.
PumpClose ==
    /\ pumpPc = "closing" /\ (gsOut # <<>> \/ life["gs"] # "run")
    /\ conn' = "closed" /\ gsOut' = <<>>
    /\ IF gsOut = <<>> THEN pumpPc' = "new" /\ UNCHANGED abnormal
                       ELSE pumpPc' = "dead" /\ abnormal' = TRUE
    /\ UNCHANGED <<env, inbox, latches, beGS, beTA, exits, exitedQ>>

\* The new_procs drain: add_proc_streams registers GS's stdout.
PumpDrainNew ==
    /\ pumpPc = "new" /\ ~shut
    /\ conn' = IF conn = "new" THEN "reg" ELSE conn
    /\ pumpPc' = "exited"
    /\ UNCHANGED <<env, inbox, latches, beGS, beTA, abnormal, exits, gsOut, exitedQ>>

\* The exited-connector drain: unregister (KeyError if never registered,
\* ValueError, caught, if already closed), then close(), which flushes.
PumpDrainExited ==
    /\ pumpPc = "exited"
    /\ exitedQ' = FALSE
    /\ CASE ~exitedQ \/ conn = "closed" ->
              pumpPc' = "select" /\ UNCHANGED <<conn, gsOut, abnormal>>
         [] conn = "reg" /\ gsOut = <<>> ->
              pumpPc' = "select" /\ conn' = "closed" /\ UNCHANGED <<gsOut, abnormal>>
         [] OTHER ->
              pumpPc' = "dead" /\ abnormal' = TRUE /\ conn' = "closed"
              /\ gsOut' = <<>>
    /\ UNCHANGED <<env, inbox, latches, beGS, beTA, exits>>

PumpStep == PumpSelect \/ PumpClose \/ PumpDrainNew \/ PumpDrainExited

Next == Environment \/ MainStep \/ ReaperStep \/ PumpStep

\* The three LS threads are preemptively scheduled and poll with a timeout;
\* the launcher, GS and TA get no fairness.
Spec == Init /\ [][Next]_vars
        /\ WF_vars(MainStep) /\ WF_vars(ReaperStep) /\ WF_vars(PumpStep)


-----------------------------------------------------------------------------
(***************************************************************************)
(* Spec 4.4, critical-death escalation: a critical child that dies without *)
(* having announced its halt is eventually reported to the launcher with   *)
(* AbnormalTermination.  It rests on watch_death's latch checks and on the *)
(* latches being set only by the halts the children announce, whatever     *)
(* the launcher, GS and TA do meanwhile.                                   *)
(***************************************************************************)
CriticalDeathEscalated ==
    \A p \in Procs : (life[p] = "exited" /\ ~said[p]) ~> abnormal

(***************************************************************************)
(* Spec 7 scenario 3 (GS halted via stdout) and 4.4: an orderly halt       *)
(* raises no AbnormalTermination.  One is sent only when a critical child  *)
(* died unannounced or GS wrote something other than GSHalted to stdout;  *)
(* the reaper and the output pump must agree on when GS has halted.        *)
(***************************************************************************)
NoFalseAbnormal ==
    abnormal => printed \/ \E p \in Procs : life[p] # "run" /\ ~said[p]

(***************************************************************************)
(* Spec 5, ordering: GSHalted is delivered to the launcher, whether it     *)
(* arrives as a message or is parsed from GS's stdout.                     *)
(***************************************************************************)
GSHaltedForwarded == said["gs"] ~> beGS > 0

(***************************************************************************)
(* Spec 4.4 step 3: watch_death sends an SHProcessExit for every child it  *)
(* reaps from the process table.                                           *)
(***************************************************************************)
ExitForEveryReaped == \A p \in Procs : life[p] = "reaped" => p \in exits

(***************************************************************************)
(* The latches are sound: LS takes GS or TA for halted only after that     *)
(* child announced its halt, on the LS channel or on GS's stdout; the      *)
(* output pump must parse what GS wrote before it sets the GS-gone latch.  *)
(* watch_death's escalation relies on it.                                  *)
(***************************************************************************)
LatchesSound == (gsGone => said["gs"]) /\ (taGone => said["ta"])

\* Every variable holds a value of its type.
TypeOK ==
    /\ life \in [Procs -> {"run", "exited", "reaped"}]
    /\ said \in [Procs -> BOOLEAN]
    /\ gsOut \in Seq({"halted", "text"})
    /\ inbox \in Seq(Msgs)
    /\ lstage \in {"run", "gsTeardown", "haltTA", "teardown"}
    /\ printed \in BOOLEAN /\ taTold \in BOOLEAN /\ beTA \in BOOLEAN
    /\ gsGone \in BOOLEAN /\ taGone \in BOOLEAN /\ shut \in BOOLEAN
    /\ abnormal \in BOOLEAN /\ exitedQ \in BOOLEAN
    /\ beGS \in Nat
    /\ exits \subseteq Procs
    /\ conn \in {"new", "reg", "closed"}
    /\ pumpPc \in {"select", "closing", "new", "exited", "dead"}
====
