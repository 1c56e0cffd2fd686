# Formal model of Dragon Local Services and the launcher's argument parsing

This directory holds TLA+ models of the Local Services (LS) process in
`src/src/dragon/localservices/server.py` and of the launcher's command-line
front end in `src/src/dragon/launcher/launchargs.py`. It has TLC
configurations that model-check the models on small instances, and TLAPS
proofs of the main safety invariants for every instance.

## 1. The system

LS is one Python process. It runs four threads that share state:

| Thread | Code | Role |
|---|---|---|
| Main dispatch | `main_loop` 584-618 and its `@route` handlers | Receives requests and answers them. Handles `SHProcessCreate`, `SHProcessKill`, `SHTeardown`, pools, channels and `FwdInput`. |
| Death reaper | `watch_death` 1049-1125 | Calls `waitpid(0, WNOHANG)`. Pops the record from `apt` and `puid2pid` under `apt_lock`. Sends `SHProcessExit`. Queues the child's stdout and stderr connectors on `exited_channel_output_monitors`. |
| Output pump | `watch_output` 1201-1303 and `OutputConnector` 137-292 | Selects over the children's stdout and stderr pipes. Flushes up to `FwdOutput.MAX` per read to a channel or to the launcher. Registers new children from `new_procs`. Unregisters and closes the connectors the reaper hands it. |
| Input pump | `watch_input` 1140-1198 | Forwards channel data to the children's stdin. |

The threads are connected as follows:
- The main thread and the reaper share the process table (`apt`, `puid2pid`), and both hold `apt_lock` when they change it.
- The main thread and the reaper each feed the output pump through a `SimpleQueue`.
- `run()` (495-581) starts the workers and runs `main_loop` until the shutdown latch is set or the loop raises. It then joins the workers with a timeout but does not stop them, and sends `SHHaltBE`. After that, `cleanup()` (456-479) kills and reaps the children that are still alive.

### Inventory

| Component | Source | Module | Status |
|---|---|---|---|
| Process manager (create/kill, table) | server.py 742-951 | LSProcesses | modelled except stdin, PMI, env |
| Death reaper | server.py 1049-1125 | LSProcesses, LSCritical | modelled; critical escalation and GS_PUID in LSCritical |
| Output pump, OutputConnector | server.py 137-292, 1201-1303 | LSProcesses, LSCritical | modelled except the orphan fallback; GS stdout parsing in LSCritical |
| Shutdown: latches, terminal sequence, cleanup | server.py 381-400, 432-580, 1007-1032 | LSProcesses, LSCritical | modelled except gateway channel destruction |
| Resource manager (pools, channels) | server.py 637-740, 775-848, 456-479 | ResourceTable, LSResources | modelled except gateway channels and the input pump's pool |
| Input pump, InputConnector, fwd_input | server.py 64-135, 953-999, 1127-1198 | LSInput | modelled except `FwdInput.MAX` truncation and the exception path of `watch_input` |
| Launcher arguments | launcher/launchargs.py 101-217 | LaunchArgs | ports, node count, host list and host file, hostname check; not the network, WLM, transport and log options |
| options.py, mpbridge/sharedctypes.py | — | — | not modelled (data holders and wrappers) |

## 2. Modules

### `LSProcesses.tla`: the process side

**Data abstraction.**
- A child's output on one stream is a count of units: `wrote` counts what the child wrote and `fwd` counts what the pump read and forwarded.
- One `read(FwdOutput.MAX)` returns at most `ReadMax` units. Popen is called with `bufsize=0`, so `read` returns only what is in the pipe.
- The model does not keep message contents. For each pid, `told` records three facts:
  - whether the ProcessCreateResponse was sent;
  - how many `SHProcessExit` were sent;
  - whether an exit or an `FwdOutput` for the pid went out *before* the response.
- `abnTerms` counts `AbnormalTermination` messages. `haltBE` records `SHHaltBE`.

**State and actions.** Each action names the code it models in a comment.
- Main thread: the `main.pc` field steps through the handler.
  - `RecvCreate`, `RecvKill`, `Teardown` receive a request.
  - `CreateDup` is the duplicate-p_uid return.
  - `CreateFail` covers a failed channel creation or an `OSError` from Popen. Fork fails once every pid is in use.
  - `CreateCrash` is the `AttributeError` at line 811.
  - `CreateSpawn` is Popen plus the insert under `apt_lock`. The OS may pick any free pid.
  - `CreatePut` is `new_procs.put`.
  - `CreateRespond` is the response that `main_loop` sends after the handler returns.
  - `KillDeliver` is `os.kill`.
  - `SendHaltBE` and `Cleanup` are the terminal sequence.
- Reaper:
  - `ReapWait` is `waitpid`.
  - `ReapHandle` pops both tables under the lock, sends the exit and queues both connectors.
- Output pump: `PumpSelect`, then `PumpFlush` per ready connector, `PumpFlushDone`, the `new_procs` drain (`PumpAddProc`, `PumpNewDone`), and the exited drain (`PumpExited`, `PumpExitedDone`).
  - `PumpExited` has three disjuncts, one for each outcome of `unregister` followed by `close`:
    - `ValueError` on a `None` or closed file ends the drain.
    - Normal case: `close()` flushes **once** and closes.
    - `KeyError` on a file that was never registered kills the thread. The excepthook reports it as `AbnormalTermination`.
- Children (environment): `ChildWrite` and `ChildExit`.

**Constants.**
- `Puids`, `MaxPid`, `MaxOut`, `ReadMax`, `MaxReq` are bounds.
- `StdioReqs` is the set of stdout/stderr dispositions requests may carry:
  - stdout is `chan` (a channel), `be` (launcher) or `devnull`;
  - stderr is `pipe`, `devnull` or `stdout`.
- `Assumptions` gives each constant the weakest type the proofs need.

**Simplification.** The model sends stderr to the launcher whenever it is piped; a stderr channel (`stderr_msg`) is not modelled. This affects only which `FwdOutput` counts as "to the launcher" in `CreateResponseFirst`.

**Fairness.** `WF` on each of the three LS threads (`MainStep`, `ReaperStep`, `PumpStep`). They are preemptively scheduled Python threads that loop with a 10 ms poll, so a thread whose step stays enabled does take it. Requests and children are the environment and get no fairness.

### `LSInput.tla`: the stdin side

This module models the input pump `watch_input` (1140-1198), `update_watch_set` (1127-1138), `InputConnector` (64-135) and the main thread's `fwd_input` handler (953-999). It also models what they share: each child's stdin pipe and the process table.

**Data abstraction.**
- A stdin channel is a sequence of frames. `"d"` is a data frame, and `"eof"` is the frame the peer sends when it closes the channel.
- The stdin pipe is a count of unread frames, capped at `PipeCap`. A write to a full pipe blocks, because Popen's stdin is a blocking file.
- `proc.stdin` is `"open"`, `"closed"`, or `"none"` once `fwd_input` has set it to `None`.
- Two history variables feed the properties. `dropped` counts data frames the pump took off a channel and lost. `writers` records which threads wrote into each pipe.

**State and actions.**
- Environment:
  - `Spawn` covers `create_process` as far as stdin goes: table insert, open stdin, and the connector queued on `new_channel_input_monitors`.
  - `PeerSend` and `PeerClose` are the remote peer.
  - `ChildRead` and `ChildExit` are the child. An exit empties the pipe.
  - `ReapPop` pops the table entry. `ReapWait` later sets `returncode`. These are two steps of `watch_death`.
  - `Teardown` sets `shutdown_sig`.
- Input pump: `pump.pc` steps through the loop.
  - `PumpUpdate` is `update_watch_set`. It drains the queue, drops `dead_connector` and clears it only when the new set is non-empty.
  - `PumpPoll` is the poll, either with a timeout or returning a ready channel.
  - `PumpForward` is one frame of `forward()`. It has four disjuncts: an empty channel, EOF, a write that may block, and a frame dropped because stdin is closed or the child is gone. The `ValueError` and `BrokenPipeError` that `forward()` swallows are in the last one.
  - `PumpCheck` is the `eof or proc.returncode` test that marks the connector dead.
  - `PumpClose` is `InputConnector.close()`.
- Main thread, `fwd_input`:
  - `RecvFwdInput` receives the request.
  - `FwdLookup` reads the table under `apt_lock`.
  - `FwdWrite` is the `select` followed by `write`. If the pump has already closed stdin, the uncaught `ValueError` at 970 kills the main loop (`pc = "dead"`).
  - `FwdRespond` closes stdin and sets it to `None` on error, then answers.

**Constants.** The constants are `Procs`, `NoProc` (a model value for `dead_connector = None`), `Readers`, `MaxData`, `PipeCap` and `MaxReq`. `Readers` is the set of children that keep reading their stdin. `InputAssumptions` types them.

**Fairness.**
- `WF` on the three threads (main, pump, reaper), for the same reason as in `LSProcesses`.
- `WF` on `ChildRead(p)` only for `p \in Readers`. A child that never reads its stdin is legal, and it is what makes a blocking write a hazard.

**Deadlock.** The configurations set `CHECK_DEADLOCK FALSE`. After teardown the pump stops, the main loop exits, and the model really does stop.

### `ResourceTable.tla` and `LSResources.tla`: pools and channels

`ResourceTable` is the abstract specification of what the resource manager
promises. Its state is the set of pools that exist and, for every c_uid, the
pool its channel lives in (or `NoPool`). It has four actions:
- `CreatePool` and `DestroyPool`; destroying a pool takes its channels with it;
- `CreateChannel`, which needs a free c_uid and an existing pool;
- `DestroyChannel`.

`LSResources` models the code.
- `pools` is the key set of `self.pools`. `chans` is `self.channels`.
- `live` is what really exists in memory. It differs from `chans` in two ways: `destroy_pool` (672) frees the channels inside the pool but leaves their entries, and the PMI launch channel (847) is allocated without entering the table.
- The main thread's `main.pc` steps through `create_process`: `CreateStdin`, `CreateStdout`, `CreateStderr`, `CreatePmod` and `CreatePopen`. Each one can return early, so each is one step.
- The table handlers are one step each: `PoolCreate`, `PoolDestroy`, `ChannelCreate` and `ChannelDestroy`.
- `Teardown` and `Crash` are the two ways out of the main loop. The cleanup loops are `CleanupChannel`, `CleanupChansDone`, `CleanupPool` and `CleanupDone`.

**Refinement.** `R == INSTANCE ResourceTable WITH CUids <- AllCUids, chans <- live`
maps the live resources onto the abstract table. `ResourceRefinement == R!Spec`
is checked by TLC and proved by TLAPS.

### `LSCritical.tla`: GS, TA and the halt latches

This module covers the critical infrastructure children on the primary node,
Global Services and the Transport Agent, and how LS tells their orderly halt
from a crash.

**Environment.** The launcher's teardown sequence is `StartTeardown`,
`SendHaltTA` and `SendTeardown`. The last one can also follow an
`AbnormalTermination`. The other environment actions are `GSHalt` (on the LS
channel or on stdout), `GSPrint`, `TAHalt` and `Exit(p)` at any time. These
actions come from the spec, since that code is not in this repository.

**Main loop.**
- `HandleGSHalted` (1007-1012) sets the GS-gone latch and forwards the message.
- `HandleTAHalted` (1027-1032) sets the TA-gone latch and forwards the message.
- `HandleHaltingTA` (1020-1025) forwards SHHaltTA to TA.
- `TeardownLS` (1014-1018) sets the shutdown latch.

**Reaper.** `WatchDeath(p)` (1067-1121) does the following:
- sends no `SHProcessExit` for GS (1083);
- escalates the death of GS or TA when the shutdown latch and that child's own latch are both clear;
- queues GS's stdout connector for the pump.

**Output pump.**
- `PumpSelect` (1248-1278) is select plus `flush()`. Any data on GS's stdout raises `TerminationException`. Exactly one parsed `GSHalted` is handled as the message; anything else is escalated.
- `PumpClose` (231-264) is the `close()` after a handled `GSHalted`. Its `flush()` blocks until GS writes again or exits.
- `PumpDrainNew` is the new_procs drain.
- `PumpDrainExited` (1292-1300) is the exited-connector drain. Its `close()` lets a `TerminationException` out of the thread, and `_logging_ex_handler` turns that into an `AbnormalTermination`.

**Fairness.** `WF` on the three LS threads, as in `LSProcesses`. The launcher,
GS and TA get none. `GSPrints` says whether GS may write something other than
`GSHalted` to stdout.

### `LaunchArgs.tla`: the launcher's command line

Text is a sequence of characters.
- `"a"` stands for any letter or digit, which the validator treats alike.
- `"NL"` is the newline, the only whitespace character of the model.
- Python's `str.split`, `str.strip` and `readlines` are modelled by what they do (`SplitAt`, `Strip`, `ReadLines`).
- `LabelOK` is `re.match` of the label regex, including `$` matching before a final newline.
- `IsHostnameValid` returns `"valid"`, `"invalid"` or `"IndexError"`. The last one is for `hostname[-1]` on the empty name.
- `SpecHostname` is the specification's rule, written independently as the reference.

The actions are `GetArgs`, `ParseHostsStart`, `CheckHost` and `HostsDone`:
- `GetArgs` covers the validators, which exit through argparse, and the label override.
- `ParseHostsStart` covers the missing source, the comma split, and the host file read, failing or not.
- `CheckHost` and `HostsDone` are the check loop.

The 255 and 63 limits are scaled to `NameMax = 3` and `LabelMax = 2`, so that
names of up to four characters reach both limits.

### `MC_LSProcesses.tla`: model-checking instance

This module defines the stdio request sets used by the configurations:
- `MC_StdioReqs`: all nine dispositions.
- `MC_LiveStdioReqs`: three shapes, one of them the crashing one.

### `LSProcesses_proofs.tla`: TLAPS proofs

See §4.

## 3. Runs

| Run | cfg | Expect | What it shows |
|---|---|---|---|
| ls_safety | MC_LSProcesses.cfg | pass | `TypeOK`; `TableConsistent` (puid2pid and apt agree); `ExitAccounting` (at most 1 exit per child, and before cleanup a spawned child is in the table iff its exit is unsent); `ExitOnlyAfterDeath`, an action property: a step that sends an `SHProcessExit` does so for a pid `waitpid` reaped and that is still in the table, and pops it (no exit for a live child, an unknown pid, or after `cleanup()`). |
| ls_liveness | MC_LSLive.cfg | pass | `ExitReported` (a dead child in the table is eventually reported, unless shutdown); `ConnectorsClosed` (each piped stream of a dead child is eventually closed, unless the pump stopped or died). |
| ls_pump_keyerror | MC_LS_OutputPumpAlive.cfg | violation | A child that exits before the pump registered it kills the output pump with a `KeyError` (1295). |
| ls_create_crash | MC_LS_CreateAnswered.cfg | violation | `stderr=STDOUT` without a stdout channel crashes `create_process` at 811, and the request is never answered. |
| lsi_safety | MC_LSInput.cfg | pass | `TypeOK`; `EOFAfterAllInput` (a live child's stdin is closed only after every frame sent before EOF was written, none dropped); `StdinEOFDelivered` (a reading child's stdin is eventually closed after its peer closes the channel, unless the child died or LS shut down). |
| lsi_fwd_crash | MC_LSI_FwdInputAnswered.cfg | violation | The pump closes stdin on EOF between `fwd_input`'s lookup and its `select`. `fh.fileno()` then raises `ValueError` (970), the main loop dies, and the request is never answered. |
| lsr_safety | MC_LSResources.cfg | pass | `ResourceRefinement` (the live pools and channels behave as the abstract `ResourceTable`); `CleanupReleasesAll` (after `cleanup()` nothing is allocated, including the PMI channels and the helper channels of failed creates). |
| lsr_pmi_crash | MC_LSR_CreateAnswered.cfg | violation | A ProcessCreate with PMI info after `SHPoolDestroy` of the infrastructure pool, or a second one for the same job and rank, raises out of `create_process` (847). |
| la_hosts | MC_LaunchArgs.cfg | pass | `AcceptedHostsValid` and `RejectionJustified`: for every host list and host file of up to 4 characters over `a - . ,` and, in files, newlines, `parse_hosts` accepts exactly the lists the specification's rule accepts. |
| la_port | MC_LA_PortInRange.cfg | violation | `valid_port_int` accepts port 65536 (115). |
| lsc_escalation | MC_LSCritical.cfg | pass | `LatchesSound` (a latch is set only after the child announced its halt); `CriticalDeathEscalated` (an unannounced death of GS or TA always ends in `AbnormalTermination`) |
| lsc_false_abnormal | MC_LSC_NoFalseAbnormal.cfg | violation | GS sends `GSHalted` and exits, and the reaper runs before the main loop handles the message. The orderly halt is reported as `AbnormalTermination` (1094). |

**Further divergences.** These configurations each check one property that
TLC finds violated. Their runs are not in the run list of PROJECT.json,
because that list keeps the ones above. Run them with `tlc -config <cfg> <MC
module>`:

| cfg | Property | What TLC shows |
|---|---|---|
| MC_LS_CreateResponseFirst.cfg | `CreateResponseFirst` | The reaper sends `SHProcessExit` before `main_loop` sends the ProcessCreateResponse (912, spec §5 and §8). |
| MC_LS_OutputComplete.cfg | `OutputComplete` | The exited-connector drain closes after a single `MAX` read, and the child's remaining output is lost (235). |
| MC_LSI_SingleWriter.cfg | `SingleWriter` | `fwd_input` writes into the same stdin pipe as the pump's `InputConnector`, which the spec calls the single writer (979). |
| MC_LSI_HeadOfLine.cfg | `StdinEOFDelivered` | With a child that never reads its stdin, the pump's blocking `write` (82) stops another child's EOF. |
| MC_LSR_ChannelInLivePool.cfg | `ChannelInLivePool` | `destroy_pool` leaves the entries of the pool's channels in `self.channels` (672). |
| MC_LA_HostErrors.cfg | `HostErrorsDocumented` | An empty host name raises `IndexError` at `hostname[-1]` (124). The empty name comes from a blank host-file line or a trailing comma in `--hostlist`. |
| MC_LA_NewlineHost.cfg | `AcceptedHostsValid` | With newlines allowed in `--hostlist`, `"a\n.b"` is accepted, because `$` matches before a final newline (126). |
| MC_LSC_GSHaltedForwarded.cfg | `GSHaltedForwarded` | A `GSHalted` on GS's stdout is never forwarded when the reaper's false alarm leads the launcher to send `SHTeardown` before the pump reads the pipe (1260). |
| MC_LSC_ExitForEveryReaped.cfg | `ExitForEveryReaped` | No `SHProcessExit` is sent for GS (1083). |

**Bounds.**
- `LSInput` runs: two children, one data frame per channel, `PipeCap = 1`, one `FwdInput` request. That is about 820k distinct states in about 70 s. With a one-frame pipe, a single frame from the main thread is enough to make the pump's next write block. One request is enough for the lookup/close race. Every `PumpForward` disjunct and both `FwdWrite` outcomes fire. With two frames and two requests the run takes more than 15 minutes.
- Safety run: one p_uid, two pids, three requests, every disposition, one unit of output per stream, `ReadMax = 1`. That is about 10.6M distinct states in under 2 minutes. It is enough for these cases:
  - a p_uid to be created, reaped and created again on a fresh pid;
  - a duplicate create;
  - a kill of a live or already-reaped child;
  - a create that fails when every pid is in use;
  - teardown at any point.
- Liveness run: two requests, to keep the fair-cycle search small.
- `MC_LS_OutputComplete.cfg`: `MaxOut = 2 > ReadMax`, because more output must be pending than one read takes.
- `LSResources` runs: two pools (`m1` is the initial pool and the infrastructure pool), two request c_uids, one PMI c_uid, and six requests. With six requests a pool can be created, filled, destroyed and recreated, a create_process can fail after its first helper channel, and the PMI channel can be allocated twice.
- `LaunchArgs` runs: text of up to 4 characters, names of up to `NameMax = 3` characters, labels of up to `LabelMax = 2`, and ports 1023, 1024, 65535 and 65536 (both ends of the range, and one past each). `MC_LaunchArgs.tla` gives the node counts -1 and 0, which a cfg cannot write. A 4-character text holds a name one past `NameMax`, a label one past `LabelMax`, the trailing dot, two labels, an empty entry and a newline. That is about 139k distinct states in seconds. `ListChars` has no newline in `la_hosts`: a value passed on the command line rarely holds one, and `MC_LA_NewlineHost.cfg` shows what happens when it does.
- `LSCritical` runs: one GS and one TA, each halting and printing at most once, and the whole teardown sequence. That is about 4.7k distinct states, in which every order of halt, exit, reap, read and teardown occurs.

Every action and every disjunct of `PumpExited` fires in the passing runs. The ValueError branch needs a connector without a pipe or one already closed. The KeyError branch needs an exit before registration.

Each property of a passing run has a mutant in PROJECT.json that TLC finds violated:
- `FlushOnceFullBlock`
- `CreateSpawnNoPuidMap`
- `ReapHandleNoPop`
- `ReapHandleNoSkip`: an unknown pid is not skipped; the exit is sent with the record the pid last had.
- `ReapWaitDropped`
- `PumpExitedNoClose`
- `FwdWriteNoSelect`, `PumpForwardDropFull`, `PumpCheckIgnoreEOF` (`LSInput`)
- `CreateChannelNoInUse`: a c_uid bound twice. `CleanupChansDoneSkipPools`: cleanup without `clean_pools`. (`LSResources`)
- `LabelOKNoLookbehind`: the regex without `(?<!-)`. `IsHostnameValidNoStrip`: no trailing-dot strip. (`LaunchArgs`)
- `PumpSelectNoParse`: any GS output taken for `GSHalted`. `WatchDeathNoGSEscalation`: the GS branch of the escalation dropped. (`LSCritical`)

## 4. Proofs

Proved in `LSProcesses_proofs.tla` with TLAPS, for every value of the constants satisfying `Assumptions`:

- `TypeCorrect`: `Spec => []TypeOK`.
- `TableInvariant`: `Spec => []TableConsistent`.
- `ExitAccountingInvariant`: `Spec => []ExitAccounting`.
- `ExitOnlyAfterDeathHolds`: `Spec => ExitOnlyAfterDeath`, the action property.

The first three rest on `IInv == TypeOK /\ FwdBounded /\ AptSpawned /\ MainPuid /\ MainPid /\ TableConsistent`:
- `FwdBounded` (`fwd <= wrote`) keeps `fwd` within `0..MaxOut`.
- `AptSpawned` (a pid in `apt` was handed out by the OS and has a real p_uid) means Popen never returns a pid that is already a key. This is what keeps the insert consistent.
- `MainPuid` and `MainPid` say the request in hand names a real p_uid or pid.

`ExitAccounting` needs `ExitInv`, which adds two facts:
- an unspawned pid has no exit and no table entry;
- after cleanup, the table stays empty. The reaper can still run then, because after a main-loop crash the latch is clear.

Each strengthening was first checked with TLC as an invariant.

The lemmas are:
- `InitIInv` and `NextIInv`, with one step per action;
- `TellOK`: recording a message keeps the per-pid record well formed;
- `FlushOnceOK` and `FlushKeepsExits`: a flush reads no more than was written and never changes exit counts;
- `InitExitInv` and `NextExitInv`.

`ExitOnlyAfterDeathHolds` needs one more invariant, `ReaperReaped`: the pid watch_death holds between `waitpid` and the pop has been reaped. It holds because only a free pid is handed out and only a running child is signalled or exits. `NextReaperReaped` keeps it, and `NextExitStep` shows that under `IInv /\ ReaperReaped` only `ReapHandle` changes an exit count, for that pid. `FlushKeepsExits` covers the flushes, which also touch `told`.

Proved in `LSInput_proofs.tla`, for every value of the constants satisfying `InputAssumptions`:

- `TypeCorrect`: `Spec => []TypeOK`.
- `EOFAfterAllInputInvariant`: `Spec => []EOFAfterAllInput`.

Both rest on `IInv`, which TLC checked over every reachable state of `lsi_safety`. `EOFAfterAllInput` is not inductive by itself, because the proof has to know what `forward()` already did when the pump reaches `close()`:
- `EofLast`: an EOF frame is the last frame of its channel, and only a closed peer has one. So after forwarding it, the channel is empty.
- `DropInv`: a frame is dropped only when stdin is not open or the child died.
- `CloseReady`: at the dead-marking check with `eof`, the channel is empty and the peer closed. Between the check and `close()`, a live child with open stdin still has an empty channel and no dropped frames. This holds because `returncode` is set only after the reaper popped the entry, and then the child is dead (`ReapedDead`).
- `PumpSpawned`, `MainTarget` and `Unspawned`: the connector in the pump's hand and the target of `fwd_input` are real, spawned children. As a result, `Spawn` never resets state under them.

There is one step lemma per conjunct, with one step per action. `TypeCorrect` is split into `TypeNums`, `TypeFlags`, `TypeSets` and `TypeRecs` so that each part goes to the backend that handles it. `TailOne` and `EofTail` are the sequence facts about `Tail` that the channel steps need.


Proved in `LSResources_proofs.tla`, for every value of the constants satisfying `ResourceAssumptions`:

- `TypeCorrect`: `Spec => []TypeOK`.
- `CleanupReleasesAllInvariant`: `Spec => []CleanupReleasesAll`.
- `Refinement`: `Spec => R!Spec`, i.e. `ResourceRefinement`.

Both rest on `IInv == TypeOK /\ LiveInTable /\ LiveInPools /\ DoneEmpty`:
- `LiveInTable`: a live request channel has its entry in `self.channels`. Without it, `create_channel`'s in-use check would not stop a c_uid from being bound twice.
- `LiveInPools`: a live channel's pool exists. This is what makes `PoolDestroy` and `CleanupPool` map to `DestroyPool`.
- `DoneEmpty`: once `cleanup()` has returned, no pool is left.

The refinement proof maps the initial state to `R!Init`. `NextStep` shows that every step preserves `IInv` and maps to an abstract step or a stutter:
- a successful create maps to `CreateChannel`;
- `CreatePmod` maps to `CreateChannel` of the PMI c_uid;
- `PoolDestroy` and `CleanupPool` map to `DestroyPool`;
- `ChannelDestroy` and `CleanupChannel` map to `DestroyChannel`;
- every other step is a stutter.

Proved in `LSCritical_proofs.tla`, for every value of `GSPrints`:

- `TypeCorrect`: `Spec => []TypeOK`.
- `LatchesSoundInvariant`: `Spec => []LatchesSound`.

`LatchesSound` is not inductive, because `HandleGSHalted` and `PumpSelect` set the GS latch from what they read. `IInv` adds `InFlightSound`: every `GSHalted` and `TAHalted` in the inbox, and every `halted` line in GS's stdout pipe, was really announced. The sequence lemmas `AppendKeeps`, `TailKeeps`, `SuffixKeeps` and `PrefixOne` carry that fact through `Append`, `Tail`, the partial read `SubSeq(gsOut, n + 1, Len(gsOut))`, and the parse of the read prefix as exactly one `GSHalted`.

Proved in `LaunchArgs_proofs.tla`, for every `NameMax` and `LabelMax` satisfying `LaunchAssumptions`:

- `RejectionJustifiedInvariant`: `Spec => []RejectionJustified`. `parse_hosts` raises `ValueError` only for a name that breaks the specification's rule.

The proof goes through completeness of the validator. `LabelComplete` shows that a label the rule accepts matches `LabelOK`. `HostnameComplete` then shows that a name the rule accepts is `"valid"`. Both sides split the name with the same `SplitAt` expression, so no fact about what `SplitAt` computes is needed. For this, `SpecLabel` and `SpecHostname` type their argument as a sequence of the allowed characters. `IInv` adds that a result is set only when the check loop is done, and that `ValueError` names the host it stopped at.

**Only model-checked:**
- The liveness properties `ExitReported`, `ConnectorsClosed`, `StdinEOFDelivered` and `CriticalDeathEscalated`. Fairness and ENABLED are outside TLAPS's reach.
- `AcceptedHostsValid`, the soundness half of the hostname check. It needs the characters of each piece `SplitAt` returns, and `SplitAt` is built on `SelectSeq`. No library theorem covers `SelectSeq`, and proving what it returns for every text is induction over data, outside the provers' reach.
- The violation runs and the further divergences of §3.

## 5. Not modelled, and the plan

- **At-most-once forwarding of `GSHalted`.** Spec 5 lets `GSHalted` reach LS on the channel or on GS's stdout. `handle_gs_halted` (1007-1012) and the pump's parse (1260-1265) both forward it, and neither checks whether the other already did. Global Services is not in this repository, and the model's GS announces once, by one route. So no property about duplicates is stated: it would follow from the environment, not from LS. Registration and close of output connectors are not stated as a separate property either. Both close paths unregister in the same step as the close, so such a property would only restate those steps. What the drains do when the file is already closed or was never registered is covered by `OutputPumpAlive` and `ConnectorsClosed`.
- **Input pump.** Data is frames, not bytes. The truncation of a payload to `FwdInput.MAX` and the exception path of `watch_input` (1188-1194) are not modelled; `forward()` swallows the errors that could reach it. The `def_pool` handle the pump reads once (1154) and `cuid_to_input_connector`, which only grows (891), are not modelled either.
- **stdin.** `initial_stdin` is written on the main thread (916) with a blocking write, and an `fdopen` closes the fd on GC. `fwd_input`'s 10 ms select timeout (983) closes stdin for good; the model lets it happen whenever the pipe is full, but no property is stated against it.
- **Resource manager.** The gateway channels, which are created outside LS and destroyed in `run()`. Failures of `destroy()` other than a channel whose pool is gone.
- **Launcher arguments.** `--network-prefix`, `--network-config`, `--wlm`, `--transport` and `--log-level` only copy values. `head_proc_args` is not modelled either.
- **Pid reuse by unrelated processes.** This matters for `kill_process` signalling a stale pid (935). It is not modelled.
- **options.py, mpbridge/sharedctypes.py.** These are data holders and thin wrappers, with no concurrency of LS.
