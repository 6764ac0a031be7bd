# Razzer in TLA+

Razzer finds data races in the Linux kernel. A static analysis names pairs of
instructions that may race; a modified syzkaller looks for programs that reach
both; a modified QEMU/KVM then runs the two system calls on two virtual CPUs,
stops each at its instruction, reports whether both were there at once on the
same address, and enforces an order. This directory models the parts of that
system where interleavings, timeouts, kills and restarts decide whether it is
right, checks them with TLC and proves the most important results with TLAPS.

Source paths below are relative to `src/tools/qemu-2.5.0/` (QEMU) and
`src/tools/race-syzkaller/src/github.com/google/syzkaller/` (syzkaller).

## 1. The system

| Component | State | Operations | Talks to |
|---|---|---|---|
| Scheduling hypervisor, `hypercall.c` | `phase`, `writing_addr`, `reading_addr`, `status`, `is_refresh`, `can_go`; race fields of `CPUState` | `wait_race`, `CMD_START`, `CMD_END`, `CMD_REFRESH`, breakpoint and single-step handlers | guest (hypercalls, debug exits); the other vCPU thread (mutex, condition, futex) |
| Per-vCPU breakpoint table and run loop, `kvm-all.c`, `target-i386/kvm.c`, `cpus.c` | `hw_bps` per CPU, single-step flag in KVM | `kvm_*_breakpoint_per_cpu`, `kvm_update_guest_debug_per_cpu`, `kvm_handle_debug`, `kvm_cpu_exec` | hypervisor, KVM |
| Race executor in the guest, `executor/` | child, worker threads, `race_info`, `race_result`, `race_done`, shared page `race_pos` | fork server loop, watchdog, `prepare_race`, `schedule_call`, `execute_call`, `finish_race`, `recv_race_result` | hypervisor (`sys_hypercall`), ipc (pipes) |
| Executor processes, `pkg/ipc/ipc.go` | `env.cmd`, `env.out`, pipes, timer and abort goroutines; the processes main, loop and child of the executor | `ExecRace`, `makeCommand`, `handshake`, `execRace`, `abort`, `wait`, `close` | executor, scheduler, fuzzer |
| Gate, `pkg/ipc/gate.go` | `busy`, `pos`, `running`, `stop` | `Enter`, `Leave` | the processes of a fuzzer or scheduler, leak checker |
| Key-value database, `pkg/db/db.go` | `Records`, `uncompacted`, `pending`, the file | `Open`, `Save`, `Delete`, `Flush`, `BumpVersion`, `compact` | manager, file system |
| Persistent race corpora, `syz-manager/managerdb.go` | two databases for each of the race and likely-race corpora, `raceCorpus`, `likelyRaceCorpus` | `loadDB`, `DBTy.Save`, `DBTy.Remove`, the RPC handlers that use them | databases, fuzzers, schedulers |
| Manager RPC and synchronisation, `syz-manager/manager.go` | queues per fuzzer and per scheduler, `raceQueue`, `trueRaceHashes`, `suppressedPairs`, `raceCorpusDBDone` | `SchedulerConnect`, `SchedulerPoll`, `NewRaceInput`, `NewLikelyRaceInput`, `FuzzerPoll`, `updateSuppPairs`, `cleanupRaceQueue`; `Connect`, `NewInput`, `hubSync` | fuzzers, schedulers, corpora |
| Scheduler, `syz-scheduler/` | work queue, race corpus, known races | triage, race execution with retries, poll loop | manager, ipc |
| Fuzzer, `syz-fuzzer/` | work queue, corpus, signal | generate, mutate, triage, poll loop | manager, ipc |
| Programs, `prog/` | none | generation, mutation, minimisation, serialisation | fuzzer, scheduler |
| VM pool, `vm/` | instances, console buffer | boot, run, `MonitorExecution` | manager, QEMU |
| Reproduction, `pkg/repro`, `pkg/csource` | none | bisection, C source | manager, vm |
| Static analysis, `src/tools/SVF` | none at run time | whole-program pointer analysis | candidate pairs, as a file |

What is hard in it:

* Two vCPU threads meet in `wait_race` under a mutex that the first one gives up
  in a timed wait of 20 ms, and go on through a futex without the mutex and with
  a limit of 1 ms. Either limit may expire exactly when the other thread arrives.
* The guest child that uses the vCPUs may be killed at any time, or end early by a
  call of its own program, and leaves breakpoints, flags and results behind for
  the next one.
* Single-stepping is recorded in QEMU and, separately, in KVM.
* The verdict travels through a page that outlives the child that writes it.
* The manager keeps one input in two databases, each appended to on its own, and
  may be killed between or inside the appends.
* Go's condition variable in the gate serves two kinds of sleepers.
* RPC replies carry increments, so that a lost or misordered one is never
  repaired before a reconnect; a connect call gives the lock up half-way.
* An executor is three processes of which the scheduler knows one. Its time
  limit, its death and its answer may come together, and the pipes and the
  output region are used again by the next execution.

For each component, correct means: the verdict is the truth and both vCPUs agree
on it, no vCPU is held for ever, the order is enforced, nothing of a dead child
matters (hypervisor and executor); the table traps what it must and nothing else
(breakpoints); a kill loses only a suffix of the writes (database); a manager
starts again and its memory and disk agree (corpora); bounded window, exclusive
callback, no lost wakeup (gate); nothing is lost, tried twice or kept too long
between the manager and its schedulers (RPC); every execution returns, with its
own answer, and leaves nothing behind (ipc).
`PROJECT.json` lists the hazards line by line.

## 2. Modules

| Module | Models | |
|---|---|---|
| `Hypercall` | the two vCPU threads, hypervisor and breakpoint table, against an open guest | core |
| `Executor` | extends `Hypercall` with the real guest: fork server, child, workers | composition |
| `RaceOracle` | what both together promise the scheduler | abstract specification |
| `DBOps` | operations of a database as operators on a record | library |
| `DB` | databases in a process that may die | component |
| `ManagerDB`, `MCManagerDB` | the manager's race corpora over four databases; their keys and values for TLC | composition with `DBOps` |
| `Gate` | the gate | component |
| `Sync`, `MCSync` | manager and schedulers over RPC; symmetry for TLC | composition |
| `Ipc` | execution of a program: scheduler process, goroutines, executor processes | composition |
| `HypercallProofs`, `ExecutorProofs` | theorems on `Hypercall`, and on `Executor` and its refinement of `RaceOracle` | proofs |
| `DBOpsProofs`, `DBProofs`, `ManagerDBProofs` | lemmas on `DBOps`, theorems on `DB` and `ManagerDB` | proofs |
| `GateProofs`, `SyncProofs`, `IpcProofs` | theorems on `Gate`, `Sync`, `Ipc` | proofs |

Definitions named "Variant" in a comment are plausible wrong versions of the
definition that follows; they are used only to check that the properties notice
them, never in a specification.

### Hypercall and Executor

`Hypercall` keeps the names of the C variables. A section that holds
`qemu_race_mutex` is one action; the timed wait is the only place that gives the
mutex up and is three control points (`sleep`, then `signalled` or `timedout`
while the thread competes for the mutex again). The futex code runs without the
mutex and its store, wait and wake are separate steps. POSIX allows a condition
wait to end spuriously and no loop in the code absorbs it: `cond_spurious`.

The decoding of the stopped instruction is abstracted to what it yields: no
memory operand, or one address read or written. The order in which the code
looks at the operands fixes which of the two it is, and an instruction without a
memory operand leaves the old addresses, as in the code. The 5% draw is a
nondeterministic choice. All other exits from the guest are one action, because
all of them lead through `wait_race` again. `CMD_START` stores the address even
when the insertion failed, as in the code. A vCPU starts in the guest, since the
first `wait_race` returns at once.

In `Hypercall` every guest thread may issue START, END and REFRESH at any time and
hit any armed breakpoint: `sys_hypercall` is not restricted to the executor, and
`hypercall_command_start` does not check the address. START may therefore name the
hypercall nop itself (`Code` may contain `HypercallAddr`): the insertion fails, the
address is recorded all the same, and END removes the trap of the hypercall
instruction. A vCPU without that trap takes no command any more (`Trapped`). START
may also name the instruction before the nop; stepping over it lands on the nop
and is handled as a hypercall with the stepping still on, which `Trapped` allows.
A fourth command (`HYPERCALL_UNEXPECTED`) makes QEMU panic: the behaviour ends
there, and no action stands for it. The race id is the vCPU's number, as the
executor passes it; the code only compares it with the schedule, which is free.

`Executor` closes the system: a request, a forked child, workers pinned to the
vCPUs, REFRESH, START, barrier, racy call, END, `finish_race`, the shared page, the
watchdog, the reply. A child may be gone before `send_race_result` at any point of
its life (`cut_short`): killed by the watchdog (`kill_child`), or ended by an
`exit_group` in its program (`sys/linux/sys.txt:444`), a fatal signal or
`doexit(kHypercallFail)` (`child_exits`). The fork server treats all of these like
a child that finished, as it looks for the statuses 67 and 68 only; these end the
executor itself, which is `Ipc`'s business, and `sys/linux/init.go:191-195` keeps
programs from producing them. Foreign guest threads may run into the breakpoints
(`Tid` has more members than the worker). System call contents, coverage, sandboxes
and the decoding of the program are left out. Assumptions, of `Executor` only: only
the executor issues hypercalls (`sys/linux` does not describe `sys_hypercall`); the
racy instructions are memory accesses, so that they are neither the nop nor the
register move before it; one executor per virtual machine (`scheduler.go` sets
`flagProcs` to 1). `unsigned int` truncation of addresses in `prepare_race` is
undone by the hypervisor, which sets the upper half again.

`met`, `finished` and `tidy` are history variables: the two racy instructions of
this child were held at the same time, on conflicting accesses to one address; this
child has reached `send_race_result`; the child before it had. `RaceOracle` says
what an answer is worth: the truth for a program that ran to its end after another
that did; the truth or `RACE_RETRY` after one that did not; for a program cut short,
the outcome before. `Executor` refines it with `serving <- child # "none"`,
`conflict <- met`, `complete <- finished`, `tidy <- tidy`, `outcome <- race_pos`,
`answer <- reply`.

### DBOps, DB and ManagerDB

A file is a sequence of records, each whole or cut off. Encoding and compression
are abstracted to this: deserialisation stops at the first record that is not
whole, and for each key the last record before it wins. A partial record
followed by other bytes counts as undecodable, since the magic number, the
length and the flate stream would all have to match by accident. `compact`
writes a new file and renames it, so that a dying process leaves the old file or
the new one. `fsync` is not called by the code; a crash of the machine, which
would need it, is not modelled. A write of `Flush` that fails half way is a death of
the process in that write (`crash_in_flush`): `Flush` itself returns the error and
keeps `pending`, but every caller in `syz-manager` that runs calls `Fatalf` then
(`managerdb.go:130-152`); other users of `pkg/db` are not covered. Failing system calls inside `compact` are not
modelled either (see the plan).

In `ManagerDB` a handler that runs under `mgr.mu` leaves its writes in `todo`;
each is one step (save or delete, then flush), so that a kill may fall between
them (`kill`) or into one (`kill_in_write`). Programs that no longer parse or
have disabled calls appear at load as arbitrary sets of keys. Go walks a map in
any order; the broken keys are deleted from both databases in one walk, so that
their deletions have the same order in both. The plain corpus
is left out, and so is `clearDB`, which the code never calls.

### Gate

Everything between `Lock` and `Unlock` or `Wait` is one step. `sync.Cond` has no
spurious wakeups; a woken process competes for the mutex with newcomers.
`number`, `entered` and `called` are history variables.

### Sync

The handlers of the manager hold `mgr.mu` and are one action each;
`SchedulerConnect` drops it inside `calculatePrios` and is two, the second of
which (`schedulerInit`) includes what the scheduler does with the reply, since
nothing in the scheduler runs before. A poll is three actions: `initPoll` takes
the found races out of the scheduler, `SchedulerPoll` answers, `finishPoll`
applies the answer. The processes of a scheduler call `NewRaceInput` and
`NewLikelyRaceInput` in between. `scheduler_crash` may strike anywhere and loses
the scheduler's memory and its call under way, but not the manager's struct for
it; the next connect replaces that.

A race input and a likely input are represented by their memory pair. Signals
only decide whether an input is taken: it may be refused at any time. Counts and
draws decide which pairs are suppressed: `updateSuppPairs` takes any set.
Positions in the queue, batch sizes and both cleanups of the queue are as in the
code; the names of the limits are constants. What the soft cleanup leaves is given
by the positions it keeps, in ascending order. `newFoundRaceHashes` is the empty
set, because the code appends nothing.

### Ipc

`executeRaw`, `ExecRace` and `execRace` are control points of one process
(`pc`); the timer of `execRace` and the second signal of `abort` are goroutines
with steps of their own. The executor appears as its three processes with the
facts the scheduler depends on: who holds which pipe, who dies with whom and
from when on, which exit status `main` passes on. Each of its steps may happen
or not, except the delivery of SIGKILL. Executions are numbered; a reply and the
output region carry the number of the execution that wrote them, which the code
cannot see and the properties can. A reply to the handshake is told from a reply
to `execute` by its length only, as in the code: both start with the same magic.

The fuzzer's `Exec` and `exec` are the same code without the race. Execution
without fork server, `-debug` (stderr is not captured, `readDone` is closed at
once) and `Env.Close` are left out.

## 3. Runs

| Run | Shows | Bounds |
|---|---|---|
| `hypercall_safety` | against the open guest: `phase` tells who sleeps and never both (`SleepersKnown`); both assertions on `wait_race` (`WaitConcluded`); no unknown breakpoint is armed, a started run can be ended, and the hypercall trap is lost only by the END of a run whose START named the nop (`BreakpointsTracked`); no debug trap leaks into the guest (`StepExpected`); `can_go` loses no wakeup (`NoLostWakeup`) | 1 instruction and the nop, 1 address, 1 thread, vCPU 0 first |
| `executor_verdict` | two requests, each child of which may be cut short anywhere, and a foreign thread on the vCPUs: every reply is what `RaceOracle` allows (`VerdictIsTrue`, refinement), no later command is refused (`CommandsSucceed`), no definite verdict of a child that finished is wrong (`VerdictSurvivesKills`), and unless the child before was cut short both vCPUs agree (`VerdictsAgree`) | 2 threads, vCPU 0 first, 2 requests |
| `executor_schedule` | unless the child before was cut short, the order is enforced (`ScheduleEnforced`), also when it changes from one request to the next | 1 thread, both schedules, 2 requests |
| `executor_liveness` | requests are answered and each vCPU returns to the guest; the watchdog is relied on only for a child whose two racy calls have the same index, so that the scheduling itself never deadlocks | 1 request |
| `executor_stale` | *violation*: a child that is killed or ends early is answered with its predecessor's verdict | 2 requests |
| `db_crash` | an intact file mirrors the memory, a kill leaves a past content, the compaction rule bounds the file | 2 keys, 2 values, divisor 3, 4 records |
| `managerdb_restart` | `Remove` finds its RaceInfo, corpora are on disk between handlers, a manager killed between handlers starts again | 2 programs, 1 pair, 4 records, 1 interrupted handler |
| `managerdb_broken` | *violation*: killed between the two saves, the manager panics at every start | 3 records |
| `gate_window` | no "broken gate", window of C, one exclusive callback per batch, no lost wakeup | 4 processes, 3 slots, 2 activities each |
| `sync_clients` | a pair is never suppressed for longer than the manager wants (`NeverOverSuppressed`); a candidate is in one place (`CandidateHeldOnce`); "sent all from the databases" is true when it is said and never taken back (`DBCandidatesFirst`); no input misses both the connect reply and the queue (`InputsNotLost`); a race that is not reported again has been reported (`KnownRacesReported`); no likely input of a known race in `likelyRaceCorpus` (`LikelyNotTrue`) | 2 schedulers, 1 pair, 2 candidates from databases, 2 events |
| `sync_races` | *violation*: a race hash is never announced to other schedulers | 2 schedulers, 1 candidate |
| `ipc_calls` | an execution gets its own answer and output (`OwnAnswer`), leaves no process (`NothingLeftBehind`) and no timer (`TimerJoined`) behind, and returns (`CallReturns`) | 3 programs, retry limit 1, abort signal that may be ignored |

Why the bounds are enough. Two vCPUs are the program's own number. A verdict can
be spoilt by the previous child only, because every REFRESH resets what START
and END look at; two requests are one cut short or finished and one that meets what
it left. That the verdict is exact again after one finished child, whatever was cut
short before, takes three and is left to the theorem `RepliesAreTrue`. One address suffices, as addresses are only compared with each
other and with 0, and "no operand" is a separate choice; one instruction
address suffices since the two vCPUs have separate tables. In the open guest a
second thread only adds hits that `guest_tid` rejects; `executor_verdict` has
them. For the database, two keys and two values give overwriting, deletion and
every interleaving of them; with a divisor of 3 instead of 10 the compaction
rule fires at three records, and four leave one beyond it. The bounds `MaxLog`,
`MaxInterrupts`, `MaxProgs`, `MaxRounds` and `MaxEvents` are in the guards. `MaxLog` is also
needed because a torn file can grow across restarts: `uncompacted` counts only
readable records. In the gate, four processes on three slots have one process
waiting for a slot while another waits to call `f`. In `sync_clients` the limits
are as small as they can be, so that each is reached: `PollMax` 1 leaves every
likely input of a connect reply to the polls, `QueueThold` 1 and `NumToPop` 2 give
both empty and full polls, `SoftLimit` 0 and `HardLimit` 1 run both cleanups;
`DBCands` 2 candidates from the databases with one more from a fuzzer behind them
cover the order; `MaxEvents` limits new candidates, changes of the suppressed
pairs and crashes together, and two of them are a pair added and then dropped
between two polls, or a crash with a change before or after it; a pair dropped and
added again is left to the theorem `SuppressionEnds`. Two pairs do not interact but
in the queue. In `ipc_calls`, three programs let the second meet
what the first left and the third a restarted executor; `MaxTry` 1 instead of 10
has a retry that succeeds and one that gives up. The safety properties and the
refinement are also proved for all values of the constants (section 5), so that
the bounds matter to liveness only.

`executor_verdict`, `_schedule`, the database and the manager runs check
deadlock, and so do the `Sync` runs. In `gate_window` all processes end after
`MaxRounds`; `ipc_calls` ends after `MaxProgs` programs or with a panic.

Fairness. `ExFairSpec`: weak fairness of each vCPU thread (the host schedules
it, and the 20 ms and 1 ms limits expire), of the barrier, of
the main thread and of the fork server, of the watchdog only for a child that is
`stuck` in its barrier; strong fairness of the worker's steps
and of single-step traps, because exits such as timer interrupts keep taking the
vCPU out of the guest and bring it back. Nothing forces a hit, a draw or a
spurious wakeup, and nothing makes a program end its child early. `Gate`: weak fairness of each process, as an activity ends by
the executor's timeout and Go schedules every goroutine; a mutex queue with
finitely many activities needs no more. `SyncFairSpec`: weak fairness of
connecting, polling and executing candidates per scheduler, as a scheduler polls
every 10 s, its processes loop, and the manager restarts ended machines. `IpcSpec`:
weak fairness of the scheduler's process, of its timer, of the second signal and of
the delivery of SIGKILL; none of any other step of the executor, which may hang
anywhere.

## 4. Findings

1. **Stale verdict** (`executor_stale`). The page at `race_pos` is shared by all
   children and written only after `execute_one`. If the child is gone before that,
   the fork server replies with the verdict of an earlier child and status 0
   (`common_linux.h:2157-2164`). It takes no kill: an `exit_group` in the program or a
   fatal signal does it too. `VerdictIsTrue` says what remains: the reply is exact for
   a child that reached `send_race_result`, unless the child before it did not; then
   it may be `RACE_RETRY` once, but no wrong verdict.
2. **Broken DB** (`managerdb_broken`). `DBTy.Save` (`SaveDB` in the module) flushes
   the program before it writes the RaceInfo; a manager killed in between panics
   at every later start.
3. **Races are not announced** (`sync_races`). `manager.go:1836` builds the list of
   new race hashes by `append` without an element. Other schedulers get the inputs
   of the race but not its hash until they reconnect, and `pickFromRaceCorpus`
   skips these inputs.

Noticed and not the subject of a run:

* *Hypervisor and executor.* A process that passes the address of the nop to START
  and then calls END removes the hypercall trap of its vCPU, which takes no command
  any more until the virtual machine is started again (`hypercall.c:301-328`, `347`);
  the executor never does (`TrapStaysArmed`). A hit skipped by the random draw gets no second
  chance: KVM is told to single-step only if `go_first`, and the re-insertion uses
  `singlestep_enabled` after setting it to 0. After a child cut short the two vCPUs may
  disagree (`RACE_RETRY`), which `ipc.go:868` counts as a race
  (`reply.isRace != 0`); the stale `is_race` can delay a vCPU by 1 ms between
  REFRESH and START; equal race indices leave the child in its barrier until the
  watchdog.
* *Databases.* `Open` leaves a file that ends in a partial record as it is, and
  `Flush` appends behind it; these records are lost at the next `Open`, so that
  the memory is mirrored on disk only while the file is intact. `time.Until` of a
  past time is negative, so that `clearDB` never runs; `loadDB` without an
  auxiliary database calls `Delete` on nil for a broken program.
* *Synchronisation.* Likely inputs queued for a scheduler before their pair was
  found to race are still handed out by `SchedulerPoll`. A pair dropped and added again between two polls ends up not
  suppressed in the scheduler, since the lists carry no order (the error is on the
  safe side, `NeverOverSuppressed`). A connecting scheduler ignores the suppressed
  pairs of its reply and is sent `raceMaxSignal`, which nobody fills. The doubt in
  the comment at `manager.go:1765` is unfounded: candidates of the databases
  always precede the others in the queue. `hubSync` clears reproducers that came
  in while it had dropped the lock; `updateExecInfo` writes a map under a read
  lock; the work queue's cleanup dereferences a scheduler that is never set.
* *Executor processes.* If the handshake times out before loop has asked to die
  with main (`do_sandbox_none` sets up cgroups first, `common_linux.h:1257`), loop
  survives with stderr open and the scheduler waits for ever; this is the
  exception `Orphaned` in `CallReturns`. A `main` that gives up during the
  handshake passes it, as its reply starts with the same magic; a fatal status is
  then retried instead of reported. The timer may abort an executor whose call
  succeeded; the next call finds the dead command and is retried. With the test
  `try > 10` a program is executed up to 12 times.

## 5. Proofs

All proofs are by an inductive invariant: it holds initially, every action keeps
it, and the property follows from it.

**HypercallProofs** (from `CodeAssumption`, `DataAssumption`: addresses and
threads are non-zero numbers; START may name any of them, the nop too). The
invariant is the conjunction of the run's state properties, `TableTracked` for the
breakpoints, and two facts they need:
`RefreshBeforeGuest` (a pending refresh is finished before the guest runs,
otherwise it would erase the addresses of a later hit) and `ReadyIsDisarmed` (a
vCPU that accepts START has no breakpoint armed, otherwise START would forget
it). That only the END of a run on the nop loses the hypercall trap is a fact about
steps, proved from the invariant action by action (`TrapStep`). `TypeCorrect`, `SleepersAreKnown`, `WaitIsConcluded`,
`BreakpointsAreTracked`, `StepsAreExpected`, `WakeupsAreNotLost`.

**ExecutorProofs** (from `ExecutorAssumption`: indices and bounds are numbers, there
is something to race, and it is not the nop). Every step of the executor is a step of the open guest of
`Hypercall`, so that its invariant carries over (`GuestKeepsInv`); the rest follows
one child. `ChildLife` and `StatusFollows` tie the status of a vCPU to what its
worker has done: REFRESH makes it READY whatever it was. `OneHit` says that a vCPU
waits for at most one hit per START, and `AddressesFresh` that one that has not
stopped has no address, so that a spurious wakeup of its opponent concludes nothing.
`VerdictsBounded` is the core: a child cut short can leave a vCPU asleep that meets the
first vCPU of its successor, so that one verdict of a child may be wrong, but if
both say that there was a race then there was one, and if there was one then none
of them says otherwise. `ResultsKept` and `PageBounded` carry this to the page and
the reply. `NoLeftovers` and `Ordered` are the stronger facts that hold for a child
that is `tidy`: its predecessor finished, so that nothing of it is left on the
vCPUs. `TrapArmed` says that both vCPUs keep the hypercall trap. No theorem excludes
kills or early ends: `ExTypeCorrect`, `TrapStaysArmed`, `CommandsAlwaysSucceed`,
`VerdictsSurviveKills`, `VerdictsAlwaysAgree`, `ScheduleIsEnforced` and
`RepliesAreTrue`, the refinement of `RaceOracle`, in which a request is `Request`, the
meeting of the two vCPUs `Meet`, `finish_race` `Complete`, the reply `Reply`, and
everything else, the early end of a child included, a stuttering step.

**DBOpsProofs, DBProofs** (from `DBAssumption`: finitely many keys, positive
divisor). The property `OpensToPastContent` is not inductive: a flush makes pending writes
readable at once, and a cut-off one makes any prefix of them readable. The
invariant `Good` therefore says that *every prefix* of the pending writes,
appended to the file, reads as a past content; that the whole of it, if the file
is intact, reads as the `Records`; and that `uncompacted` counts the records.
Lemmas say what reading returns after an append, behind a cut and after
`compact` in any order; they are in `DBOpsProofs` and used for both databases and
corpora. `DBTypeCorrect`, `IntactFileMirrors`, `CrashLeavesPastContent`,
`FlushedFileIsBounded`.

**ManagerDBProofs** (from `MgrAssumption`: a key is a program with a pair's hash; the
bounds are numbers). The properties speak of the moments between two handlers; the
invariant follows the handler from write to write. `Handler` says which writes can
be left, and that the primary database is flushed before the auxiliary one is
written; `Stored` that an input in memory is in both databases unless its write is
among those left; `InStep` that, as long as no kill fell into a handler, a program
has its RaceInfo, in memory and on disk, unless that is the write that comes next.
The deletions `loadDB` leaves pending are why `InStep` speaks of file and memory
separately: they reach the file of one database with its next flush, maybe long
before the other. `MgrTypeCorrect`, `RemovalAlwaysFindsInfo`, `CorporaAreOnDisk`,
`CleanRestarts`.

**GateProofs** (from `GateAssumption`: finitely many processes, at least one
slot). `Numbered` ties the number of an activity to its slot and to `pos`;
without it the window cannot be bounded from one state. `CallsCounted` gives the
exact number of started activities from the number of calls, `pos`, and whether
a call is due. `GateNeverBreaks`, `WindowIsBounded`, `CalledOncePerBatch`,
`CalledOnlyAlone`, `GateTypeCorrect`.

**SyncProofs** (from `SyncAssumption`: the limits are numbers; the first invariant
does without). `NeverOverSuppressed` is not
inductive: a pair may be on its way in when the manager drops it.
`DropsFollowAdds` says that a queued or sent addition the manager has taken back is
followed by a removal, queued or in the same reply. `Registered` says that a
scheduler with a call under way is registered, so that it is sent what changes
between the two halves of its connect call, and that one that is down suppresses
nothing, so that a connect call may clear its queues. `AnnouncedAreKnown` says that
what is announced is known to the manager. `SuppressionEnds`, `NoInputIsLost`,
`RacesAreReported`, `LikelyIsNotTrue`.
The candidates have an invariant of their own, `QueueInv`. Candidates are numbered as
they come in; `Numbered` says that the numbers ascend along the queue, which both
cleanups and pops from the head, the tail and the middle keep. Hence a queue whose
head is not from the databases has no candidate from them, and `DBCandidatesGoFirst`
follows. `OnePlace` says that no number is in two places and that it stands for one
candidate; the second half bounds the length of a work queue (`WorkBounded`), which
`SyncTypeCorrect` needs. `DoneFollows` says that a reply under way does not announce
more than the manager knows. `CandidatesAreHeldOnce`.

**IpcProofs** (from `IpcAssumption`: the bounds are numbers). `Underway` says where
the call under way is: its request in the pipe, a child that works on it, or one
good reply in the pipe, never two of these, and all of the current execution; at
other control points there is none. `Leftovers` says that a command is given up
only when loop and child are gone, because `readDone` needs every holder of stderr
gone, and that `main` never replies with status 0. `Outcome` bounds what may be in
the output region. `IpcTypeCorrect`, `AnswersAreOwn`, `NothingIsLeftBehind`,
`TimersAreJoined`.

Only model-checked: liveness (`RequestsAnswered`, `ReturnsToGuest`, `AllServed`,
`CallReturns`), which is out of the prover's reach. Every other property of a
passing run is a theorem.

A note on the prover. The SMT encoding of tlapm 1.4.5 assumes of *every* value that
its length is n exactly if its domain is 1..n, and that it is the empty sequence
exactly if its length is 0. For a function with another domain, such as one on the
two vCPUs, this is contradictory, and a leaf in which such a function meets `Len` or
`<<>>` may be proved for the wrong reason. All proofs here have also been checked
with the two assumptions restricted to what is true of sequences and functions with
domain 1..n; leaves that did not survive this were rewritten.

## 6. Plan

Done: `Hypercall`, `Executor`, `RaceOracle` and `HypercallProofs` first, since
every result of the fuzzer rests on the verdict; then the databases, the race
corpora and the gate; then the synchronisation of the schedulers and the execution
of programs. Left, in this order:

1. Theorems: all safety properties of the runs are proved. Worth adding are facts
   between the components, such as that the answer `Ipc` returns is the one of
   `RaceOracle`.
2. `DBOps`: a header flag for a `compact` whose error is ignored; the plain corpus
   in `ManagerDB`.
3. Candidates: the priorities of the scheduler's work queue and its triage,
   `MonitorExecution` of `vm` and the manager's `vmLoop`, `hubSync`.

Not modelled and not planned: `prog` (random transformations of trees whose
results are opaque elsewhere), `repro` and `csource` (search over external
executions), the fuzzer's own work queue (upstream code), `syncfunc.go` (a lock with
a log) and `racecandpairs.go` (parses a file), the static analysis and the rest of
QEMU and llvmlinux (third-party code that the design does not change).
