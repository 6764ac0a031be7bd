----------------------------- MODULE Hypercall -----------------------------
(***************************************************************************)
(* The deterministic vCPU scheduler of the modified QEMU.                  *)
(*                                                                         *)
(* Two host threads, one per vCPU, run the loop of kvm_cpu_exec: call      *)
(* wait_race, enter the guest (KVM_RUN), and on a debug exit handle either *)
(* a hypercall command (START, END, REFRESH) or a breakpoint.  They share  *)
(* phase, the decoded operand addresses, status and the futex word can_go; *)
(* everything else is a field of the vCPU's own CPUState.                  *)
(*                                                                         *)
(* Every section that holds qemu_race_mutex is one action: the only place  *)
(* where the mutex is given up half way is qemu_cond_timedwait, which is   *)
(* the control point "sleep".  The futex code at the end of wait_race runs *)
(* without the mutex and has its own steps.                                *)
(*                                                                         *)
(* The guest is open: any guest thread may issue START, END and REFRESH at *)
(* any time, START for any address, that of the hypercall instruction      *)
(* included, and may reach an armed breakpoint, since sys_hypercall is     *)
(* open to every process and no argument is checked.  Any other command    *)
(* makes QEMU panic and ends the behaviour.  Module Executor closes the    *)
(* system with the real guest.                                             *)
(***************************************************************************)
EXTENDS Naturals, Integers, FiniteSets

CONSTANTS
    Code,           \* instruction addresses START may name, perhaps the nop's
    HypercallAddr,  \* _HYPERCALL_ADDR, the nop inside sys_hypercall
    Addr,           \* data addresses an instruction operand may denote
    Tid,            \* guest threads (their kernel stack bases)
    Sched           \* schedules the guest asks for: the vCPU that goes first

ASSUME CodeAssumption ==
    /\ Code \subseteq Nat \ {0}
    /\ HypercallAddr \in Nat \ {0}

ASSUME DataAssumption ==
    /\ Addr \subseteq Nat \ {0}
    /\ Tid \subseteq Nat \ {0}
    /\ Sched \subseteq {0, 1}

VARIABLES
    pc,                   \* where the vCPU thread is in kvm_cpu_exec
    phase,                \* phase[2]
    writing_addr,         \* writing_addr[2], 0 if none
    reading_addr,         \* reading_addr[2], 0 if none
    status,               \* status[2]
    is_refresh,           \* is_refresh[2]
    can_go,               \* the futex word
    hw_bps,               \* CPUState.hw_bps, as a set
    kvm_singlestep,       \* KVM_GUESTDBG_SINGLESTEP as last told to KVM
    inserted_breakpoint,  \* the fields of CPUState below keep their names
    singlestep_enabled,
    skipping,
    wait_race,
    go_first,
    wake_up,
    done,
    is_race,
    race_id,
    sched,
    guest_tid

debugVars == <<hw_bps, kvm_singlestep, inserted_breakpoint,
               singlestep_enabled, skipping>>
argVars   == <<race_id, sched, guest_tid, status>>
flagVars  == <<wait_race, go_first, wake_up>>
meetVars  == <<phase, writing_addr, reading_addr, is_refresh>>
raceVars  == <<is_race, done>>
hvVars == <<pc, can_go, debugVars, argVars, flagVars, meetVars, raceVars>>

CPU == {0, 1}
BpAddr == Code \cup {0}   \* 0: see handle_singlestep
opponent(c) == 1 - c
HwBpSlots == 4   \* x86 has four debug registers

\* Control points: in KVM_RUN; exit handled, wait_race next; blocked in
\* qemu_cond_timedwait; woken from it by a signal or by the 20 ms limit and
\* competing for the mutex; past the mutex; blocked in FUTEX_WAIT; can_go set
\* and FUTEX_WAKE next.
PC == {"run", "loop", "sleep", "signalled", "timedout", "post", "futex", "wake"}
Phase == {"UNREACHED", "SLEEPING", "PASSED"}
Status == {"READY", "RUNNING"}

\* What disassembling the stopped instruction yields: no memory operand, or
\* one that is read (operands 0 to 2) or written (the last operand).
Operand == {[kind |-> "none", addr |-> 0]}
             \cup [kind : {"read", "write"}, addr : Addr]

TypeOK ==
    /\ pc \in [CPU -> PC]
    /\ phase \in [CPU -> Phase]
    /\ writing_addr \in [CPU -> Addr \cup {0}]
    /\ reading_addr \in [CPU -> Addr \cup {0}]
    /\ status \in [CPU -> Status]
    /\ is_refresh \in [CPU -> BOOLEAN]
    /\ can_go \in {0, 1}
    /\ hw_bps \in [CPU -> SUBSET (Code \cup {0, HypercallAddr})]
    /\ kvm_singlestep \in [CPU -> BOOLEAN]
    /\ inserted_breakpoint \in [CPU -> BpAddr]
    /\ singlestep_enabled \in [CPU -> BOOLEAN]
    /\ skipping \in [CPU -> BOOLEAN]
    /\ wait_race \in [CPU -> BOOLEAN]
    /\ go_first \in [CPU -> BOOLEAN]
    /\ wake_up \in [CPU -> BOOLEAN]
    /\ done \in [CPU -> BOOLEAN]
    /\ is_race \in [CPU -> BOOLEAN]
    /\ race_id \in [CPU -> CPU]
    /\ sched \in [CPU -> CPU]
    /\ guest_tid \in [CPU -> Tid \cup {0}]

----------------------------------------------------------------------------
(* The per-vCPU breakpoint table (target-i386/kvm.c, kvm-all.c). *)

\* kvm_arch_insert_hw_breakpoint_per_cpu fails: table full, or already there.
insert_fails(c, a) ==
    \/ Cardinality(hw_bps[c]) = HwBpSlots
    \/ a \in hw_bps[c]

\* kvm_insert_breakpoint_per_cpu: a failed insertion returns before the
\* ioctl; a successful one loads the table with control = 0, which also turns
\* single-stepping off.  Only the table is given here.
insert_bp(c, a) ==
    IF insert_fails(c, a) THEN hw_bps[c] ELSE hw_bps[c] \cup {a}

\* Variant: the nop has been left behind already when the trap is armed.
trap_after_nop == {HypercallAddr + 1}
\* kvm_init_hypercall after kvm_remove_all_breakpoints_per_cpu.
only_hypercall_bp == {HypercallAddr}

----------------------------------------------------------------------------
(* init_hypercall, once per vCPU thread; the rest is zero-initialised.  The *)
(* first call of wait_race finds regs = NULL and returns, so a vCPU starts  *)
(* inside the guest.                                                        *)
Init ==
    /\ pc = [c \in CPU |-> "run"]
    /\ phase = [c \in CPU |-> "UNREACHED"]
    /\ writing_addr = [c \in CPU |-> 0]
    /\ reading_addr = [c \in CPU |-> 0]
    /\ status = [c \in CPU |-> "READY"]
    /\ is_refresh = [c \in CPU |-> FALSE]
    /\ can_go = 0
    /\ hw_bps = [c \in CPU |-> {HypercallAddr}]
    /\ kvm_singlestep = [c \in CPU |-> FALSE]
    /\ inserted_breakpoint = [c \in CPU |-> 0]
    /\ singlestep_enabled = [c \in CPU |-> FALSE]
    /\ skipping = [c \in CPU |-> FALSE]
    /\ wait_race = [c \in CPU |-> FALSE]
    /\ go_first = [c \in CPU |-> FALSE]
    /\ wake_up = [c \in CPU |-> FALSE]
    /\ done = [c \in CPU |-> FALSE]
    /\ is_race = [c \in CPU |-> FALSE]
    /\ race_id = [c \in CPU |-> 0]
    /\ sched = [c \in CPU |-> 0]
    /\ guest_tid = [c \in CPU |-> 0]

----------------------------------------------------------------------------
(* Exits from the guest. *)

\* A guest instruction can execute: the vCPU is in KVM_RUN and no single-step
\* trap comes first.
Executing(c) == pc[c] = "run" /\ ~kvm_singlestep[c]

\* The guest reaches the hypercall nop and traps there: by its breakpoint, or
\* by a single step of the instruction before it, which lands on the nop and
\* leaves the stepping on.  (Without the breakpoint only address 0 can be
\* armed and stepped, see BreakpointsTracked, and that is not before the nop.)
Trapped(c) ==
    /\ pc[c] = "run"
    /\ HypercallAddr \in hw_bps[c]
    /\ pc' = [pc EXCEPT ![c] = "loop"]

\* Variant: a race is reported with the code the executor keeps for retries.
end_result_retry(c) ==
    IF status[c] # "RUNNING" THEN -1 ELSE IF is_race[c] THEN 2 ELSE 0
\* What CMD_START and CMD_END leave in the guest's rax: -1 for a command the
\* vCPU's status does not allow, the untouched race id, or the verdict.
start_result(c, id) == IF status[c] = "READY" THEN id ELSE -1
end_result(c) ==
    IF status[c] # "RUNNING" THEN -1 ELSE IF is_race[c] THEN 1 ELSE 0

\* CMD_START by thread t with id, breakpoint address a and schedule s.
hypercall_command_start(c, t, id, a, s) ==
    /\ Trapped(c)
    /\ guest_tid' = [guest_tid EXCEPT ![c] = t]
    /\ \/ /\ status[c] # "READY"
          /\ UNCHANGED <<debugVars, race_id, sched, status, phase, is_race>>
       \/ /\ status[c] = "READY"
          /\ is_race' = [is_race EXCEPT ![c] = FALSE]
          /\ hw_bps' = [hw_bps EXCEPT ![c] = insert_bp(c, a)]
          /\ kvm_singlestep' =
                [kvm_singlestep EXCEPT ![c] = @ /\ insert_fails(c, a)]
          /\ phase' = [phase EXCEPT ![c] = "UNREACHED"]
          /\ inserted_breakpoint' = [inserted_breakpoint EXCEPT ![c] = a]
          /\ race_id' = [race_id EXCEPT ![c] = id]
          /\ sched' = [sched EXCEPT ![c] = s]
          /\ status' = [status EXCEPT ![c] = "RUNNING"]
          /\ UNCHANGED <<singlestep_enabled, skipping>>
    /\ UNCHANGED <<can_go, flagVars, writing_addr, reading_addr, is_refresh, done>>

\* Variant: CMD_END forgets the breakpoint without removing it.
end_keeps_bp(c, t) ==
    /\ Trapped(c)
    /\ guest_tid' = [guest_tid EXCEPT ![c] = t]
    /\ inserted_breakpoint' = [inserted_breakpoint EXCEPT ![c] = 0]
    /\ status' = [status EXCEPT ![c] = "READY"]
    /\ UNCHANGED <<hw_bps, kvm_singlestep, singlestep_enabled, skipping, can_go,
                   race_id, sched, flagVars, meetVars, raceVars>>
\* CMD_END by thread t; its result is end_result(c).
hypercall_command_end(c, t) ==
    /\ Trapped(c)
    /\ guest_tid' = [guest_tid EXCEPT ![c] = t]
    /\ \/ /\ status[c] # "RUNNING"
          /\ UNCHANGED <<debugVars, status>>
       \/ /\ status[c] = "RUNNING"
          /\ hw_bps' = [hw_bps EXCEPT ![c] = @ \ {inserted_breakpoint[c]}]
          /\ kvm_singlestep' = [kvm_singlestep EXCEPT
                ![c] = @ /\ inserted_breakpoint[c] \notin hw_bps[c]]
          /\ inserted_breakpoint' = [inserted_breakpoint EXCEPT ![c] = 0]
          /\ status' = [status EXCEPT ![c] = "READY"]
          /\ UNCHANGED <<singlestep_enabled, skipping>>
    /\ UNCHANGED <<can_go, race_id, sched, flagVars, meetVars, raceVars>>

\* Variant: REFRESH leaves the vCPU in the run it was in.
status_kept(c) == UNCHANGED status
\* The vCPU accepts a START again.
status_ready(c) == status' = [status EXCEPT ![c] = "READY"]

\* CMD_REFRESH: part of the reset is left to the wait_race that follows
\* (is_refresh); is_race, singlestep_enabled and inserted_breakpoint stay.
hypercall_command_refresh(c) ==
    /\ Trapped(c)
    /\ status_ready(c)
    /\ guest_tid' = [guest_tid EXCEPT ![c] = 0]
    /\ go_first' = [go_first EXCEPT ![c] = FALSE]
    /\ skipping' = [skipping EXCEPT ![c] = FALSE]
    /\ wait_race' = [wait_race EXCEPT ![c] = FALSE]
    /\ wake_up' = [wake_up EXCEPT ![c] = FALSE]
    /\ is_refresh' = [is_refresh EXCEPT ![c] = TRUE]
    /\ hw_bps' = [hw_bps EXCEPT ![c] = only_hypercall_bp]
    /\ kvm_singlestep' = [kvm_singlestep EXCEPT ![c] = FALSE]
    /\ UNCHANGED <<can_go, inserted_breakpoint, singlestep_enabled, race_id, sched,
                   phase, writing_addr, reading_addr, raceVars>>

\* KVM reports a single step (dr6.BS).  kvm_handle_debug returns EXCP_DEBUG
\* only if singlestep_enabled and otherwise injects the #DB into the guest;
\* StepExpected says that this second case never happens.
step_exit(c) == pc[c] = "run" /\ kvm_singlestep[c]

\* The guest fetches the instruction at rip, which carries a breakpoint; at
\* the nop check_hypercall takes the exit for a command.
breakpoint_exit(c, rip) ==
    Executing(c) /\ rip \in hw_bps[c] \ {HypercallAddr}

\* Variant: KVM is not told that stepping is over.
step_left_on(c) == UNCHANGED kvm_singlestep
\* kvm_update_guest_debug_per_cpu with singlestep_enabled = 0.
step_off(c) == kvm_singlestep' = [kvm_singlestep EXCEPT ![c] = FALSE]

\* handle_hypercall_breakpoint, the branch for singlestep_enabled, which any
\* debug exit enters first.  When the breakpoint had been skipped it is
\* re-inserted at cpu->singlestep_enabled, set to 0 three lines before.
handle_singlestep(c, rip) ==
    /\ step_exit(c) \/ breakpoint_exit(c, rip)
    /\ singlestep_enabled[c]
    /\ pc' = [pc EXCEPT ![c] = "loop"]
    /\ singlestep_enabled' = [singlestep_enabled EXCEPT ![c] = FALSE]
    /\ \/ /\ skipping[c]
          /\ hw_bps' = [hw_bps EXCEPT ![c] = insert_bp(c, 0)]
          /\ skipping' = [skipping EXCEPT ![c] = FALSE]
          /\ UNCHANGED wake_up
       \/ /\ ~skipping[c]
          /\ wake_up' = [wake_up EXCEPT ![c] = TRUE]
          /\ UNCHANGED <<hw_bps, skipping>>
    /\ step_off(c)
    /\ UNCHANGED <<can_go, inserted_breakpoint, argVars, wait_race, go_first,
                   meetVars, raceVars>>

\* handle_hypercall_breakpoint, the branch for a hit of the armed breakpoint
\* by thread t; skip is the outcome of the 5% draw.  KVM is told to
\* single-step only if go_first, which a skipped hit does not set.
handle_breakpoint(c, rip, t, skip) ==
    LET waits == t = guest_tid[c] /\ ~skip
        first == IF waits THEN race_id[c] = sched[c] ELSE go_first[c]
    IN /\ breakpoint_exit(c, rip)
       /\ ~singlestep_enabled[c]
       /\ inserted_breakpoint[c] = rip
       /\ pc' = [pc EXCEPT ![c] = "loop"]
       /\ skipping' = [skipping EXCEPT ![c] = skip]
       /\ wait_race' = [wait_race EXCEPT ![c] = waits \/ @]
       /\ go_first' = [go_first EXCEPT ![c] = first]
       /\ hw_bps' = [hw_bps EXCEPT ![c] = @ \ {rip}]
       /\ inserted_breakpoint' =
             [inserted_breakpoint EXCEPT ![c] = IF skip THEN @ ELSE 0]
       /\ singlestep_enabled' = [singlestep_enabled EXCEPT ![c] = skip \/ first]
       /\ kvm_singlestep' = [kvm_singlestep EXCEPT ![c] = first]
       /\ wake_up' = [wake_up EXCEPT ![c] = @ /\ ~first]
       /\ UNCHANGED <<can_go, argVars, meetVars, raceVars>>

\* Any other exit (I/O, MMIO, a signal, a debug exit that matches neither
\* branch): the loop calls wait_race again.
other_exit(c) ==
    /\ pc[c] = "run"
    /\ pc' = [pc EXCEPT ![c] = "loop"]
    /\ UNCHANGED <<can_go, debugVars, argVars, flagVars, meetVars, raceVars>>

----------------------------------------------------------------------------
(* wait_race. *)

\* Both stopped instructions touch the same address and one of them writes.
same_address(w, r) ==
    \/ w[0] # 0 /\ w[0] = w[1]
    \/ w[0] # 0 /\ w[0] = r[1]
    \/ r[0] # 0 /\ r[0] = w[1]

\* Record the decoded operand of vCPU c; without one the old values stay.
decode_writing(c, w, op) ==
    IF op.kind = "none" THEN w
    ELSE [w EXCEPT ![c] = IF op.kind = "write" THEN op.addr ELSE 0]
decode_reading(c, r, op) ==
    IF op.kind = "none" THEN r
    ELSE [r EXCEPT ![c] = IF op.kind = "read" THEN op.addr ELSE 0]

\* The vCPU is not to wait; finish a pending refresh and leave the mutex.
wait_race_pass(c) ==
    /\ pc[c] = "loop"
    /\ ~wait_race[c]
    /\ pc' = [pc EXCEPT ![c] = "post"]
    /\ \/ /\ is_refresh[c]
          /\ is_refresh' = [is_refresh EXCEPT ![c] = FALSE]
          /\ writing_addr' = [writing_addr EXCEPT ![c] = 0]
          /\ reading_addr' = [reading_addr EXCEPT ![c] = 0]
          /\ phase' = [phase EXCEPT ![c] = "UNREACHED"]
          /\ done' = [done EXCEPT ![c] = FALSE]
       \/ ~is_refresh[c] /\ UNCHANGED <<meetVars, done>>
    /\ UNCHANGED <<can_go, debugVars, argVars, flagVars, is_race>>

\* Variant: wait_race is left set.
conclude_still_waiting(c, race) ==
    /\ done' = [done EXCEPT ![c] = FALSE]
    /\ is_race' = [is_race EXCEPT ![c] = race]
    /\ phase' = [phase EXCEPT ![c] = "PASSED"]
    /\ UNCHANGED <<debugVars, argVars, flagVars, is_refresh>>
\* The last lines under the mutex: publish the verdict of this vCPU.
conclude(c, race) ==
    /\ wait_race' = [wait_race EXCEPT ![c] = FALSE]
    /\ done' = [done EXCEPT ![c] = FALSE]
    /\ is_race' = [is_race EXCEPT ![c] = race]
    /\ phase' = [phase EXCEPT ![c] = "PASSED"]
    /\ UNCHANGED <<debugVars, argVars, go_first, wake_up, is_refresh>>

\* The stopped instruction of vCPU c is decoded (guard shared by the three
\* branches on the opponent's phase).
stopped(c, op) ==
    /\ pc[c] = "loop"
    /\ wait_race[c]
    /\ writing_addr' = decode_writing(c, writing_addr, op)
    /\ reading_addr' = decode_reading(c, reading_addr, op)

\* Variant: can_go keeps the value the last race left.
second_keeps_can_go(c, op) ==
    /\ stopped(c, op)
    /\ phase[opponent(c)] = "SLEEPING"
    /\ conclude(c, same_address(writing_addr', reading_addr'))
    /\ pc' = [d \in CPU |-> IF d = c THEN "post"
                            ELSE IF pc[d] = "sleep" THEN "signalled" ELSE pc[d]]
    /\ UNCHANGED can_go
\* Second vCPU, the opponent is asleep: wake it and restart the order.
wait_race_second(c, op) ==
    /\ stopped(c, op)
    /\ phase[opponent(c)] = "SLEEPING"
    /\ conclude(c, same_address(writing_addr', reading_addr'))
    /\ pc' = [d \in CPU |-> IF d = c THEN "post"
                            ELSE IF pc[d] = "sleep" THEN "signalled" ELSE pc[d]]
    /\ can_go' = 0

\* Variant: having passed counts as being there.
late_counts(c, op) ==
    /\ stopped(c, op)
    /\ phase[opponent(c)] = "PASSED"
    /\ conclude(c, same_address(writing_addr', reading_addr'))
    /\ pc' = [pc EXCEPT ![c] = "post"]
    /\ UNCHANGED can_go
\* Second vCPU, but the opponent has gone on.
wait_race_late(c, op) ==
    /\ stopped(c, op)
    /\ phase[opponent(c)] = "PASSED"
    /\ conclude(c, FALSE)
    /\ pc' = [pc EXCEPT ![c] = "post"]
    /\ UNCHANGED can_go

\* Variant: the opponent's phase is not looked at before sleeping.
sleep_unconditionally(c, op) ==
    /\ stopped(c, op)
    /\ phase' = [phase EXCEPT ![c] = "SLEEPING"]
    /\ pc' = [pc EXCEPT ![c] = "sleep"]
    /\ UNCHANGED <<can_go, debugVars, argVars, flagVars, is_refresh, raceVars>>
\* First vCPU: sleep until the broadcast or the time limit.
wait_race_first(c, op) ==
    /\ stopped(c, op)
    /\ phase[opponent(c)] = "UNREACHED"
    /\ phase' = [phase EXCEPT ![c] = "SLEEPING"]
    /\ pc' = [pc EXCEPT ![c] = "sleep"]
    /\ UNCHANGED <<can_go, debugVars, argVars, flagVars, is_refresh, raceVars>>

\* Variant: the wait has no time limit.
cond_no_timeout(c) == FALSE /\ UNCHANGED hvVars
\* pthread_cond_timedwait ends by its time limit, or without any broadcast (a
\* spurious wakeup, which POSIX allows and no loop in the code absorbs).
cond_timeout(c) ==
    /\ pc[c] = "sleep"
    /\ pc' = [pc EXCEPT ![c] = "timedout"]
    /\ UNCHANGED <<can_go, debugVars, argVars, flagVars, meetVars, raceVars>>
cond_spurious(c) ==
    /\ pc[c] = "sleep"
    /\ pc' = [pc EXCEPT ![c] = "signalled"]
    /\ UNCHANGED <<can_go, debugVars, argVars, flagVars, meetVars, raceVars>>

\* Variant: only the return value of the wait is trusted.
only_if_signalled(c) == pc[c] = "signalled"
\* The first vCPU has the mutex back.
both_bp_hit(c) == pc[c] = "signalled" \/ phase[opponent(c)] = "PASSED"
wait_race_wake(c) ==
    /\ pc[c] \in {"signalled", "timedout"}
    /\ conclude(c, both_bp_hit(c) /\ same_address(writing_addr, reading_addr))
    /\ pc' = [pc EXCEPT ![c] = "post"]
    /\ UNCHANGED <<can_go, writing_addr, reading_addr>>

\* After the mutex: the vCPU that goes second waits until can_go, ...
holds_back(c) == is_race[c] /\ ~go_first[c] /\ ~done[c]
\* ... the one that goes first releases it once it has single-stepped.
releases(c) == is_race[c] /\ go_first[c] /\ wake_up[c] /\ ~done[c]

\* FUTEX_WAIT blocks if can_go is 0 and fails with EAGAIN otherwise.
futex_wait(c) ==
    /\ pc[c] = "post"
    /\ holds_back(c)
    /\ \/ /\ can_go = 0
          /\ pc' = [pc EXCEPT ![c] = "futex"]
          /\ UNCHANGED done
       \/ /\ can_go # 0
          /\ pc' = [pc EXCEPT ![c] = "run"]
          /\ done' = [done EXCEPT ![c] = TRUE]
    /\ UNCHANGED <<can_go, debugVars, argVars, flagVars, meetVars, is_race>>

\* The 1 ms limit of FUTEX_WAIT.
futex_timeout(c) ==
    /\ pc[c] = "futex"
    /\ pc' = [pc EXCEPT ![c] = "run"]
    /\ done' = [done EXCEPT ![c] = TRUE]
    /\ UNCHANGED <<can_go, debugVars, argVars, flagVars, meetVars, is_race>>

\* Variant: can_go is stored and nobody is woken.
set_can_go_only(c) ==
    /\ pc[c] = "post"
    /\ releases(c)
    /\ can_go' = 1
    /\ pc' = [pc EXCEPT ![c] = "run"]
    /\ done' = [done EXCEPT ![c] = TRUE]
    /\ UNCHANGED <<debugVars, argVars, flagVars, meetVars, is_race>>
set_can_go(c) ==
    /\ pc[c] = "post"
    /\ releases(c)
    /\ can_go' = 1
    /\ pc' = [pc EXCEPT ![c] = "wake"]
    /\ UNCHANGED <<debugVars, argVars, flagVars, meetVars, raceVars>>

futex_wake(c) ==
    /\ pc[c] = "wake"
    /\ pc' = [d \in CPU |-> IF d = c \/ pc[d] = "futex" THEN "run" ELSE pc[d]]
    /\ done' = [d \in CPU |-> done[d] \/ d = c \/ pc[d] = "futex"]
    /\ UNCHANGED <<can_go, debugVars, argVars, flagVars, meetVars, is_race>>

\* Nothing to order: back into the guest.
enter_guest(c) ==
    /\ pc[c] = "post"
    /\ ~holds_back(c)
    /\ ~releases(c)
    /\ pc' = [pc EXCEPT ![c] = "run"]
    /\ UNCHANGED <<can_go, debugVars, argVars, flagVars, meetVars, raceVars>>

----------------------------------------------------------------------------
\* Steps of the vCPU thread that need nothing from the guest.
HostStep(c) ==
    \/ wait_race_pass(c)
    \/ \E op \in Operand : \/ wait_race_second(c, op)
                           \/ wait_race_late(c, op)
                           \/ wait_race_first(c, op)
    \/ cond_timeout(c)
    \/ wait_race_wake(c)
    \/ futex_wait(c)
    \/ futex_timeout(c)
    \/ set_can_go(c)
    \/ futex_wake(c)
    \/ enter_guest(c)

\* Steps some guest thread on vCPU c takes.  The race id is the number of the
\* vCPU, as the executor passes it: the code only asks whether it equals the
\* schedule, which is open.
GuestStep(c) ==
    \/ \E t \in Tid, a \in Code, s \in Sched :
          hypercall_command_start(c, t, c, a, s)
    \/ \E t \in Tid : hypercall_command_end(c, t)
    \/ hypercall_command_refresh(c)
    \/ \E rip \in BpAddr : handle_singlestep(c, rip)
    \/ \E rip \in BpAddr, t \in Tid, skip \in BOOLEAN :
          handle_breakpoint(c, rip, t, skip)
    \/ other_exit(c)

Next == \E c \in CPU : HostStep(c) \/ cond_spurious(c) \/ GuestStep(c)

Spec == Init /\ [][Next]_hvVars

----------------------------------------------------------------------------
(* Properties, for every guest. *)

\* The 20 ms sleep of wait_race and what the opponent reads to find out about
\* it agree: phase is SLEEPING exactly while the thread is inside
\* qemu_cond_timedwait, and both threads are never in there together (each
\* would wait for the other; the second one must be the one that wakes).
Blocked(c) == pc[c] \in {"sleep", "signalled", "timedout"}
SleepersKnown ==
    /\ \A c \in CPU : phase[c] = "SLEEPING" <=> Blocked(c)
    /\ ~(Blocked(0) /\ Blocked(1))

\* assert(cpu->wait_race == false) before KVM_RUN and assert(cpu->wait_race)
\* at the end of wait_race hold: a vCPU that is to wait is between the hit
\* and its conclusion, and has no refresh pending that would erase the
\* addresses it is about to compare.
WaitConcluded ==
    \A c \in CPU :
        /\ pc[c] \in {"run", "post", "futex", "wake"} => ~wait_race[c]
        /\ Blocked(c) => wait_race[c]
        /\ wait_race[c] => ~is_refresh[c]

\* The breakpoint table of each vCPU in one state, and what a step may take
\* from it.
TableTracked ==
    \A c \in CPU :
        /\ hw_bps[c] \subseteq {HypercallAddr, inserted_breakpoint[c], 0}
        /\ status[c] = "RUNNING" => HypercallAddr \in hw_bps[c]
LosesTrap(c) == HypercallAddr \in hw_bps[c] /\ HypercallAddr \notin hw_bps'[c]
TrapKept ==
    \A c \in CPU :
        LosesTrap(c) => /\ inserted_breakpoint[c] = HypercallAddr
                        /\ status[c] = "RUNNING" /\ status'[c] = "READY"

\* After every step the vCPU's table holds nothing but the hypercall
\* instruction, the breakpoint recorded in inserted_breakpoint and the null
\* address: one left behind that no branch of handle_hypercall_breakpoint
\* recognises would trap for ever.  A started run can be ended, since its END
\* traps.  And the trap of the hypercall instruction, without which the vCPU is
\* deaf to every command, is lost in one way only: by the END of a run whose
\* START named the nop itself.
BreakpointsTracked == [][TableTracked' /\ TrapKept]_hvVars

\* KVM single-steps only when QEMU expects it: otherwise kvm_handle_debug
\* injects the trap into the guest kernel.
StepExpected == \A c \in CPU : kvm_singlestep[c] => singlestep_enabled[c]

\* No lost wakeup on can_go: a thread that blocked on 0 does not stay blocked
\* on 1 unless the thread that stored the 1 is about to call FUTEX_WAKE.
NoLostWakeup ==
    \A c \in CPU : pc[c] = "futex" /\ can_go = 1 => pc[opponent(c)] = "wake"

\* The scheduler never keeps a vCPU out of the guest for ever, whatever its
\* opponent does.
ReturnsToGuest == \A c \in CPU : pc[c] # "run" ~> pc[c] = "run"
=============================================================================
