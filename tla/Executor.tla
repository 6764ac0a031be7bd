------------------------------ MODULE Executor ------------------------------
(***************************************************************************)
(* The guest side of a race run, closed with the hypervisor of Hypercall.  *)
(*                                                                         *)
(* The fork server (loop) takes a request, forks a child and waits for it, *)
(* killing it after a time limit.  The child runs the two racy calls on    *)
(* two worker threads, thread t pinned to vCPU t: REFRESH before the       *)
(* thread's first call, START and a barrier before the racy call, END      *)
(* after it.  The main thread compares the two verdicts (finish_race) and  *)
(* leaves the outcome in a page shared with the fork server, which reads   *)
(* it back when the child is gone and replies.  A child may end before     *)
(* that: killed, or by a call of its own program.  syz-scheduler runs a    *)
(* single executor per virtual machine, so no other one interferes.        *)
(***************************************************************************)
EXTENDS Hypercall

CONSTANTS
    Index,      \* call indices a request may name as racy
    MaxProgs    \* number of requests served

\* The racy instructions of a request are memory accesses, which the nop is not.
ASSUME ExecutorAssumption ==
    /\ Index \subseteq Nat
    /\ MaxProgs \in Nat \ {0}
    /\ HypercallAddr \notin Code
    /\ Code # {} /\ Tid # {} /\ Sched # {}

VARIABLES
    prog,         \* requests received so far
    race_info,    \* bp and race_index per thread, and sched, after prepare_race
    child,        \* "none", "running", "exiting"
    th,           \* th[t]: what worker thread t does next
    rax,          \* what worker t's last START or END returned
    race_result,  \* race_result[2] of the child
    race_done,    \* race_done[2] of the child
    race_pos,     \* the shared page: survives the child
    reply,        \* is_race of the last reply, "none" while a child runs
    met,          \* history: this child's racy instructions met (see Meeting)
    finished,     \* history: this child has reached send_race_result, ...
    tidy          \* ... and so had the one before it, if any

childVars == <<prog, race_info, child, reply, finished, tidy>>
raceExVars == <<race_result, race_done, race_pos>>
workVars == <<th, rax>>
exVars == <<childVars, raceExVars, workVars, met>>
vars == <<hvVars, exVars>>

RaceResult == {"NO_RACE", "TRUE_RACE", "RACE_RETRY"}
RaceInfo == [bp : [CPU -> Code], race_index : [CPU -> Index], sched : Sched]

\* Worker control points: not scheduled yet; REFRESH next; START next; START
\* returned; in the barrier; in the racy call; END next; END returned; racy
\* call over, or none to execute; thread gone.
Th == {"idle", "refresh", "start", "started", "barrier", "syscall",
       "end", "ended", "over", "dead"}

ExTypeOK ==
    /\ prog \in 0..MaxProgs
    /\ race_info \in RaceInfo \cup {<<>>}
    /\ child \in {"none", "running", "exiting"}
    /\ th \in [CPU -> Th]
    /\ rax \in [CPU -> {-1, 0, 1}]
    /\ race_result \in [CPU -> {0, 1}]
    /\ race_done \in [CPU -> BOOLEAN]
    /\ race_pos \in RaceResult
    /\ reply \in RaceResult \cup {"none"}
    /\ met \in BOOLEAN
    /\ finished \in BOOLEAN
    /\ tidy \in BOOLEAN

\* The kernel stack base of the workers.  Any other guest thread may have it
\* once a worker is gone, and may run on a worker's vCPU while it waits.
Worker == CHOOSE t \in Tid : TRUE

ExInit ==
    /\ Init
    /\ prog = 0
    /\ race_info = <<>>
    /\ child = "none"
    /\ th = [t \in CPU |-> "dead"]
    /\ rax = [t \in CPU |-> 0]
    /\ race_result = [t \in CPU |-> 0]
    /\ race_done = [t \in CPU |-> FALSE]
    /\ race_pos = "NO_RACE"
    /\ reply = "NO_RACE"
    /\ met = FALSE
    /\ finished = TRUE
    /\ tidy = TRUE

----------------------------------------------------------------------------
(* Fork server and main thread of the child. *)

\* Thread 0 takes the call with the smaller index; sched is not swapped.
prepare_race(r) ==
    LET swap(f) == [t \in CPU |-> f[opponent(t)]]
    IN IF r.race_index[0] > r.race_index[1]
       THEN [r EXCEPT !.race_index = swap(@), !.bp = swap(@)]
       ELSE r

\* receive_execute, fork, prepare_race.  With equal indices thread 1 never
\* has a racy call and thread 0 stays in the barrier until it is killed.
receive_execute(r) ==
    /\ child = "none"
    /\ prog < MaxProgs
    /\ prog' = prog + 1
    /\ race_info' = prepare_race(r)
    /\ child' = "running"
    /\ reply' = "none"
    /\ finished' = FALSE
    /\ tidy' = finished
    /\ th' = [t \in CPU |-> "idle"]
    /\ rax' = [t \in CPU |-> 0]
    /\ race_result' = [t \in CPU |-> 0]
    /\ race_done' = [t \in CPU |-> FALSE]
    /\ met' = FALSE
    /\ UNCHANGED <<hvVars, race_pos>>

\* schedule_call in the collide pass: thread 0 gets the calls up to its racy
\* one, thread 1 the calls after that; a thread's first call refreshes.
schedule_call(t) ==
    /\ child = "running"
    /\ th[t] = "idle"
    /\ t = 1 => th[0] # "idle"
    /\ th' = [th EXCEPT ![t] = "refresh"]
    /\ UNCHANGED <<hvVars, childVars, raceExVars, rax, met>>

has_racy_call(t) == t = 0 \/ race_info.race_index[1] > race_info.race_index[0]

\* finish_race, send_race_result and exit, once both threads are done.
finish_result ==
    IF race_result[0] # race_result[1] THEN "RACE_RETRY"
    ELSE IF race_result[0] = 0 THEN "NO_RACE" ELSE "TRUE_RACE"
finish_race ==
    /\ child = "running"
    /\ \A t \in CPU : race_done[t]
    /\ race_pos' = finish_result
    /\ child' = "exiting"
    /\ finished' = TRUE
    /\ UNCHANGED <<hvVars, prog, race_info, reply, tidy, race_result,
                   race_done, workVars, met>>

\* The child is gone before send_race_result: what it leaves on the vCPUs and
\* in the shared page stays.
cut_short ==
    /\ child = "running"
    /\ child' = "exiting"
    /\ UNCHANGED <<hvVars, prog, race_info, reply, finished, tidy, raceExVars,
                   workVars, met>>

\* Variant: no watchdog.
never_kill == FALSE /\ UNCHANGED vars
\* The time limit of the fork server: SIGKILL to the child's process group.
kill_child == cut_short

\* The child ends by itself while its program runs: an exit_group among its
\* calls, a fatal signal, or doexit(kHypercallFail) after a refused START or
\* END.  The fork server looks for kFailStatus and kErrorStatus only, which no
\* program can pass to exit_group, and treats any other end as finish_race's.
child_exits == cut_short

\* A thread of an exiting child dies when its vCPU is back in the guest.
thread_exit(t) ==
    /\ child = "exiting"
    /\ th[t] # "dead"
    /\ pc[t] = "run"
    /\ th' = [th EXCEPT ![t] = "dead"]
    /\ UNCHANGED <<hvVars, childVars, raceExVars, rax, met>>

\* waitpid returns; recv_race_result, reply_execute.
recv_race_result == race_pos
reply_execute ==
    /\ child = "exiting"
    /\ \A t \in CPU : th[t] = "dead"
    /\ child' = "none"
    /\ reply' = recv_race_result
    /\ UNCHANGED <<hvVars, prog, race_info, finished, tidy, raceExVars, workVars, met>>

----------------------------------------------------------------------------
(* Worker threads: worker_thread and execute_call.  The guards on rax are   *)
(* the branches of a successful START and END; the others are child_exits.  *)

\* A worker goes on: its vCPU executes guest code.  No step of a racy
\* instruction lands on the nop: what precedes that is no memory access.
move(t, from, to) ==
    /\ child = "running"
    /\ Executing(t)
    /\ th[t] = from
    /\ th' = [th EXCEPT ![t] = to]

call_refresh(t) ==
    /\ move(t, "refresh", IF has_racy_call(t) THEN "start" ELSE "over")
    /\ hypercall_command_refresh(t)
    /\ UNCHANGED <<childVars, raceExVars, rax, met>>

call_start(t) ==
    /\ move(t, "start", "started")
    /\ hypercall_command_start(t, Worker, t, race_info.bp[t], race_info.sched)
    /\ rax' = [rax EXCEPT ![t] = start_result(t, t)]
    /\ UNCHANGED <<childVars, raceExVars, met>>

start_returned(t) ==
    /\ rax[t] # -1
    /\ move(t, "started", "barrier")
    /\ UNCHANGED <<hvVars, childVars, raceExVars, rax, met>>

\* pthread_barrier_wait lets both threads go on, or neither.
pass_barrier ==
    /\ child = "running"
    /\ \A t \in CPU : th[t] = "barrier"
    /\ th' = [t \in CPU |-> "syscall"]
    /\ UNCHANGED <<hvVars, childVars, raceExVars, rax, met>>

racy_syscall_returns(t) ==
    /\ move(t, "syscall", "end")
    /\ UNCHANGED <<hvVars, childVars, raceExVars, rax, met>>

call_end(t) ==
    /\ move(t, "end", "ended")
    /\ hypercall_command_end(t, Worker)
    /\ rax' = [rax EXCEPT ![t] = end_result(t)]
    /\ UNCHANGED <<childVars, raceExVars, met>>

end_returned(t) ==
    /\ rax[t] # -1
    /\ move(t, "ended", "over")
    /\ race_result' = [race_result EXCEPT ![t] = rax[t]]
    /\ race_done' = [race_done EXCEPT ![t] = TRUE]
    /\ UNCHANGED <<hvVars, childVars, race_pos, rax, met>>

----------------------------------------------------------------------------
(* Steps of the hypervisor seen from here. *)

\* Any guest thread may reach an armed breakpoint at any time.
guest_step_trap(c) ==
    /\ \E rip \in Code : handle_singlestep(c, rip)
    /\ UNCHANGED exVars
guest_hits(c) ==
    /\ \E rip \in Code, t \in Tid, skip \in BOOLEAN :
          handle_breakpoint(c, rip, t, skip)
    /\ UNCHANGED exVars
guest_other_exit(c) == other_exit(c) /\ UNCHANGED exVars

\* The two racy instructions of this child meet: one vCPU stops while the
\* other sleeps at its own breakpoint, on conflicting accesses to one address.
Meeting(c) ==
    /\ \A t \in CPU : th[t] \in {"started", "barrier", "syscall", "end"}
    /\ pc[c] = "loop" /\ wait_race[c]
    /\ phase[opponent(c)] = "SLEEPING"
    /\ same_address(writing_addr', reading_addr')

host_step(c) ==
    /\ HostStep(c)
    /\ met' = (met \/ Meeting(c))
    /\ UNCHANGED <<childVars, raceExVars, workVars>>

\* Not part of host_step: nothing makes a spurious wakeup happen.
host_spurious(c) == cond_spurious(c) /\ UNCHANGED exVars

ExecutorStep(t) ==
    \/ schedule_call(t) \/ thread_exit(t)
    \/ call_refresh(t) \/ call_start(t) \/ start_returned(t)
    \/ racy_syscall_returns(t) \/ call_end(t) \/ end_returned(t)

ExNext ==
    \/ \E r \in RaceInfo : receive_execute(r)
    \/ finish_race \/ kill_child \/ child_exits \/ reply_execute \/ pass_barrier
    \/ \E c \in CPU : \/ ExecutorStep(c) \/ host_step(c) \/ host_spurious(c)
                      \/ guest_step_trap(c) \/ guest_hits(c) \/ guest_other_exit(c)

ExSpec == ExInit /\ [][ExNext]_vars

\* A child whose threads never meet in the barrier; the watchdog is relied on
\* for these only, all others must end by themselves.
stuck == child = "running" /\ ~has_racy_call(1)

\* Host threads are scheduled and both time limits of wait_race expire; the
\* watchdog of the fork server fires; guest code makes progress although
\* exits keep interrupting it (strong fairness), calls that do not hang return.
\* Nothing makes a program end its child.
ExFairSpec ==
    /\ ExSpec
    /\ WF_vars(finish_race) /\ WF_vars(stuck /\ kill_child)
    /\ WF_vars(reply_execute) /\ WF_vars(pass_barrier)
    /\ \A c \in CPU : /\ WF_vars(host_step(c))
                      /\ SF_vars(ExecutorStep(c))
                      /\ SF_vars(guest_step_trap(c))

----------------------------------------------------------------------------
(* Properties.  A child counts as finished if it reached send_race_result. *)

\* Every reply is what RaceOracle allows: for a finished child that followed a
\* finished one (or is the first), exactly whether its two instructions met;
\* for one that follows a child cut short, that or RACE_RETRY; for a child cut
\* short by the watchdog, by an exit_group or by a signal, what the page held.
Oracle == INSTANCE RaceOracle WITH
    serving <- child # "none", conflict <- met, complete <- finished,
    tidy <- tidy, outcome <- race_pos, answer <- reply
VerdictIsTrue == Oracle!OracleSpec

\* The two vCPUs agree about the race, although each computes the verdict on
\* its own, the first one possibly after a timeout that raced the broadcast;
\* a child cut short spoils this for the next one at most.
VerdictsAgree ==
    tidy /\ (\A t \in CPU : race_done[t]) => race_result[0] = race_result[1]

\* START and END are never refused: whatever state a child that was cut short
\* left behind on the vCPUs, the REFRESH of the next child clears it.
CommandsSucceed ==
    \A t \in CPU : th[t] \in {"started", "ended"} => rax[t] # -1

\* What a child that was cut short leaves behind, on the vCPUs and in the
\* shared page, never makes a later child that reaches send_race_result report
\* the wrong verdict: a breakpoint left armed can at most make the two vCPUs
\* disagree (RACE_RETRY).
VerdictSurvivesKills ==
    child = "none" /\ finished
      => reply \in {IF met THEN "TRUE_RACE" ELSE "NO_RACE", "RACE_RETRY"}

\* The schedule is enforced, unless the child before was cut short: when the
\* vCPU that is to go second resumes after a race other than by the 1 ms
\* limit, its opponent, which is to go first, has executed its racy
\* instruction.  (Between REFRESH and START the stale is_race of the last
\* program can hold a vCPU back too; nothing races then.)
Resumes(c) ==
    /\ child = "running" /\ tidy
    /\ status[c] = "RUNNING"
    /\ pc[c] \in {"post", "futex"} /\ holds_back(c) /\ pc'[c] = "run"
ScheduleEnforced ==
    [][\A c \in CPU : Resumes(c) =>
          \/ can_go = 0 /\ UNCHANGED pc[opponent(c)]
          \/ go_first[opponent(c)] /\ wake_up[opponent(c)]]_vars

\* Every request is answered, and no vCPU stays out of the guest for ever.
RequestsAnswered == child # "none" ~> child = "none"

\* docs/fuzzing.md: the hypervisor provides "checking whether a race truly
\* occurred".  A reply that reports a race reports one of this request.
ReportedRaceOccurred ==
    child = "none" /\ reply = "TRUE_RACE" => met
=============================================================================
