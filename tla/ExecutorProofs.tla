-------------------------- MODULE ExecutorProofs ---------------------------
(***************************************************************************)
(* The verdict of a race run, for any racy instructions, addresses, guest  *)
(* threads, schedules and number of requests: what a child may conclude    *)
(* when the one before was cut short, and that the reply is the truth when *)
(* both reached send_race_result.                                          *)
(*                                                                         *)
(* Every step of the executor is a step of Hypercall's open guest, so that *)
(* the invariant of HypercallProofs holds here too.  On top of it, the     *)
(* invariant follows one child from REFRESH to END.                        *)
(***************************************************************************)
EXTENDS Executor, HypercallProofs

Racing == {"started", "barrier", "syscall", "end"}

\* Worker c of this child has had its START.
started(c) == th[c] \in Racing \cup {"ended"} \/ (th[c] = "over" /\ race_done[c])

noAddr(c) == writing_addr[c] = 0 /\ reading_addr[c] = 0
disarmed(c) == hw_bps[c] \subseteq {HypercallAddr, 0}
bit(b) == IF b THEN 1 ELSE 0
truth == IF met THEN "TRUE_RACE" ELSE "NO_RACE"

\* The life of a child and of its threads.
ChildLife ==
    /\ child # "none" => race_info \in RaceInfo
    /\ child = "none" => \A c \in CPU : th[c] = "dead"
    /\ child = "running" => ~finished /\ \A c \in CPU : th[c] # "dead"
    /\ child = "exiting" /\ finished => \A c \in CPU : th[c] \in {"over", "dead"}

\* START finds the vCPU READY and END finds it RUNNING.
StatusFollows ==
    \A c \in CPU :
       /\ th[c] \in {"start", "ended", "over"} => status[c] = "READY"
       /\ th[c] \in Racing => status[c] = "RUNNING"
       /\ th[c] \in {"started", "ended"} => rax[c] # -1

\* A vCPU waits only for the one hit of the breakpoint of its START, unless it
\* is a leftover of a child that was cut short.
OneHit ==
    \A c \in CPU :
       /\ th[c] \in {"start", "ended", "over"} => ~wait_race[c]
       /\ th[c] \in Racing /\ (wait_race[c] \/ phase[c] # "UNREACHED") => disarmed(c)
       /\ th[c] \in Racing /\ wait_race[c] => phase[c] # "PASSED"
       /\ started(c) => ~is_refresh[c]

\* A vCPU that has not stopped has no address: a spurious wakeup of its
\* opponent concludes nothing from it.
AddressesFresh ==
    \A c \in CPU : /\ phase[c] = "UNREACHED" => noAddr(c)
                   /\ th[c] = "start" /\ ~is_refresh[c] => noAddr(c)

\* The two verdicts of this child against the truth.  One of them may be wrong,
\* because of a leftover, but not both.
VerdictsBounded ==
    child = "running" =>
       /\ \A c \in CPU : started(c) /\ phase[c] # "PASSED" => ~is_race[c]
       /\ met => \A c \in CPU :
             /\ started(c) /\ phase[c] # "UNREACHED"
             /\ phase[c] = "PASSED" => is_race[c]
             /\ phase[c] = "SLEEPING" => same_address(writing_addr, reading_addr)
       /\ ~met /\ started(0) /\ started(1) =>
             /\ ~(is_race[0] /\ is_race[1])
             /\ \A c \in CPU : phase[c] = "SLEEPING" /\ phase[opponent(c)] = "PASSED"
                   => ~same_address(writing_addr, reading_addr)

\* END hands over the verdict, and nothing changes it afterwards.
ResultsKept ==
    child = "running" =>
       \A c \in CPU : /\ th[c] = "ended" => rax[c] = bit(is_race[c])
                      /\ race_done[c] => th[c] = "over" /\ race_result[c] = bit(is_race[c])

\* What a child that finished leaves for the fork server.
PageBounded ==
    /\ child = "exiting" /\ finished => race_pos \in {truth, "RACE_RETRY"}
    /\ VerdictSurvivesKills

\* Behind a finished child there are no leftovers, and each verdict of the next
\* one is the truth.
clean == IF child = "running" THEN tidy ELSE finished
NoLeftovers ==
    /\ clean => \A c \in CPU : th[c] \notin Racing => ~wait_race[c] /\ status[c] = "READY"
    /\ child = "running" /\ tidy =>
          /\ \A c \in CPU : started(c) /\ is_race[c] => met
          /\ \A c \in CPU : phase[c] = "SLEEPING" /\ phase[opponent(c)] = "PASSED"
                => started(opponent(c))
    /\ child = "exiting" /\ tidy /\ finished => race_pos = truth
    /\ VerdictsAgree

\* can_go is set by the vCPU that went first in this race.
Ordered ==
    /\ \A c \in CPU : pc[c] = "wake" => go_first[c] /\ wake_up[c]
    /\ child = "running" /\ met /\ can_go = 1
          => \E c \in CPU : go_first[c] /\ wake_up[c]

\* The hypercall instruction traps: no START of the executor names the nop.
TrapArmed == \A c \in CPU : HypercallAddr \in hw_bps[c]

\* The part of the invariant that is about the executor.
ChildInv ==
    /\ ExTypeOK /\ ChildLife /\ StatusFollows /\ OneHit /\ AddressesFresh
    /\ VerdictsBounded /\ ResultsKept /\ PageBounded /\ NoLeftovers /\ Ordered
ExInv == Inv /\ ChildInv

----------------------------------------------------------------------------
\* The parts of the invariant, and the types of what a worker thread changes.
LEMMA Parts ==
    ASSUME ExInv
    PROVE  /\ TypeOK /\ SleepersKnown /\ WaitConcluded /\ RefreshBeforeGuest
           /\ TableTracked /\ ReadyIsDisarmed /\ StepExpected /\ NoLostWakeup
           /\ ExTypeOK /\ ChildLife /\ StatusFollows /\ OneHit /\ AddressesFresh
           /\ VerdictsBounded /\ ResultsKept /\ PageBounded /\ NoLeftovers /\ Ordered
           /\ th \in [CPU -> Th] /\ rax \in [CPU -> {-1, 0, 1}]
           /\ race_result \in [CPU -> {0, 1}] /\ race_done \in [CPU -> BOOLEAN]
  BY DEF ExInv, Inv, ChildInv, ExTypeOK

\* The kernel stack base of the workers is one of a guest thread.
LEMMA WorkerIsThread == Worker \in Tid
  BY ExecutorAssumption DEF Worker

\* prepare_race gives thread 0 the call with the smaller index, and what it
\* returns is again a request.
LEMMA PreparedIsRequest ==
    ASSUME NEW r \in RaceInfo
    PROVE  prepare_race(r) \in RaceInfo
<1>1. \A t \in CPU : opponent(t) \in CPU
  BY DEF CPU, opponent
<1>2. r.bp \in [CPU -> Code] /\ r.race_index \in [CPU -> Index] /\ r.sched \in Sched
  BY DEF RaceInfo
<1> DEFINE b == [t \in CPU |-> r.bp[opponent(t)]]
           x == [t \in CPU |-> r.race_index[opponent(t)]]
<1>3. b \in [CPU -> Code] /\ x \in [CPU -> Index]
  BY <1>1, <1>2
<1>4. [r EXCEPT !.race_index = x, !.bp = b] \in RaceInfo
  <2> HIDE DEF b, x
  <2> QED BY <1>2, <1>3 DEF RaceInfo
<1>5. prepare_race(r) \in {r, [r EXCEPT !.race_index = x, !.bp = b]}
  BY DEF prepare_race
<1> QED BY <1>4, <1>5

\* Whatever the executor does is something the open guest of Hypercall may do,
\* so the invariant of HypercallProofs holds here too.
LEMMA ExecutorIsAGuest ==
    ASSUME ExInv, ExNext
    PROVE  Next \/ UNCHANGED hvVars
<1>1. ASSUME NEW t \in CPU, call_start(t) PROVE Next
  <2>1. race_info.bp[t] \in Code /\ race_info.sched \in Sched
    BY <1>1, Parts DEF call_start, move, ChildLife, RaceInfo
  <2>2. hypercall_command_start(t, Worker, t, race_info.bp[t], race_info.sched)
    BY <1>1 DEF call_start
  <2>3. GuestStep(t)
    BY <2>1, <2>2, WorkerIsThread DEF GuestStep
  <2> QED BY <2>3 DEF Next
<1>2. ASSUME NEW t \in CPU, call_end(t) PROVE Next
  BY <1>2, WorkerIsThread DEF call_end, Next, GuestStep
<1>3. ASSUME NEW t \in CPU, call_refresh(t) PROVE Next
  BY <1>3 DEF call_refresh, Next, GuestStep
<1>4. ASSUME NEW c \in CPU, guest_step_trap(c) PROVE Next
  BY <1>4 DEF guest_step_trap, Next, GuestStep, BpAddr
<1>5. ASSUME NEW c \in CPU, guest_hits(c) PROVE Next
  BY <1>5 DEF guest_hits, Next, GuestStep, BpAddr
<1>6. ASSUME NEW c \in CPU, guest_other_exit(c) \/ host_step(c) \/ host_spurious(c)
      PROVE  Next
  BY <1>6 DEF guest_other_exit, host_step, host_spurious, Next, GuestStep
<1>7. ASSUME NEW t \in CPU,
             \/ schedule_call(t) \/ thread_exit(t) \/ start_returned(t)
             \/ racy_syscall_returns(t) \/ end_returned(t)
      PROVE  UNCHANGED hvVars
  BY <1>7 DEF schedule_call, thread_exit, start_returned, racy_syscall_returns,
     end_returned
<1>8. ASSUME \/ \E r \in RaceInfo : receive_execute(r)
             \/ finish_race \/ cut_short \/ reply_execute \/ pass_barrier
      PROVE  UNCHANGED hvVars
  BY <1>8 DEF receive_execute, finish_race, cut_short, reply_execute, pass_barrier
<1> QED BY <1>1, <1>2, <1>3, <1>4, <1>5, <1>6, <1>7, <1>8 DEF ExNext, ExecutorStep,
         kill_child, child_exits

LEMMA GuestKeepsInv ==
    ASSUME ExInv, ExNext
    PROVE  Inv'
<1>1. Inv
  BY DEF ExInv
<1>2. CASE Next
  BY <1>1, <1>2, InvStep
<1>3. CASE UNCHANGED hvVars
  BY <1>1, <1>3 DEF hvVars, debugVars, argVars, flagVars, meetVars, raceVars, Inv,
     TypeOK, SleepersKnown, Blocked, WaitConcluded, RefreshBeforeGuest,
     TableTracked, ReadyIsDisarmed, StepExpected, NoLostWakeup
<1> QED BY <1>2, <1>3, ExecutorIsAGuest

----------------------------------------------------------------------------
(* Steps of the vCPU threads. *)

\* Only the second vCPU to stop can make the instructions meet.
LEMMA OnlySecondMeets ==
    ASSUME ExInv, NEW c \in CPU, met' = (met \/ Meeting(c)),
           \/ pc[c] # "loop" \/ ~wait_race[c]
           \/ phase[opponent(c)] # "SLEEPING"
    PROVE  met' = met
<1>1. met \in BOOLEAN
  BY Parts DEF ExTypeOK
<1>2. ~Meeting(c)
  BY DEF Meeting
<1> QED BY <1>1, <1>2

\* A step that touches neither a breakpoint nor a phase nor a verdict, and lets
\* the second vCPU go only if it is the first one that has stepped.
LEMMA QuietKeeps ==
    ASSUME ExInv, UNCHANGED <<exVars, debugVars, argVars, flagVars, meetVars, is_race>>,
           \A d \in CPU : pc'[d] = "wake" => pc[d] = "wake" \/ releases(d),
           can_go' = can_go \/ \E d \in CPU : releases(d)
    PROVE  ChildInv'
<1> USE Parts DEF exVars, childVars, raceExVars, workVars, debugVars, argVars, flagVars,
                  meetVars
<1>1. ExTypeOK' /\ ChildLife' /\ StatusFollows' /\ PageBounded'
  BY DEF ExTypeOK, ChildLife, StatusFollows, PageBounded, VerdictSurvivesKills, truth
<1>2. OneHit' /\ AddressesFresh'
  BY DEF OneHit, AddressesFresh, started, disarmed, noAddr
<1>3. VerdictsBounded' /\ ResultsKept'
  BY DEF VerdictsBounded, ResultsKept, started, bit
<1>4. NoLeftovers'
  BY DEF NoLeftovers, VerdictsAgree, clean, started, truth
<1>5. Ordered'
  BY DEF Ordered, releases
<1> QED BY <1>1, <1>2, <1>3, <1>4, <1>5 DEF ChildInv

\* The timed waits, the futex and the entry into the guest are quiet.
LEMMA WaitsKeep ==
    ASSUME ExInv, NEW c \in CPU, met' = (met \/ Meeting(c)),
           UNCHANGED <<childVars, raceExVars, workVars>>,
           \/ cond_timeout(c) \/ futex_wait(c) \/ futex_timeout(c)
           \/ set_can_go(c) \/ futex_wake(c) \/ enter_guest(c)
    PROVE  ChildInv'
<1> USE Parts DEF CPU, raceVars
<1>1. pc[c] # "loop"
  BY DEF cond_timeout, futex_wait, futex_timeout, set_can_go, futex_wake, enter_guest
<1>2. UNCHANGED exVars
  BY <1>1, OnlySecondMeets DEF exVars
<1>3. UNCHANGED <<debugVars, argVars, flagVars, meetVars, is_race>>
  BY DEF cond_timeout, futex_wait, futex_timeout, set_can_go, futex_wake, enter_guest
<1>4. \A d \in CPU : pc'[d] = "wake" => pc[d] = "wake" \/ releases(d)
  BY DEF cond_timeout, futex_wait, futex_timeout, set_can_go, futex_wake, enter_guest,
     TypeOK
<1>5. can_go' = can_go \/ \E d \in CPU : releases(d)
  BY DEF cond_timeout, futex_wait, futex_timeout, set_can_go, futex_wake, enter_guest
<1> QED BY <1>2, <1>3, <1>4, <1>5, QuietKeeps

\* So are the exits that need no handling and a spurious wakeup.
LEMMA OtherExitsKeep ==
    ASSUME ExInv, NEW c \in CPU, guest_other_exit(c) \/ host_spurious(c)
    PROVE  ChildInv'
<1>1. /\ UNCHANGED <<exVars, debugVars, argVars, flagVars, meetVars, is_race>>
      /\ can_go' = can_go
  BY DEF guest_other_exit, host_spurious, other_exit, cond_spurious, raceVars
<1>2. \A d \in CPU : pc'[d] = "wake" => pc[d] = "wake"
  BY Parts DEF guest_other_exit, host_spurious, other_exit, cond_spurious, TypeOK, CPU
<1> QED BY <1>1, <1>2, QuietKeeps

\* A vCPU that is not to wait: at most it forgets the addresses of the last run,
\* which it can only do before its START.
LEMMA PassKeeps ==
    ASSUME ExInv, NEW c \in CPU, wait_race_pass(c),
           met' = (met \/ Meeting(c)), UNCHANGED <<childVars, raceExVars, workVars>>
    PROVE  ChildInv'
<1> USE Parts DEF CPU, childVars, raceExVars, workVars, debugVars, argVars,
    flagVars, meetVars, raceVars
<1>1. met' = met
  BY OnlySecondMeets DEF wait_race_pass
<1>2. ExTypeOK' /\ ChildLife' /\ StatusFollows' /\ ResultsKept' /\ PageBounded'
  BY <1>1 DEF wait_race_pass, ExTypeOK, ChildLife, StatusFollows, ResultsKept,
     PageBounded, VerdictSurvivesKills, truth
<1>3. OneHit'
  BY <1>1 DEF wait_race_pass, OneHit, started, disarmed, TypeOK
<1>4. AddressesFresh'
  BY <1>1 DEF wait_race_pass, AddressesFresh, noAddr, TypeOK
<1>5. VerdictsBounded'
  BY <1>1 DEF wait_race_pass, VerdictsBounded, started, OneHit, TypeOK
<1>6. NoLeftovers'
  BY <1>1 DEF wait_race_pass, NoLeftovers, VerdictsAgree, clean, started, opponent, TypeOK,
     truth
<1>7. Ordered'
  BY <1>1 DEF wait_race_pass, Ordered
<1> QED BY <1>2, <1>3, <1>4, <1>5, <1>6, <1>7 DEF ChildInv

\* The first vCPU to stop: a breakpoint of its START has hit, so it had none
\* of the other phases in this run.
LEMMA FirstKeeps ==
    ASSUME ExInv, NEW c \in CPU, NEW op \in Operand, wait_race_first(c, op),
           met' = (met \/ Meeting(c)), UNCHANGED <<childVars, raceExVars, workVars>>
    PROVE  ChildInv'
<1> USE Parts DEF CPU, childVars, raceExVars, workVars, debugVars, argVars,
    flagVars, meetVars, raceVars
<1>1. met' = met
  BY OnlySecondMeets DEF wait_race_first
<1>2. ExTypeOK' /\ ChildLife' /\ StatusFollows' /\ ResultsKept' /\ PageBounded'
  BY <1>1 DEF wait_race_first, stopped, ExTypeOK, ChildLife, StatusFollows,
     ResultsKept, PageBounded, VerdictSurvivesKills, truth
<1>3. OneHit'
  BY <1>1 DEF wait_race_first, stopped, OneHit, started, disarmed
<1>4. AddressesFresh'
  BY <1>1 DEF wait_race_first, stopped, decode_writing, decode_reading,
     AddressesFresh, OneHit, noAddr, TypeOK
<1>5. VerdictsBounded'
  BY <1>1 DEF wait_race_first, stopped, VerdictsBounded, started, OneHit, opponent
<1>6. NoLeftovers'
  BY <1>1 DEF wait_race_first, NoLeftovers, VerdictsAgree, clean, started, truth
<1>7. Ordered'
  BY <1>1 DEF wait_race_first, Ordered
<1> QED BY <1>2, <1>3, <1>4, <1>5, <1>6, <1>7 DEF ChildInv

\* The second vCPU to stop, while the first one sleeps: this is where the
\* truth is decided.  A sleeper that is a leftover of the last child can make
\* this vCPU's verdict wrong, but not its own: its START resets that.
LEMMA SecondKeeps ==
    ASSUME ExInv, NEW c \in CPU, NEW op \in Operand, wait_race_second(c, op),
           met' = (met \/ Meeting(c)), UNCHANGED <<childVars, raceExVars, workVars>>
    PROVE  ChildInv'
<1> USE Parts DEF CPU, childVars, raceExVars, workVars, debugVars, argVars,
    flagVars, meetVars, raceVars
<1>1. ChildLife' /\ StatusFollows'
  BY DEF wait_race_second, conclude, stopped, ChildLife, StatusFollows
<1>2. ExTypeOK'
  BY DEF ExTypeOK
<1>3. OneHit'
  BY DEF wait_race_second, stopped, conclude, OneHit, started, disarmed, TypeOK
<1>4. AddressesFresh'
  BY DEF wait_race_second, stopped, conclude, decode_writing, decode_reading,
     AddressesFresh, OneHit, noAddr, TypeOK
<1>5. VerdictsBounded'
  BY DEF wait_race_second, stopped, conclude, Meeting, VerdictsBounded, started,
     Racing, OneHit, opponent, TypeOK, Phase, SleepersKnown, WaitConcluded
<1>6. ResultsKept'
  BY DEF wait_race_second, stopped, conclude, ResultsKept, OneHit
<1>7. PageBounded'
  BY DEF wait_race_second, stopped, Meeting, PageBounded, VerdictSurvivesKills,
     truth, ChildLife, TypeOK, WaitConcluded
<1>8. NoLeftovers'
  BY DEF wait_race_second, stopped, conclude, Meeting, NoLeftovers, VerdictsAgree, clean,
     started, Racing, opponent, ChildLife, TypeOK, SleepersKnown, WaitConcluded
<1>9. Ordered'
  BY DEF wait_race_second, conclude, Ordered
<1> QED BY <1>1, <1>2, <1>3, <1>4, <1>5, <1>6, <1>7, <1>8, <1>9 DEF ChildInv

\* The second vCPU to stop, when the first one has gone on: no race, and the
\* first one has not reported one either unless a leftover made it.
LEMMA LateKeeps ==
    ASSUME ExInv, NEW c \in CPU, NEW op \in Operand, wait_race_late(c, op),
           met' = (met \/ Meeting(c)), UNCHANGED <<childVars, raceExVars, workVars>>
    PROVE  ChildInv'
<1> USE Parts DEF CPU, childVars, raceExVars, workVars, debugVars, argVars,
    flagVars, meetVars, raceVars
<1>1. met' = met
  BY OnlySecondMeets DEF wait_race_late
<1>2. ExTypeOK' /\ ChildLife' /\ StatusFollows' /\ PageBounded'
  BY <1>1 DEF wait_race_late, conclude, stopped, ExTypeOK, ChildLife, StatusFollows,
     PageBounded, VerdictSurvivesKills, truth
<1>3. OneHit'
  BY <1>1 DEF wait_race_late, stopped, conclude, OneHit, started, disarmed, TypeOK
<1>4. AddressesFresh'
  BY <1>1 DEF wait_race_late, stopped, conclude, decode_writing, decode_reading,
     AddressesFresh, OneHit, noAddr, TypeOK
<1>5. VerdictsBounded'
  BY <1>1 DEF wait_race_late, stopped, conclude, VerdictsBounded, started, OneHit,
     opponent, TypeOK, Phase, SleepersKnown, Blocked
<1>6. ResultsKept'
  BY <1>1 DEF wait_race_late, stopped, conclude, ResultsKept, bit, OneHit
<1>7. NoLeftovers'
  BY <1>1 DEF wait_race_late, stopped, conclude, NoLeftovers, VerdictsAgree, clean,
     started, truth
<1>8. Ordered'
  BY <1>1 DEF wait_race_late, conclude, Ordered
<1> QED BY <1>2, <1>3, <1>4, <1>5, <1>6, <1>7, <1>8 DEF ChildInv

\* The first vCPU has the mutex back and concludes from the phase and the
\* addresses of its opponent.
LEMMA WakeKeeps ==
    ASSUME ExInv, NEW c \in CPU, wait_race_wake(c),
           met' = (met \/ Meeting(c)), UNCHANGED <<childVars, raceExVars, workVars>>
    PROVE  ChildInv'
<1> USE Parts DEF CPU, childVars, raceExVars, workVars, debugVars, argVars,
    flagVars, meetVars, raceVars
<1>1. met' = met
  BY OnlySecondMeets DEF wait_race_wake
<1>2. ExTypeOK' /\ ChildLife' /\ StatusFollows' /\ PageBounded'
  BY <1>1 DEF wait_race_wake, conclude, ExTypeOK, ChildLife, StatusFollows,
     PageBounded, VerdictSurvivesKills, truth
<1>3. OneHit'
  BY <1>1 DEF wait_race_wake, conclude, OneHit, started, disarmed, TypeOK,
     WaitConcluded, Blocked
<1>4. AddressesFresh'
  BY <1>1 DEF wait_race_wake, conclude, AddressesFresh, noAddr
<1>5. VerdictsBounded'
  BY <1>1 DEF wait_race_wake, conclude, both_bp_hit, VerdictsBounded, started,
     opponent, TypeOK, Phase, SleepersKnown, Blocked
<1>6. ResultsKept'
  BY <1>1 DEF wait_race_wake, conclude, ResultsKept, OneHit, WaitConcluded, Blocked
<1>7. NoLeftovers'
  BY <1>1 DEF wait_race_wake, conclude, NoLeftovers, VerdictsAgree, clean, VerdictsBounded,
     started, Racing, AddressesFresh, noAddr, same_address, opponent, ChildLife,
     TypeOK, Phase, SleepersKnown, WaitConcluded, Blocked
<1>8. Ordered'
  BY <1>1 DEF wait_race_wake, conclude, Ordered
<1> QED BY <1>2, <1>3, <1>4, <1>5, <1>6, <1>7, <1>8 DEF ChildInv

\* The step over the racy instruction is over; only the null address can be
\* armed again.
LEMMA StepTrapKeeps ==
    ASSUME ExInv, NEW c \in CPU, guest_step_trap(c)
    PROVE  ChildInv'
<1> USE Parts DEF CPU, exVars, childVars, raceExVars, workVars, argVars, flagVars,
    meetVars, raceVars
<1>1. ExTypeOK' /\ ChildLife' /\ StatusFollows' /\ AddressesFresh' /\
      VerdictsBounded' /\ ResultsKept' /\ PageBounded' /\ NoLeftovers'
  BY DEF guest_step_trap, handle_singlestep, step_exit, breakpoint_exit, Executing,
     insert_bp, insert_fails, step_off, ExTypeOK, ChildLife, StatusFollows,
     AddressesFresh, noAddr, VerdictsBounded, started, ResultsKept, PageBounded,
     VerdictSurvivesKills, truth, NoLeftovers, VerdictsAgree, clean
<1>2. OneHit'
  BY DEF guest_step_trap, handle_singlestep, insert_bp, OneHit, started, disarmed,
     TypeOK
<1>3. Ordered'
  BY DEF guest_step_trap, handle_singlestep, Ordered, TypeOK
<1> QED BY <1>1, <1>2, <1>3 DEF ChildInv

\* A hit: the vCPU is RUNNING, since a READY one has nothing armed, and its
\* breakpoint is now gone.
LEMMA HitKeeps ==
    ASSUME ExInv, NEW c \in CPU, guest_hits(c)
    PROVE  ChildInv'
<1> USE Parts, CodeAssumption DEF CPU, exVars, childVars, raceExVars, workVars,
    argVars, flagVars, meetVars, raceVars
<1>1. ExTypeOK' /\ ChildLife' /\ StatusFollows' /\ AddressesFresh' /\
      VerdictsBounded' /\ ResultsKept' /\ PageBounded'
  BY DEF guest_hits, handle_breakpoint, breakpoint_exit, Executing, ExTypeOK,
     ChildLife, StatusFollows, AddressesFresh, noAddr, VerdictsBounded, started,
     ResultsKept, PageBounded, VerdictSurvivesKills, truth
<1>2. OneHit'
  BY DEF guest_hits, handle_breakpoint, breakpoint_exit, OneHit, StatusFollows,
     started, disarmed, TypeOK, TableTracked, ReadyIsDisarmed
<1>3. NoLeftovers'
  BY DEF guest_hits, handle_breakpoint, breakpoint_exit, NoLeftovers, VerdictsAgree, clean,
     started, truth, ReadyIsDisarmed
<1>4. Ordered'
  BY DEF guest_hits, handle_breakpoint, breakpoint_exit, Ordered, VerdictsBounded,
     started, OneHit, disarmed, TypeOK, ReadyIsDisarmed, StatusFollows
<1> QED BY <1>1, <1>2, <1>3, <1>4 DEF ChildInv

----------------------------------------------------------------------------
(* Steps of the workers and of the fork server. *)

\* The main thread of the child hands a worker its first call.
LEMMA ScheduleKeeps ==
    ASSUME ExInv, NEW c \in CPU, schedule_call(c)
    PROVE  ChildInv'
<1> USE Parts DEF CPU, hvVars, debugVars, argVars, flagVars, meetVars, raceVars,
    childVars, raceExVars
<1>1. PageBounded' /\ Ordered'
  BY DEF schedule_call, PageBounded, VerdictSurvivesKills, truth, Ordered
<1>2. ExTypeOK'
  BY DEF schedule_call, ExTypeOK, Th
<1>3. ChildLife'
  BY DEF schedule_call, ChildLife
<1>4. StatusFollows'
  BY DEF schedule_call, StatusFollows, Racing
<1>5. OneHit'
  BY DEF schedule_call, OneHit, Racing, started, disarmed
<1>6. AddressesFresh'
  BY DEF schedule_call, AddressesFresh, noAddr
<1>7. VerdictsBounded'
  BY DEF schedule_call, VerdictsBounded, started, Racing
<1>8. ResultsKept'
  BY DEF schedule_call, ResultsKept
<1>9. NoLeftovers'
  BY DEF schedule_call, NoLeftovers, VerdictsAgree, clean, started, Racing
<1> QED BY <1>1, <1>2, <1>3, <1>4, <1>5, <1>6, <1>7, <1>8, <1>9 DEF ChildInv

\* REFRESH: whatever a child that was cut short left on this vCPU is gone.
LEMMA RefreshKeeps ==
    ASSUME ExInv, NEW c \in CPU, call_refresh(c)
    PROVE  ChildInv'
<1> USE Parts DEF CPU, childVars, raceExVars, raceVars
<1>1. PageBounded'
  BY DEF call_refresh, move, hypercall_command_refresh, Trapped, Executing,
     status_ready, only_hypercall_bp, PageBounded, VerdictSurvivesKills, truth
<1>2. ExTypeOK'
  BY DEF call_refresh, move, ExTypeOK, Th
<1>3. ChildLife'
  BY DEF call_refresh, move, ChildLife
<1>4. StatusFollows'
  BY DEF call_refresh, move, hypercall_command_refresh, status_ready, StatusFollows,
     Racing, TypeOK
<1>5. OneHit'
  BY DEF call_refresh, move, hypercall_command_refresh, OneHit, ResultsKept, Racing,
     started, disarmed, TypeOK
<1>6. AddressesFresh'
  BY DEF call_refresh, move, hypercall_command_refresh, AddressesFresh, noAddr,
     TypeOK
<1>7. VerdictsBounded'
  BY DEF call_refresh, move, hypercall_command_refresh, VerdictsBounded,
     ResultsKept, started, Racing
<1>8. ResultsKept'
  BY DEF call_refresh, move, hypercall_command_refresh, ResultsKept
<1>9. NoLeftovers'
  BY DEF call_refresh, move, hypercall_command_refresh, status_ready, NoLeftovers,
     VerdictsAgree, clean, started, Racing, ResultsKept
<1>10. Ordered'
  BY DEF call_refresh, move, hypercall_command_refresh, Trapped, Executing, Ordered,
     VerdictsBounded, started, Racing
<1> QED BY <1>1, <1>2, <1>3, <1>4, <1>5, <1>6, <1>7, <1>8, <1>9, <1>10 DEF ChildInv

\* START finds the vCPU READY, with no address: it is accepted.
LEMMA StartKeeps ==
    ASSUME ExInv, NEW c \in CPU, call_start(c)
    PROVE  ChildInv'
<1> USE Parts DEF CPU, childVars, raceExVars, debugVars, flagVars
<1>1. PageBounded'
  BY DEF call_start, move, hypercall_command_start, Trapped, Executing,
     start_result, insert_bp, insert_fails, PageBounded, VerdictSurvivesKills, truth
<1>2. ExTypeOK'
  BY DEF call_start, move, start_result, ExTypeOK, Th
<1>3. ChildLife'
  BY DEF call_start, move, ChildLife
<1>4. StatusFollows'
  BY DEF call_start, move, hypercall_command_start, start_result, StatusFollows,
     TypeOK
<1>5. OneHit'
  BY DEF call_start, move, hypercall_command_start, Trapped, Executing, OneHit,
     StatusFollows, started, disarmed, TypeOK, RefreshBeforeGuest
<1>6. AddressesFresh'
  BY DEF call_start, move, hypercall_command_start, Trapped, Executing,
     AddressesFresh, noAddr, TypeOK, RefreshBeforeGuest
<1>7. VerdictsBounded'
  BY DEF call_start, move, hypercall_command_start, VerdictsBounded, StatusFollows,
     started, opponent, TypeOK
<1>8. ResultsKept'
  BY DEF call_start, move, hypercall_command_start, ResultsKept, TypeOK
<1>9. NoLeftovers'
  BY DEF call_start, move, hypercall_command_start, NoLeftovers, VerdictsAgree, clean,
     started, Racing, opponent, TypeOK
<1>10. Ordered'
  BY DEF call_start, hypercall_command_start, Trapped, Ordered
<1> QED BY <1>1, <1>2, <1>3, <1>4, <1>5, <1>6, <1>7, <1>8, <1>9, <1>10 DEF ChildInv

\* START has returned to the worker.
LEMMA StartReturnedKeeps ==
    ASSUME ExInv, NEW c \in CPU, start_returned(c)
    PROVE  ChildInv'
<1> USE Parts DEF CPU, hvVars, debugVars, argVars, flagVars, meetVars, raceVars,
    childVars, raceExVars
<1>1. PageBounded' /\ Ordered'
  BY DEF start_returned, move, Executing, PageBounded, VerdictSurvivesKills, truth,
     Ordered
<1>2. ExTypeOK'
  BY DEF start_returned, move, ExTypeOK, Th
<1>3. ChildLife'
  BY DEF start_returned, move, ChildLife
<1>4. StatusFollows'
  BY DEF start_returned, move, StatusFollows, Racing
<1>5. OneHit'
  BY DEF start_returned, move, OneHit, Racing, started, disarmed
<1>6. AddressesFresh'
  BY DEF start_returned, move, AddressesFresh, noAddr
<1>7. VerdictsBounded'
  BY DEF start_returned, move, VerdictsBounded, started, Racing
<1>8. ResultsKept'
  BY DEF start_returned, move, ResultsKept
<1>9. NoLeftovers'
  BY DEF start_returned, move, NoLeftovers, VerdictsAgree, clean, started, Racing
<1> QED BY <1>1, <1>2, <1>3, <1>4, <1>5, <1>6, <1>7, <1>8, <1>9 DEF ChildInv

\* Both workers leave the barrier.
LEMMA BarrierKeeps ==
    ASSUME ExInv, pass_barrier
    PROVE  ChildInv'
<1> USE Parts DEF CPU, hvVars, debugVars, argVars, flagVars, meetVars, raceVars,
    childVars, raceExVars
<1>1. PageBounded' /\ Ordered'
  BY DEF pass_barrier, PageBounded, VerdictSurvivesKills, truth, Ordered
<1>2. ExTypeOK'
  BY DEF pass_barrier, ExTypeOK, Th
<1>3. ChildLife'
  BY DEF pass_barrier, ChildLife
<1>4. StatusFollows'
  BY DEF pass_barrier, StatusFollows, Racing
<1>5. OneHit'
  BY DEF pass_barrier, OneHit, Racing, started, disarmed
<1>6. AddressesFresh'
  BY DEF pass_barrier, AddressesFresh, noAddr
<1>7. VerdictsBounded'
  BY DEF pass_barrier, VerdictsBounded, started, Racing
<1>8. ResultsKept'
  BY DEF pass_barrier, ResultsKept
<1>9. NoLeftovers'
  BY DEF pass_barrier, NoLeftovers, VerdictsAgree, clean, started, Racing, opponent
<1> QED BY <1>1, <1>2, <1>3, <1>4, <1>5, <1>6, <1>7, <1>8, <1>9 DEF ChildInv

\* The racy call returns.
LEMMA SyscallKeeps ==
    ASSUME ExInv, NEW c \in CPU, racy_syscall_returns(c)
    PROVE  ChildInv'
<1> USE Parts DEF CPU, hvVars, debugVars, argVars, flagVars, meetVars, raceVars,
    childVars, raceExVars
<1>1. PageBounded' /\ Ordered'
  BY DEF racy_syscall_returns, move, Executing, PageBounded, VerdictSurvivesKills,
     truth, Ordered
<1>2. ExTypeOK'
  BY DEF racy_syscall_returns, move, ExTypeOK, Th
<1>3. ChildLife'
  BY DEF racy_syscall_returns, move, ChildLife
<1>4. StatusFollows'
  BY DEF racy_syscall_returns, move, StatusFollows, Racing
<1>5. OneHit'
  BY DEF racy_syscall_returns, move, OneHit, Racing, started, disarmed
<1>6. AddressesFresh'
  BY DEF racy_syscall_returns, move, AddressesFresh, noAddr
<1>7. VerdictsBounded'
  BY DEF racy_syscall_returns, move, VerdictsBounded, started, Racing
<1>8. ResultsKept'
  BY DEF racy_syscall_returns, move, ResultsKept
<1>9. NoLeftovers'
  BY DEF racy_syscall_returns, move, NoLeftovers, VerdictsAgree, clean, started, Racing
<1> QED BY <1>1, <1>2, <1>3, <1>4, <1>5, <1>6, <1>7, <1>8, <1>9 DEF ChildInv

\* END finds the vCPU RUNNING and hands over the verdict; the vCPU is in the
\* guest, so that the verdict is final.
LEMMA EndKeeps ==
    ASSUME ExInv, NEW c \in CPU, call_end(c)
    PROVE  ChildInv'
<1> USE Parts DEF CPU, childVars, raceExVars, debugVars, flagVars, meetVars,
    raceVars
<1>1. PageBounded'
  BY DEF call_end, move, hypercall_command_end, Trapped, Executing, end_result,
     PageBounded, VerdictSurvivesKills, truth
<1>2. ExTypeOK'
  BY DEF call_end, move, end_result, ExTypeOK, Th
<1>3. ChildLife'
  BY DEF call_end, move, ChildLife
<1>4. StatusFollows'
  BY DEF call_end, move, hypercall_command_end, end_result, StatusFollows, Racing,
     TypeOK
<1>5. OneHit'
  BY DEF call_end, move, hypercall_command_end, Trapped, Executing, OneHit, Racing,
     started, disarmed, TypeOK, WaitConcluded
<1>6. AddressesFresh'
  BY DEF call_end, move, hypercall_command_end, AddressesFresh, noAddr
<1>7. VerdictsBounded'
  BY DEF call_end, move, hypercall_command_end, VerdictsBounded, started, Racing
<1>8. ResultsKept'
  BY DEF call_end, move, hypercall_command_end, end_result, ResultsKept,
     StatusFollows, bit, Racing
<1>9. NoLeftovers'
  BY DEF call_end, move, hypercall_command_end, Trapped, Executing, NoLeftovers,
     VerdictsAgree, clean, StatusFollows, started, Racing, TypeOK, WaitConcluded
<1>10. Ordered'
  BY DEF call_end, hypercall_command_end, Trapped, Ordered
<1> QED BY <1>1, <1>2, <1>3, <1>4, <1>5, <1>6, <1>7, <1>8, <1>9, <1>10 DEF ChildInv

\* The worker stores the verdict.  When the second one does, both have been
\* concluded from the same meeting, or from none.
LEMMA EndReturnedKeeps ==
    ASSUME ExInv, NEW c \in CPU, end_returned(c)
    PROVE  ChildInv'
<1> USE Parts DEF CPU, hvVars, debugVars, argVars, flagVars, meetVars, raceVars,
    childVars
<1>1. PageBounded' /\ Ordered'
  BY DEF end_returned, move, Executing, PageBounded, VerdictSurvivesKills, truth,
     Ordered
<1>2. ExTypeOK'
  BY DEF end_returned, move, ExTypeOK, Th
<1>3. ChildLife'
  BY DEF end_returned, move, ChildLife
<1>4. StatusFollows'
  BY DEF end_returned, move, StatusFollows, Racing
<1>5. OneHit'
  BY DEF end_returned, move, OneHit, Racing, started, disarmed
<1>6. AddressesFresh'
  BY DEF end_returned, move, AddressesFresh, noAddr
<1>7. VerdictsBounded'
  BY DEF end_returned, move, VerdictsBounded, started
<1>8. ResultsKept'
  BY DEF end_returned, move, ResultsKept
<1>9. NoLeftovers'
  BY DEF end_returned, move, NoLeftovers, VerdictsAgree, clean, VerdictsBounded, started,
     Racing, TypeOK, ResultsKept, Phase, SleepersKnown, WaitConcluded
<1> QED BY <1>1, <1>2, <1>3, <1>4, <1>5, <1>6, <1>7, <1>8, <1>9 DEF ChildInv

\* The child is killed or ends early: nothing is claimed about its verdict.
LEMMA CutShortKeeps ==
    ASSUME ExInv, cut_short
    PROVE  ChildInv'
<1> USE Parts DEF CPU, hvVars, debugVars, argVars, flagVars, meetVars, raceVars,
    raceExVars, workVars
<1>1. StatusFollows' /\ OneHit' /\ AddressesFresh'
  BY DEF cut_short, StatusFollows, OneHit, started, disarmed, AddressesFresh,
     noAddr
<1>2. ExTypeOK'
  BY DEF cut_short, ExTypeOK
<1>3. ChildLife'
  BY DEF cut_short, ChildLife
<1>4. VerdictsBounded'
  BY DEF cut_short, VerdictsBounded
<1>5. ResultsKept'
  BY DEF cut_short, ResultsKept
<1>6. PageBounded'
  BY DEF cut_short, PageBounded, VerdictSurvivesKills, ChildLife
<1>7. NoLeftovers'
  BY DEF cut_short, NoLeftovers, VerdictsAgree, clean, ChildLife
<1>8. Ordered'
  BY DEF cut_short, Ordered
<1> QED BY <1>1, <1>2, <1>3, <1>4, <1>5, <1>6, <1>7, <1>8 DEF ChildInv

\* A thread of an exiting child dies.
LEMMA ExitKeeps ==
    ASSUME ExInv, NEW c \in CPU, thread_exit(c)
    PROVE  ChildInv'
<1> USE Parts DEF CPU, hvVars, debugVars, argVars, flagVars, meetVars, raceVars,
    childVars, raceExVars
<1>1. PageBounded' /\ Ordered'
  BY DEF thread_exit, PageBounded, VerdictSurvivesKills, truth, Ordered
<1>2. ExTypeOK'
  BY DEF thread_exit, ExTypeOK, Th
<1>3. ChildLife'
  BY DEF thread_exit, ChildLife
<1>4. StatusFollows'
  BY DEF thread_exit, StatusFollows, Racing
<1>5. OneHit'
  BY DEF thread_exit, OneHit, Racing, started, disarmed
<1>6. AddressesFresh'
  BY DEF thread_exit, AddressesFresh, noAddr
<1>7. VerdictsBounded'
  BY DEF thread_exit, VerdictsBounded
<1>8. ResultsKept'
  BY DEF thread_exit, ResultsKept
<1>9. NoLeftovers'
  BY DEF thread_exit, NoLeftovers, VerdictsAgree, clean, StatusFollows, ChildLife, truth
<1> QED BY <1>1, <1>2, <1>3, <1>4, <1>5, <1>6, <1>7, <1>8, <1>9 DEF ChildInv

\* The fork server reads the page and replies.
LEMMA ReplyKeeps ==
    ASSUME ExInv, reply_execute
    PROVE  ChildInv'
<1> USE Parts DEF CPU, hvVars, debugVars, argVars, flagVars, meetVars, raceVars,
    raceExVars, workVars
<1>1. StatusFollows' /\ OneHit' /\ AddressesFresh'
  BY DEF reply_execute, recv_race_result, StatusFollows, OneHit, started, disarmed,
     AddressesFresh, noAddr
<1>2. ExTypeOK'
  BY DEF reply_execute, recv_race_result, ExTypeOK
<1>3. ChildLife'
  BY DEF reply_execute, ChildLife
<1>4. VerdictsBounded'
  BY DEF reply_execute, VerdictsBounded
<1>5. ResultsKept'
  BY DEF reply_execute, ResultsKept
<1>6. PageBounded'
  BY DEF reply_execute, recv_race_result, PageBounded, VerdictSurvivesKills, truth
<1>7. NoLeftovers'
  BY DEF reply_execute, recv_race_result, NoLeftovers, VerdictsAgree, clean, truth
<1>8. Ordered'
  BY DEF reply_execute, Ordered
<1> QED BY <1>1, <1>2, <1>3, <1>4, <1>5, <1>6, <1>7, <1>8 DEF ChildInv

\* A request is accepted, and the fork server forks a child.
LEMMA RequestKeeps ==
    ASSUME ExInv, NEW r \in RaceInfo, receive_execute(r)
    PROVE  ChildInv'
<1> USE Parts DEF CPU, hvVars, debugVars, argVars, flagVars, meetVars, raceVars
<1>1. /\ child = "none" /\ child' = "running" /\ reply' = "none"
      /\ finished' = FALSE /\ tidy' = finished
      /\ race_info' \in RaceInfo /\ met' = FALSE /\ UNCHANGED race_pos
      /\ UNCHANGED <<pc, can_go, phase, writing_addr, reading_addr, is_refresh, hw_bps,
                     status, wait_race, go_first, wake_up, is_race>>
  BY PreparedIsRequest DEF receive_execute
<1>2. /\ \A t \in CPU : th'[t] = "idle" /\ ~race_done'[t]
      /\ th' \in [CPU -> Th] /\ rax' \in [CPU -> {-1, 0, 1}]
      /\ race_result' \in [CPU -> {0, 1}] /\ race_done' \in [CPU -> BOOLEAN]
  BY DEF receive_execute, Th
<1>3. ExTypeOK'
  <2>1. prog' \in 0..MaxProgs
    BY ExecutorAssumption DEF receive_execute, ExTypeOK
  <2>2. finished' \in BOOLEAN /\ tidy' \in BOOLEAN /\ met' \in BOOLEAN
    BY <1>1 DEF ExTypeOK
  <2> QED BY <1>1, <1>2, <2>1, <2>2 DEF ExTypeOK, RaceResult
<1>4. ChildLife' /\ StatusFollows' /\ ResultsKept' /\ PageBounded'
  BY <1>1, <1>2 DEF ChildLife, StatusFollows, ResultsKept, PageBounded,
     VerdictSurvivesKills, Racing
<1>5. OneHit' /\ AddressesFresh'
  BY <1>1, <1>2 DEF OneHit, AddressesFresh, Racing, started, noAddr
<1>6. VerdictsBounded'
  BY <1>1, <1>2 DEF VerdictsBounded, Racing, started
<1>7. NoLeftovers'
  <2>1. finished => \A t \in CPU : ~wait_race[t] /\ status[t] = "READY"
    BY <1>1 DEF NoLeftovers, clean, ChildLife, Racing
  <2>2. \A t \in CPU : ~wait_race[t] => phase[t] # "SLEEPING"
    BY DEF SleepersKnown, WaitConcluded
  <2> QED BY <1>1, <1>2, <2>1, <2>2 DEF NoLeftovers, VerdictsAgree, clean, Racing, started
<1>8. Ordered'
  BY <1>1 DEF Ordered
<1> QED BY <1>3, <1>4, <1>5, <1>6, <1>7, <1>8 DEF ChildInv

\* The main thread compares the verdicts.  Both have been handed over, so the
\* two workers are over, both of them have had their START, and none of them
\* sleeps any more.
LEMMA FinishKeeps ==
    ASSUME ExInv, finish_race
    PROVE  ChildInv'
<1> USE Parts DEF CPU, hvVars, debugVars, argVars, flagVars, meetVars, raceVars, workVars
<1>1. /\ child = "running" /\ child' = "exiting" /\ race_pos' = finish_result
      /\ \A t \in CPU : race_done[t]
      /\ UNCHANGED <<pc, can_go, phase, writing_addr, reading_addr, is_refresh, hw_bps,
                     status, wait_race, go_first, wake_up, is_race>>
      /\ finished'
      /\ UNCHANGED <<prog, race_info, reply, tidy, race_result, race_done, th, rax, met>>
  BY DEF finish_race
<1>2. \A t \in CPU : th[t] = "over" /\ race_result[t] = bit(is_race[t]) /\ started(t)
  BY <1>1 DEF ResultsKept, started
<1>3. \A t \in CPU : phase[t] # "SLEEPING"
  BY <1>2 DEF OneHit, SleepersKnown, WaitConcluded
<1>4. met => is_race[0] /\ is_race[1]
  BY <1>1, <1>3 DEF VerdictsBounded, TypeOK, Phase
<1>5. ~met => ~(is_race[0] /\ is_race[1])
  BY <1>1, <1>2 DEF VerdictsBounded
<1>6. is_race[0] \in BOOLEAN /\ is_race[1] \in BOOLEAN
  BY DEF TypeOK
<1>7. finish_result \in {truth, "RACE_RETRY"} /\ finish_result \in RaceResult
  BY <1>2, <1>4, <1>5, <1>6 DEF finish_result, truth, bit, RaceResult
<1>8. ExTypeOK' /\ ChildLife' /\ PageBounded'
  <2>1. truth' = truth
    BY <1>1 DEF truth
  <2>2. ExTypeOK'
    BY <1>1, <1>7 DEF ExTypeOK
  <2> QED BY <1>1, <1>2, <1>7, <2>1, <2>2 DEF ChildLife, PageBounded, VerdictSurvivesKills
<1>9. StatusFollows' /\ OneHit' /\ AddressesFresh' /\ VerdictsBounded' /\ ResultsKept'
  BY <1>1 DEF StatusFollows, OneHit, AddressesFresh, VerdictsBounded, ResultsKept,
     started, disarmed, noAddr
<1>10. NoLeftovers'
  <2>1. ASSUME tidy PROVE finish_result = truth
    <3>1. race_result[0] = race_result[1] /\ \A t \in CPU : is_race[t] => met
      BY <1>1, <1>2, <2>1 DEF NoLeftovers, VerdictsAgree, clean
    <3> QED BY <1>2, <1>4, <1>6, <3>1 DEF finish_result, truth, bit
  <2>2. truth' = truth
    BY <1>1 DEF truth
  <2>3. \A t \in CPU : ~wait_race[t] /\ status[t] = "READY"
    BY <1>2 DEF OneHit, StatusFollows
  <2> QED BY <1>1, <2>1, <2>2, <2>3 DEF NoLeftovers, VerdictsAgree, clean
<1>11. Ordered'
  BY <1>1 DEF Ordered
<1> QED BY <1>8, <1>9, <1>10, <1>11 DEF ChildInv

----------------------------------------------------------------------------
(* The theorems. *)

LEMMA ExInvStep ==
    ASSUME ExInv, ExNext
    PROVE  ExInv'
<1>1. ASSUME NEW c \in CPU, host_step(c) PROVE ChildInv'
  <2>1. HostStep(c) /\ met' = (met \/ Meeting(c)) /\ UNCHANGED <<childVars, raceExVars, workVars>>
    BY <1>1 DEF host_step
  <2>2. CASE wait_race_pass(c)
    BY <2>1, <2>2, PassKeeps
  <2>3. CASE \E op \in Operand : wait_race_first(c, op)
    BY <2>1, <2>3, FirstKeeps
  <2>4. CASE \E op \in Operand : wait_race_second(c, op)
    BY <2>1, <2>4, SecondKeeps
  <2>5. CASE \E op \in Operand : wait_race_late(c, op)
    BY <2>1, <2>5, LateKeeps
  <2>6. CASE wait_race_wake(c)
    BY <2>1, <2>6, WakeKeeps
  <2>7. CASE \/ cond_timeout(c) \/ futex_wait(c) \/ futex_timeout(c)
             \/ set_can_go(c) \/ futex_wake(c) \/ enter_guest(c)
    BY <2>1, <2>7, WaitsKeep
  <2> QED BY <2>1, <2>2, <2>3, <2>4, <2>5, <2>6, <2>7 DEF HostStep
<1>2. ASSUME NEW c \in CPU, \/ host_spurious(c) \/ guest_step_trap(c)
                            \/ guest_hits(c) \/ guest_other_exit(c)
      PROVE  ChildInv'
  BY <1>2, StepTrapKeeps, HitKeeps, OtherExitsKeep
<1>3. ASSUME NEW t \in CPU, ExecutorStep(t) PROVE ChildInv'
  BY <1>3, ScheduleKeeps, ExitKeeps, RefreshKeeps, StartKeeps, StartReturnedKeeps,
     SyscallKeeps, EndKeeps, EndReturnedKeeps DEF ExecutorStep
<1>4. ChildInv'
  BY <1>1, <1>2, <1>3, RequestKeeps, FinishKeeps, CutShortKeeps, ReplyKeeps,
     BarrierKeeps DEF ExNext, kill_child, child_exits
<1> QED BY <1>4, GuestKeepsInv DEF ExInv

\* The invariant holds for every request, interleaving and early end of a child.
THEOREM ExInvHolds == ExSpec => []ExInv
<1>1. ExInit => ExInv
  <2> SUFFICES ASSUME ExInit PROVE ExInv
    OBVIOUS
  <2>1. Inv
    BY CodeAssumption DEF ExInit, Init, Inv, TypeOK, SleepersKnown, WaitConcluded,
       RefreshBeforeGuest, TableTracked, ReadyIsDisarmed, StepExpected,
       NoLostWakeup, Blocked, BpAddr, CPU, PC, Phase, Status
  <2>2. ExTypeOK
    <3>1. prog \in 0..MaxProgs /\ th \in [CPU -> Th]
      BY ExecutorAssumption DEF ExInit, Th
    <3> QED BY <3>1 DEF ExInit, ExTypeOK, RaceResult
  <2>3. /\ ChildLife /\ StatusFollows /\ VerdictsBounded /\ ResultsKept /\ PageBounded
        /\ Ordered
    BY DEF ExInit, Init, ChildLife, StatusFollows, VerdictsBounded, ResultsKept,
       PageBounded, VerdictSurvivesKills, Ordered, Racing, CPU
  <2>4. OneHit /\ AddressesFresh
    BY DEF ExInit, Init, OneHit, AddressesFresh, started, noAddr, Racing, CPU
  <2>5. NoLeftovers
    BY DEF ExInit, Init, NoLeftovers, VerdictsAgree, clean, truth, CPU
  <2> QED BY <2>1, <2>2, <2>3, <2>4, <2>5 DEF ExInv, ChildInv
<1>2. ExInv /\ UNCHANGED vars => ExInv'
  <2> SUFFICES ASSUME ExInv, UNCHANGED vars PROVE ExInv'
    OBVIOUS
  <2>1. UNCHANGED hvVars /\ UNCHANGED exVars
    BY DEF vars
  <2>2. ChildInv'
    <3>1. /\ UNCHANGED <<exVars, debugVars, argVars, flagVars, meetVars, is_race>>
          /\ pc' = pc /\ can_go' = can_go
      BY <2>1 DEF hvVars, raceVars
    <3> QED BY <3>1, QuietKeeps
  <2>3. Inv'
    BY <2>1 DEF ExInv, hvVars, debugVars, argVars, flagVars, meetVars, raceVars, Inv,
       TypeOK, SleepersKnown, Blocked, WaitConcluded, RefreshBeforeGuest,
       TableTracked, ReadyIsDisarmed, StepExpected, NoLostWakeup
  <2> QED BY <2>2, <2>3 DEF ExInv
<1>3. ExInv /\ [ExNext]_vars => ExInv'
  BY <1>2, ExInvStep
<1> QED BY <1>1, <1>3, PTL DEF ExSpec

\* The state of the fork server, the child and its workers keeps its types.
THEOREM ExTypeCorrect == ExSpec => []ExTypeOK
<1>1. ExInv => ExTypeOK
  BY Parts
<1> QED BY <1>1, ExInvHolds, PTL

\* The executor's own commands never make a vCPU deaf: whatever happens to its
\* children, both vCPUs trap every hypercall.
THEOREM TrapStaysArmed == ExSpec => []TrapArmed
<1>1. ExInit => TrapArmed
  BY DEF ExInit, Init, TrapArmed
<1>2. ASSUME ExInv, TrapArmed, [ExNext]_vars PROVE TrapArmed'
  <2>1. Next \/ UNCHANGED hvVars
    BY <1>2, ExecutorIsAGuest DEF vars
  <2>2. CASE Next
    <3>1. TrapKept
      BY <1>2, <2>2, TrapStep DEF ExInv
    <3>2. \A c \in CPU : inserted_breakpoint[c] # HypercallAddr
      BY <1>2, Parts, ExecutorAssumption, CodeAssumption DEF TypeOK, BpAddr
    <3> QED BY <1>2, <3>1, <3>2 DEF TrapKept, LosesTrap, TrapArmed
  <2>3. CASE UNCHANGED hvVars
    BY <1>2, <2>3 DEF hvVars, debugVars, TrapArmed
  <2> QED BY <2>1, <2>2, <2>3
<1> QED BY <1>1, <1>2, ExInvHolds, PTL DEF ExSpec

\* CommandsSucceed: START and END are accepted whatever a child that was cut
\* short left on the vCPUs.
THEOREM CommandsAlwaysSucceed == ExSpec => []CommandsSucceed
<1>1. ExInv => CommandsSucceed
  BY Parts DEF StatusFollows, CommandsSucceed
<1> QED BY <1>1, ExInvHolds, PTL

\* VerdictSurvivesKills: a child that reached send_race_result never makes the
\* executor reply the wrong verdict, whatever the children cut short before it
\* left behind.
THEOREM VerdictsSurviveKills == ExSpec => []VerdictSurvivesKills
<1>1. ExInv => VerdictSurvivesKills
  BY Parts DEF PageBounded
<1> QED BY <1>1, ExInvHolds, PTL

\* VerdictsAgree: the two vCPUs report the same verdict in a child that follows
\* a finished one.
THEOREM VerdictsAlwaysAgree == ExSpec => []VerdictsAgree
<1>1. ExInv => VerdictsAgree
  BY Parts DEF NoLeftovers
<1> QED BY <1>1, ExInvHolds, PTL

\* VerdictIsTrue: whichever children are killed or end early, the executor
\* implements the race oracle: the reply to a finished child is the truth about
\* its request if the child before it was finished too, and otherwise the truth
\* or RACE_RETRY.
THEOREM RepliesAreTrue == ExSpec => VerdictIsTrue
<1>1. ExInit => Oracle!OracleInit
  BY DEF ExInit, Oracle!OracleInit
<1>2. ASSUME ExInv, [ExNext]_vars
      PROVE  [Oracle!OracleNext]_Oracle!oracleVars
  <2> USE Parts DEF Oracle!oracleVars
  <2>1. CASE UNCHANGED vars
    BY <2>1 DEF vars, exVars, childVars, raceExVars
  <2>2. ASSUME NEW r \in RaceInfo, receive_execute(r) PROVE Oracle!Request
    BY <2>2 DEF receive_execute, Oracle!Request
  <2>3. CASE reply_execute
    BY <2>3 DEF reply_execute, recv_race_result, raceExVars, Oracle!OracleNext,
       Oracle!Reply
  <2>4. CASE finish_race
    <3>1. ChildInv'
      BY <1>2, <2>4, FinishKeeps
    <3>2. race_pos' \in {truth, "RACE_RETRY"} /\ (tidy => race_pos' = truth)
      BY <2>4, <3>1 DEF ChildInv, PageBounded, NoLeftovers, finish_race, truth
    <3> QED BY <1>2, <2>4, <3>2 DEF finish_race, truth, ChildLife, Oracle!OracleNext,
               Oracle!Complete
  <2>8. CASE kill_child \/ child_exits
    BY <2>8 DEF kill_child, child_exits, cut_short, raceExVars
  <2>5. ASSUME NEW c \in CPU, host_step(c)
        PROVE  UNCHANGED Oracle!oracleVars \/ Oracle!Meet
    <3>1. CASE ~Meeting(c)
      BY <1>2, <2>5, <3>1 DEF host_step, childVars, raceExVars, ExTypeOK
    <3>2. CASE Meeting(c)
      <4>1. child # "none" /\ ~finished
        BY <1>2, <3>2 DEF Meeting, ChildLife, ExTypeOK, CPU
      <4> QED BY <2>5, <3>2, <4>1 DEF host_step, childVars, raceExVars, Oracle!Meet
    <3> QED BY <3>1, <3>2
  <2>6. ASSUME NEW c \in CPU, \/ host_spurious(c) \/ guest_step_trap(c) \/ guest_hits(c)
                              \/ guest_other_exit(c) \/ ExecutorStep(c)
        PROVE  UNCHANGED <<child, met, reply, finished, tidy, race_pos>>
    BY <2>6 DEF host_spurious, guest_step_trap, guest_hits, guest_other_exit, exVars,
       ExecutorStep, schedule_call, thread_exit, call_refresh, call_start,
       start_returned, racy_syscall_returns, call_end, end_returned, childVars, raceExVars
  <2>7. CASE pass_barrier
    BY <2>7 DEF pass_barrier, childVars, raceExVars
  <2> QED BY <1>2, <2>1, <2>2, <2>3, <2>4, <2>5, <2>6, <2>7, <2>8
          DEF ExNext, Oracle!OracleNext
<1> QED BY <1>1, <1>2, ExInvHolds, PTL DEF ExSpec, VerdictIsTrue, Oracle!OracleSpec

\* A step moves one vCPU, unless it wakes or broadcasts to the other one.
LEMMA OneMoves ==
    ASSUME ExInv, ExNext
    PROVE  \E d \in CPU : \/ \A e \in CPU : e # d => pc'[e] = pc[e]
                           \/ futex_wake(d) \/ \E op \in Operand : wait_race_second(d, op)
<1> USE Parts DEF CPU, TypeOK
<1>1. ASSUME NEW d \in CPU, HostStep(d), ~futex_wake(d),
             \A op \in Operand : ~wait_race_second(d, op)
      PROVE  \A e \in CPU : e # d => pc'[e] = pc[e]
  BY <1>1 DEF HostStep, wait_race_pass, wait_race_late, wait_race_first, cond_timeout,
     wait_race_wake, futex_wait, futex_timeout, set_can_go, enter_guest
<1>2. ASSUME NEW d \in CPU,
             \/ host_spurious(d) \/ guest_step_trap(d) \/ guest_hits(d)
             \/ guest_other_exit(d) \/ call_refresh(d) \/ call_start(d) \/ call_end(d)
      PROVE  \A e \in CPU : e # d => pc'[e] = pc[e]
  BY <1>2 DEF host_spurious, cond_spurious, guest_step_trap, handle_singlestep, guest_hits,
     handle_breakpoint, guest_other_exit, other_exit, call_refresh,
     hypercall_command_refresh, call_start, hypercall_command_start, call_end,
     hypercall_command_end, Trapped
<1>3. ASSUME NEW d \in CPU,
             \/ schedule_call(d) \/ thread_exit(d) \/ start_returned(d)
             \/ racy_syscall_returns(d) \/ end_returned(d)
      PROVE  pc' = pc
  BY <1>3 DEF schedule_call, thread_exit, start_returned, racy_syscall_returns,
     end_returned, hvVars
<1>4. ASSUME \/ \E r \in RaceInfo : receive_execute(r)
             \/ finish_race \/ cut_short \/ reply_execute \/ pass_barrier
      PROVE  pc' = pc
  BY <1>4 DEF receive_execute, finish_race, cut_short, reply_execute, pass_barrier, hvVars
<1> QED BY <1>1, <1>2, <1>3, <1>4 DEF ExNext, ExecutorStep, host_step, kill_child,
         child_exits

\* ScheduleEnforced: in a child that follows a finished one, a vCPU that is to
\* go second resumes only by the time limit of its wait, or after its opponent
\* has executed its racy instruction.
THEOREM ScheduleIsEnforced == ExSpec => ScheduleEnforced
<1>1. ASSUME ExInv, NEW c \in CPU, Resumes(c), can_go = 1
      PROVE  go_first[opponent(c)] /\ wake_up[opponent(c)]
  <2>1. /\ status[c] = "RUNNING" /\ is_race[c] /\ ~go_first[c]
        /\ pc[c] \in {"post", "futex"} /\ child = "running" /\ tidy
    BY <1>1 DEF Resumes, holds_back
  <2>2. th[c] \in Racing
    BY <1>1, <2>1, Parts DEF NoLeftovers, clean
  <2>3. child = "running"
    BY <2>1
  <2>4. met
    BY <1>1, <2>1, <2>2, <2>3, Parts DEF NoLeftovers, started
  <2>5. PICK d \in CPU : go_first[d] /\ wake_up[d]
    BY <1>1, <2>3, <2>4, Parts DEF Ordered
  <2> QED BY <2>1, <2>5 DEF CPU, opponent
<1>2. ASSUME ExInv, ExNext, NEW c \in CPU, Resumes(c), can_go # 1
      PROVE  \/ can_go = 0 /\ UNCHANGED pc[opponent(c)]
             \/ go_first[opponent(c)] /\ wake_up[opponent(c)]
  <2>1. can_go = 0 /\ pc \in [CPU -> PC] /\ pc[c] \in {"post", "futex"} /\ pc'[c] = "run"
    BY <1>2, Parts DEF TypeOK, Resumes
  <2>2. CASE pc[opponent(c)] = "wake"
    BY <1>2, <2>2, Parts DEF Ordered, CPU, opponent
  <2>3. CASE pc[opponent(c)] # "wake"
    <3>1. PICK d \in CPU : \/ \A e \in CPU : e # d => pc'[e] = pc[e]
                           \/ futex_wake(d) \/ \E op \in Operand : wait_race_second(d, op)
      BY <1>2, OneMoves
    <3>2. ~futex_wake(d)
      BY <2>1, <2>3 DEF futex_wake, CPU, opponent
    <3>3. \A op \in Operand : ~wait_race_second(d, op)
      BY <2>1 DEF wait_race_second, stopped, CPU
    <3> QED BY <2>1, <3>1, <3>2, <3>3 DEF CPU, opponent
  <2> QED BY <2>2, <2>3
<1>3. ExInv /\ [ExNext]_vars =>
        [\A c \in CPU : Resumes(c) =>
            \/ can_go = 0 /\ UNCHANGED pc[opponent(c)]
            \/ go_first[opponent(c)] /\ wake_up[opponent(c)]]_vars
  BY <1>1, <1>2
<1> QED BY <1>3, ExInvHolds, PTL DEF ExSpec, ScheduleEnforced
=============================================================================
