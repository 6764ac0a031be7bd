-------------------------- MODULE HypercallProofs --------------------------
(***************************************************************************)
(* The safety properties of Hypercall for every guest: any addresses given *)
(* to START, the hypercall nop's included, any data addresses, guest       *)
(* threads and schedules.                                                  *)
(*                                                                         *)
(* SleepersKnown and NoLostWakeup are inductive together with TypeOK.      *)
(* WaitConcluded and TableTracked are not: a hit may set wait_race         *)
(* only because no refresh is pending while the guest runs                 *)
(* (RefreshBeforeGuest), and START may overwrite inserted_breakpoint only  *)
(* because a READY vCPU has no breakpoint armed (ReadyIsDisarmed).         *)
(***************************************************************************)
EXTENDS Hypercall, TLAPS

\* A pending refresh is finished by the next wait_race, before the guest runs.
RefreshBeforeGuest == \A c \in CPU : is_refresh[c] => pc[c] = "loop"

\* A vCPU that accepts a START has no breakpoint of an earlier run armed.
ReadyIsDisarmed ==
    \A c \in CPU : status[c] = "READY" => hw_bps[c] \subseteq {HypercallAddr, 0}

Inv ==
    /\ TypeOK
    /\ SleepersKnown
    /\ WaitConcluded
    /\ RefreshBeforeGuest
    /\ TableTracked
    /\ ReadyIsDisarmed
    /\ StepExpected
    /\ NoLostWakeup

\* The flags of CPUState stay Boolean when one of them is assigned.
LEMMA BooleanUpdate ==
    ASSUME NEW f \in [CPU -> BOOLEAN], NEW d \in CPU, NEW b \in BOOLEAN
    PROVE  [f EXCEPT ![d] = b] \in [CPU -> BOOLEAN]
    OBVIOUS

\* One step of either vCPU thread or of the guest keeps the invariant.
LEMMA InvStep ==
    ASSUME Inv, Next
    PROVE  Inv'
<1> USE CodeAssumption, DataAssumption DEF CPU, debugVars, argVars, flagVars, meetVars, raceVars
<1>inv. TypeOK /\ SleepersKnown /\ WaitConcluded /\ RefreshBeforeGuest
        /\ TableTracked /\ ReadyIsDisarmed /\ StepExpected /\ NoLostWakeup
    BY DEF Inv
<1>c. PICK c \in CPU : HostStep(c) \/ cond_spurious(c) \/ GuestStep(c)
    BY DEF Next
<1>1. CASE wait_race_pass(c)
  <2>1. TypeOK'
    <3>1. pc' \in [CPU -> PC]
        BY <1>inv, <1>1 DEF TypeOK, wait_race_pass, PC
    <3>2. is_refresh' \in [CPU -> BOOLEAN]
      <4>1. is_refresh' = [is_refresh EXCEPT ![c] = FALSE] \/ is_refresh' = is_refresh
          BY <1>1 DEF wait_race_pass
      <4>2. is_refresh \in [CPU -> BOOLEAN]
          BY <1>inv DEF TypeOK
      <4>3. [is_refresh EXCEPT ![c] = FALSE] \in [CPU -> BOOLEAN]
          BY <4>2, BooleanUpdate, Zenon
      <4> QED BY <4>1, <4>2, <4>3, Zenon
    <3>3. writing_addr' \in [CPU -> Addr \cup {0}]
        BY <1>inv, <1>1 DEF TypeOK, wait_race_pass
    <3>4. reading_addr' \in [CPU -> Addr \cup {0}]
        BY <1>inv, <1>1 DEF TypeOK, wait_race_pass
    <3>5. phase' \in [CPU -> Phase]
        BY <1>inv, <1>1 DEF TypeOK, wait_race_pass, Phase
    <3>6. done' \in [CPU -> BOOLEAN]
      <4>1. done' = [done EXCEPT ![c] = FALSE] \/ done' = done
          BY <1>1 DEF wait_race_pass
      <4>2. done \in [CPU -> BOOLEAN]
          BY <1>inv DEF TypeOK
      <4>3. [done EXCEPT ![c] = FALSE] \in [CPU -> BOOLEAN]
          BY <4>2, BooleanUpdate, Zenon
      <4> QED BY <4>1, <4>2, <4>3, Zenon
    <3> QED BY <1>inv, <1>1, <3>1, <3>2, <3>3, <3>4, <3>5, <3>6 DEF TypeOK,
       wait_race_pass
  <2>2. SleepersKnown'
    <3>1. CASE is_refresh[c]
        BY <1>inv, <1>1, <3>1 DEF SleepersKnown, wait_race_pass, Blocked,
           WaitConcluded, TypeOK
    <3>2. CASE ~is_refresh[c]
        BY <1>inv, <1>1, <3>2 DEF SleepersKnown, wait_race_pass, Blocked,
           WaitConcluded, TypeOK
    <3> QED BY <3>1, <3>2
  <2>3. WaitConcluded'
    <3>1. CASE is_refresh[c]
        BY <1>inv, <1>1, <3>1 DEF WaitConcluded, wait_race_pass, Blocked, TypeOK
    <3>2. CASE ~is_refresh[c]
        BY <1>inv, <1>1, <3>2 DEF WaitConcluded, wait_race_pass, Blocked, TypeOK
    <3> QED BY <3>1, <3>2
  <2>4. RefreshBeforeGuest'
    <3>1. CASE is_refresh[c]
        BY <1>inv, <1>1, <3>1 DEF RefreshBeforeGuest, wait_race_pass, TypeOK
    <3>2. CASE ~is_refresh[c]
        BY <1>inv, <1>1, <3>2 DEF RefreshBeforeGuest, wait_race_pass, TypeOK
    <3> QED BY <3>1, <3>2
  <2>5. TableTracked' /\ ReadyIsDisarmed' /\ StepExpected'
      BY <1>inv, <1>1 DEF TableTracked, ReadyIsDisarmed, StepExpected,
         wait_race_pass
  <2>6. NoLostWakeup'
      BY <1>inv, <1>1 DEF NoLostWakeup, wait_race_pass, opponent
  <2> QED BY <2>1, <2>2, <2>3, <2>4, <2>5, <2>6 DEF Inv
<1>2. ASSUME NEW op \in Operand, wait_race_second(c, op) PROVE Inv'
  <2>1. TypeOK'
      BY <1>inv, <1>2 DEF TypeOK, wait_race_second, stopped, conclude, PC,
         Phase, Status, decode_writing, decode_reading, Operand, same_address
  <2>2. SleepersKnown'
      BY <1>inv, <1>2 DEF SleepersKnown, wait_race_second, stopped, conclude,
         Blocked, opponent
  <2>3. WaitConcluded'
      BY <1>inv, <1>2 DEF WaitConcluded, wait_race_second, stopped, conclude,
         Blocked, TypeOK
  <2>4. RefreshBeforeGuest'
      BY <1>inv, <1>2 DEF RefreshBeforeGuest, wait_race_second, stopped,
         conclude, WaitConcluded, TypeOK
  <2>5. TableTracked' /\ ReadyIsDisarmed' /\ StepExpected'
      BY <1>inv, <1>2 DEF TableTracked, ReadyIsDisarmed, StepExpected,
         wait_race_second, stopped, conclude
  <2>6. NoLostWakeup'
      BY <1>inv, <1>2 DEF NoLostWakeup, wait_race_second, stopped, conclude,
         opponent
  <2> QED BY <2>1, <2>2, <2>3, <2>4, <2>5, <2>6 DEF Inv
<1>3. ASSUME NEW op \in Operand, wait_race_late(c, op) PROVE Inv'
  <2>1. TypeOK'
      BY <1>inv, <1>3 DEF TypeOK, wait_race_late, stopped, conclude, PC, Phase,
         Status, decode_writing, decode_reading, Operand
  <2>2. SleepersKnown'
      BY <1>inv, <1>3 DEF SleepersKnown, wait_race_late, stopped, conclude,
         Blocked, opponent
  <2>3. WaitConcluded'
      BY <1>inv, <1>3 DEF WaitConcluded, wait_race_late, stopped, conclude,
         Blocked, TypeOK
  <2>4. RefreshBeforeGuest'
      BY <1>inv, <1>3 DEF RefreshBeforeGuest, wait_race_late, stopped,
         conclude, WaitConcluded, TypeOK
  <2>5. TableTracked' /\ ReadyIsDisarmed' /\ StepExpected'
      BY <1>inv, <1>3 DEF TableTracked, ReadyIsDisarmed, StepExpected,
         wait_race_late, stopped, conclude
  <2>6. NoLostWakeup'
      BY <1>inv, <1>3 DEF NoLostWakeup, wait_race_late, stopped, conclude,
         opponent
  <2> QED BY <2>1, <2>2, <2>3, <2>4, <2>5, <2>6 DEF Inv
<1>4. ASSUME NEW op \in Operand, wait_race_first(c, op) PROVE Inv'
  <2>1. TypeOK'
      BY <1>inv, <1>4 DEF TypeOK, wait_race_first, stopped, PC, Phase, Status,
         decode_writing, decode_reading, Operand
  <2>2. SleepersKnown'
      BY <1>inv, <1>4 DEF SleepersKnown, wait_race_first, stopped, Blocked,
         opponent, TypeOK
  <2>3. WaitConcluded'
      BY <1>inv, <1>4 DEF WaitConcluded, wait_race_first, stopped, Blocked
  <2>4. RefreshBeforeGuest'
      BY <1>inv, <1>4 DEF RefreshBeforeGuest, wait_race_first, stopped,
         WaitConcluded, TypeOK
  <2>5. TableTracked' /\ ReadyIsDisarmed' /\ StepExpected'
      BY <1>inv, <1>4 DEF TableTracked, ReadyIsDisarmed, StepExpected,
         wait_race_first, stopped
  <2>6. NoLostWakeup'
      BY <1>inv, <1>4 DEF NoLostWakeup, wait_race_first, stopped, opponent
  <2> QED BY <2>1, <2>2, <2>3, <2>4, <2>5, <2>6 DEF Inv
<1>5. CASE cond_timeout(c)
  <2>1. TypeOK'
      BY <1>inv, <1>5 DEF TypeOK, cond_timeout, PC, Phase, Status
  <2>2. SleepersKnown'
      BY <1>inv, <1>5 DEF SleepersKnown, cond_timeout, Blocked
  <2>3. WaitConcluded'
      BY <1>inv, <1>5 DEF WaitConcluded, cond_timeout, Blocked
  <2>4. RefreshBeforeGuest'
      BY <1>inv, <1>5 DEF RefreshBeforeGuest, cond_timeout
  <2>5. TableTracked' /\ ReadyIsDisarmed' /\ StepExpected'
      BY <1>inv, <1>5 DEF TableTracked, ReadyIsDisarmed, StepExpected,
         cond_timeout
  <2>6. NoLostWakeup'
      BY <1>inv, <1>5 DEF NoLostWakeup, cond_timeout, opponent
  <2> QED BY <2>1, <2>2, <2>3, <2>4, <2>5, <2>6 DEF Inv
<1>6. CASE cond_spurious(c)
  <2>1. TypeOK'
      BY <1>inv, <1>6 DEF TypeOK, cond_spurious, PC, Phase, Status
  <2>2. SleepersKnown'
      BY <1>inv, <1>6 DEF SleepersKnown, cond_spurious, Blocked
  <2>3. WaitConcluded'
      BY <1>inv, <1>6 DEF WaitConcluded, cond_spurious, Blocked
  <2>4. RefreshBeforeGuest'
      BY <1>inv, <1>6 DEF RefreshBeforeGuest, cond_spurious
  <2>5. TableTracked' /\ ReadyIsDisarmed' /\ StepExpected'
      BY <1>inv, <1>6 DEF TableTracked, ReadyIsDisarmed, StepExpected,
         cond_spurious
  <2>6. NoLostWakeup'
      BY <1>inv, <1>6 DEF NoLostWakeup, cond_spurious, opponent
  <2> QED BY <2>1, <2>2, <2>3, <2>4, <2>5, <2>6 DEF Inv
<1>7. CASE wait_race_wake(c)
  <2>1. TypeOK'
      BY <1>inv, <1>7 DEF TypeOK, wait_race_wake, conclude, PC, Phase, Status,
         same_address, both_bp_hit
  <2>2. SleepersKnown'
      BY <1>inv, <1>7 DEF SleepersKnown, wait_race_wake, conclude, Blocked,
         TypeOK
  <2>3. WaitConcluded'
      BY <1>inv, <1>7 DEF WaitConcluded, wait_race_wake, conclude, Blocked,
         TypeOK
  <2>4. RefreshBeforeGuest'
      BY <1>inv, <1>7 DEF RefreshBeforeGuest, wait_race_wake, conclude
  <2>5. TableTracked' /\ ReadyIsDisarmed' /\ StepExpected'
      BY <1>inv, <1>7 DEF TableTracked, ReadyIsDisarmed, StepExpected,
         wait_race_wake, conclude
  <2>6. NoLostWakeup'
      BY <1>inv, <1>7 DEF NoLostWakeup, wait_race_wake, conclude, opponent
  <2> QED BY <2>1, <2>2, <2>3, <2>4, <2>5, <2>6 DEF Inv
<1>8. CASE futex_wait(c)
  <2>1. TypeOK'
    <3>1. pc' \in [CPU -> PC]
        BY <1>inv, <1>8 DEF TypeOK, futex_wait, PC
    <3>2. done' \in [CPU -> BOOLEAN]
      <4>1. done' = [done EXCEPT ![c] = TRUE] \/ done' = done
          BY <1>8 DEF futex_wait
      <4>2. done \in [CPU -> BOOLEAN]
          BY <1>inv DEF TypeOK
      <4>3. [done EXCEPT ![c] = TRUE] \in [CPU -> BOOLEAN]
          BY <4>2, BooleanUpdate, Zenon
      <4> QED BY <4>1, <4>2, <4>3, Zenon
    <3> QED BY <1>inv, <1>8, <3>1, <3>2 DEF TypeOK, futex_wait
  <2>2. SleepersKnown'
    <3>1. CASE can_go = 0
        BY <1>inv, <1>8, <3>1 DEF SleepersKnown, futex_wait, Blocked, TypeOK
    <3>2. CASE ~(can_go = 0)
        BY <1>inv, <1>8, <3>2 DEF SleepersKnown, futex_wait, Blocked, TypeOK
    <3> QED BY <3>1, <3>2
  <2>3. WaitConcluded'
    <3>1. CASE can_go = 0
        BY <1>inv, <1>8, <3>1 DEF WaitConcluded, futex_wait, Blocked, TypeOK
    <3>2. CASE ~(can_go = 0)
        BY <1>inv, <1>8, <3>2 DEF WaitConcluded, futex_wait, Blocked, TypeOK
    <3> QED BY <3>1, <3>2
  <2>4. RefreshBeforeGuest'
    <3>1. CASE can_go = 0
        BY <1>inv, <1>8, <3>1 DEF RefreshBeforeGuest, futex_wait, TypeOK
    <3>2. CASE ~(can_go = 0)
        BY <1>inv, <1>8, <3>2 DEF RefreshBeforeGuest, futex_wait, TypeOK
    <3> QED BY <3>1, <3>2
  <2>5. TableTracked' /\ ReadyIsDisarmed' /\ StepExpected'
      BY <1>inv, <1>8 DEF TableTracked, ReadyIsDisarmed, StepExpected,
         futex_wait
  <2>6. NoLostWakeup'
    <3>1. CASE can_go = 0
        BY <1>inv, <1>8, <3>1 DEF NoLostWakeup, futex_wait, opponent, TypeOK
    <3>2. CASE ~(can_go = 0)
        BY <1>inv, <1>8, <3>2 DEF NoLostWakeup, futex_wait, opponent, TypeOK
    <3> QED BY <3>1, <3>2
  <2> QED BY <2>1, <2>2, <2>3, <2>4, <2>5, <2>6 DEF Inv
<1>9. CASE futex_timeout(c)
  <2>1. TypeOK'
      BY <1>inv, <1>9 DEF TypeOK, futex_timeout, PC, Phase, Status
  <2>2. SleepersKnown'
      BY <1>inv, <1>9 DEF SleepersKnown, futex_timeout, Blocked
  <2>3. WaitConcluded'
      BY <1>inv, <1>9 DEF WaitConcluded, futex_timeout, Blocked
  <2>4. RefreshBeforeGuest'
      BY <1>inv, <1>9 DEF RefreshBeforeGuest, futex_timeout
  <2>5. TableTracked' /\ ReadyIsDisarmed' /\ StepExpected'
      BY <1>inv, <1>9 DEF TableTracked, ReadyIsDisarmed, StepExpected,
         futex_timeout
  <2>6. NoLostWakeup'
      BY <1>inv, <1>9 DEF NoLostWakeup, futex_timeout, opponent
  <2> QED BY <2>1, <2>2, <2>3, <2>4, <2>5, <2>6 DEF Inv
<1>10. CASE set_can_go(c)
  <2>1. TypeOK'
      BY <1>inv, <1>10 DEF TypeOK, set_can_go, PC, Phase, Status
  <2>2. SleepersKnown'
      BY <1>inv, <1>10 DEF SleepersKnown, set_can_go, Blocked
  <2>3. WaitConcluded'
      BY <1>inv, <1>10 DEF WaitConcluded, set_can_go, Blocked
  <2>4. RefreshBeforeGuest'
      BY <1>inv, <1>10 DEF RefreshBeforeGuest, set_can_go
  <2>5. TableTracked' /\ ReadyIsDisarmed' /\ StepExpected'
      BY <1>inv, <1>10 DEF TableTracked, ReadyIsDisarmed, StepExpected,
         set_can_go
  <2>6. NoLostWakeup'
      BY <1>inv, <1>10 DEF NoLostWakeup, set_can_go, opponent, TypeOK
  <2> QED BY <2>1, <2>2, <2>3, <2>4, <2>5, <2>6 DEF Inv
<1>11. CASE futex_wake(c)
  <2>1. TypeOK'
      BY <1>inv, <1>11 DEF TypeOK, futex_wake, PC, Phase, Status
  <2>2. SleepersKnown'
      BY <1>inv, <1>11 DEF SleepersKnown, futex_wake, Blocked
  <2>3. WaitConcluded'
      BY <1>inv, <1>11 DEF WaitConcluded, futex_wake, Blocked
  <2>4. RefreshBeforeGuest'
      BY <1>inv, <1>11 DEF RefreshBeforeGuest, futex_wake
  <2>5. TableTracked' /\ ReadyIsDisarmed' /\ StepExpected'
      BY <1>inv, <1>11 DEF TableTracked, ReadyIsDisarmed, StepExpected,
         futex_wake
  <2>6. NoLostWakeup'
      BY <1>inv, <1>11 DEF NoLostWakeup, futex_wake, opponent
  <2> QED BY <2>1, <2>2, <2>3, <2>4, <2>5, <2>6 DEF Inv
<1>12. CASE enter_guest(c)
  <2>1. TypeOK'
      BY <1>inv, <1>12 DEF TypeOK, enter_guest, PC, Phase, Status
  <2>2. SleepersKnown'
      BY <1>inv, <1>12 DEF SleepersKnown, enter_guest, Blocked
  <2>3. WaitConcluded'
      BY <1>inv, <1>12 DEF WaitConcluded, enter_guest, Blocked
  <2>4. RefreshBeforeGuest'
      BY <1>inv, <1>12 DEF RefreshBeforeGuest, enter_guest
  <2>5. TableTracked' /\ ReadyIsDisarmed' /\ StepExpected'
      BY <1>inv, <1>12 DEF TableTracked, ReadyIsDisarmed, StepExpected,
         enter_guest
  <2>6. NoLostWakeup'
      BY <1>inv, <1>12 DEF NoLostWakeup, enter_guest, opponent
  <2> QED BY <2>1, <2>2, <2>3, <2>4, <2>5, <2>6 DEF Inv
<1>13. ASSUME NEW t \in Tid, NEW a \in Code, NEW s \in Sched, hypercall_command_start(c, t, c, a, s) PROVE Inv'
  <2>1. TypeOK'
    <3>1. pc' \in [CPU -> PC]
        BY <1>inv, <1>13 DEF TypeOK, hypercall_command_start, PC, Trapped
    <3>2. guest_tid' \in [CPU -> Tid \cup {0}]
        BY <1>inv, <1>13 DEF TypeOK, hypercall_command_start
    <3>3. is_race' \in [CPU -> BOOLEAN]
      <4>1. is_race' = [is_race EXCEPT ![c] = FALSE] \/ is_race' = is_race
          BY <1>13 DEF hypercall_command_start
      <4>2. is_race \in [CPU -> BOOLEAN]
          BY <1>inv DEF TypeOK
      <4>3. [is_race EXCEPT ![c] = FALSE] \in [CPU -> BOOLEAN]
          BY <4>2, BooleanUpdate, Zenon
      <4> QED BY <4>1, <4>2, <4>3, Zenon
    <3>4. hw_bps' \in [CPU -> SUBSET (Code \cup {0, HypercallAddr})]
        BY <1>inv, <1>13 DEF TypeOK, hypercall_command_start, insert_bp
    <3>5. kvm_singlestep' \in [CPU -> BOOLEAN]
      <4>1. kvm_singlestep' = [kvm_singlestep EXCEPT ![c] = kvm_singlestep[c] /\ insert_fails(c, a)] \/ kvm_singlestep' = kvm_singlestep
          BY <1>13 DEF hypercall_command_start
      <4>2. kvm_singlestep \in [CPU -> BOOLEAN]
          BY <1>inv DEF TypeOK
      <4>3. [kvm_singlestep EXCEPT ![c] = kvm_singlestep[c] /\ insert_fails(c, a)] \in [CPU -> BOOLEAN]
          BY <4>2, BooleanUpdate, Zenon
      <4> QED BY <4>1, <4>2, <4>3, Zenon
    <3>6. phase' \in [CPU -> Phase]
        BY <1>inv, <1>13 DEF TypeOK, hypercall_command_start, Phase
    <3>7. inserted_breakpoint' \in [CPU -> BpAddr]
        BY <1>inv, <1>13 DEF TypeOK, hypercall_command_start, BpAddr
    <3>8. race_id' \in [CPU -> CPU] /\ sched' \in [CPU -> CPU]
        BY <1>inv, <1>13 DEF TypeOK, hypercall_command_start
    <3>9. status' \in [CPU -> Status]
        BY <1>inv, <1>13 DEF TypeOK, hypercall_command_start, Status
    <3>10. singlestep_enabled' \in [CPU -> BOOLEAN] /\ skipping' \in [CPU -> BOOLEAN]
        BY <1>inv, <1>13 DEF TypeOK, hypercall_command_start
    <3> QED BY <1>inv, <1>13, <3>1, <3>2, <3>3, <3>4, <3>5, <3>6, <3>7, <3>8,
       <3>9, <3>10 DEF TypeOK, hypercall_command_start
  <2>2. SleepersKnown'
    <3>1. CASE status[c] = "READY"
        BY <1>inv, <1>13, <3>1 DEF SleepersKnown, hypercall_command_start,
           Trapped, Executing, Blocked, TypeOK
    <3>2. CASE ~(status[c] = "READY")
        BY <1>inv, <1>13, <3>2 DEF SleepersKnown, hypercall_command_start,
           Trapped, Executing, Blocked, TypeOK
    <3> QED BY <3>1, <3>2
  <2>3. WaitConcluded'
      BY <1>inv, <1>13 DEF WaitConcluded, hypercall_command_start, Trapped,
         Executing, Blocked
  <2>4. RefreshBeforeGuest'
      BY <1>inv, <1>13 DEF RefreshBeforeGuest, hypercall_command_start,
         Trapped, Executing
  <2>5. TableTracked'
    <3>1. CASE status[c] = "READY"
        BY <1>inv, <1>13, <3>1 DEF TableTracked, hypercall_command_start,
           Trapped, Executing, insert_bp, ReadyIsDisarmed, TypeOK
    <3>2. CASE ~(status[c] = "READY")
        BY <1>inv, <1>13, <3>2 DEF TableTracked, hypercall_command_start,
           Trapped, Executing, insert_bp, ReadyIsDisarmed, TypeOK
    <3> QED BY <3>1, <3>2
  <2>6. ReadyIsDisarmed'
    <3>1. CASE status[c] = "READY"
        BY <1>inv, <1>13, <3>1 DEF ReadyIsDisarmed, hypercall_command_start,
           Trapped, Executing, insert_bp, TypeOK
    <3>2. CASE ~(status[c] = "READY")
        BY <1>inv, <1>13, <3>2 DEF ReadyIsDisarmed, hypercall_command_start,
           Trapped, Executing, insert_bp, TypeOK
    <3> QED BY <3>1, <3>2
  <2>7. StepExpected'
    <3>1. CASE status[c] = "READY"
        BY <1>inv, <1>13, <3>1 DEF StepExpected, hypercall_command_start,
           Trapped, Executing, TypeOK
    <3>2. CASE ~(status[c] = "READY")
        BY <1>inv, <1>13, <3>2 DEF StepExpected, hypercall_command_start,
           Trapped, Executing, TypeOK
    <3> QED BY <3>1, <3>2
  <2>8. NoLostWakeup'
      BY <1>inv, <1>13 DEF NoLostWakeup, hypercall_command_start, Trapped,
         Executing, opponent
  <2> QED BY <2>1, <2>2, <2>3, <2>4, <2>5, <2>6, <2>7, <2>8 DEF Inv
<1>14. ASSUME NEW t \in Tid, hypercall_command_end(c, t) PROVE Inv'
  <2>1. TypeOK'
    <3>1. pc' \in [CPU -> PC]
        BY <1>inv, <1>14 DEF TypeOK, hypercall_command_end, PC, Trapped
    <3>2. guest_tid' \in [CPU -> Tid \cup {0}]
        BY <1>inv, <1>14 DEF TypeOK, hypercall_command_end
    <3>3. hw_bps' \in [CPU -> SUBSET (Code \cup {0, HypercallAddr})]
        BY <1>inv, <1>14 DEF TypeOK, hypercall_command_end
    <3>4. kvm_singlestep' \in [CPU -> BOOLEAN]
      <4>1. kvm_singlestep' = [kvm_singlestep EXCEPT ![c] = kvm_singlestep[c] /\ inserted_breakpoint[c] \notin hw_bps[c]] \/ kvm_singlestep' = kvm_singlestep
          BY <1>14 DEF hypercall_command_end
      <4>2. kvm_singlestep \in [CPU -> BOOLEAN]
          BY <1>inv DEF TypeOK
      <4>3. [kvm_singlestep EXCEPT ![c] = kvm_singlestep[c] /\ inserted_breakpoint[c] \notin hw_bps[c]] \in [CPU -> BOOLEAN]
          BY <4>2, BooleanUpdate, Zenon
      <4> QED BY <4>1, <4>2, <4>3, Zenon
    <3>5. inserted_breakpoint' \in [CPU -> BpAddr]
        BY <1>inv, <1>14 DEF TypeOK, hypercall_command_end, BpAddr
    <3>6. status' \in [CPU -> Status]
        BY <1>inv, <1>14 DEF TypeOK, hypercall_command_end, Status
    <3>7. singlestep_enabled' \in [CPU -> BOOLEAN] /\ skipping' \in [CPU -> BOOLEAN]
        BY <1>inv, <1>14 DEF TypeOK, hypercall_command_end
    <3> QED BY <1>inv, <1>14, <3>1, <3>2, <3>3, <3>4, <3>5, <3>6, <3>7 DEF
       TypeOK, hypercall_command_end
  <2>2. SleepersKnown'
      BY <1>inv, <1>14 DEF SleepersKnown, hypercall_command_end, Trapped,
         Executing, Blocked
  <2>3. WaitConcluded'
      BY <1>inv, <1>14 DEF WaitConcluded, hypercall_command_end, Trapped,
         Executing, Blocked
  <2>4. RefreshBeforeGuest'
      BY <1>inv, <1>14 DEF RefreshBeforeGuest, hypercall_command_end, Trapped,
         Executing
  <2>5. TableTracked'
    <3>1. CASE status[c] = "RUNNING"
        BY <1>inv, <1>14, <3>1 DEF TableTracked, hypercall_command_end,
           Trapped, Executing, BpAddr, TypeOK
    <3>2. CASE ~(status[c] = "RUNNING")
        BY <1>inv, <1>14, <3>2 DEF TableTracked, hypercall_command_end,
           Trapped, Executing, BpAddr, TypeOK
    <3> QED BY <3>1, <3>2
  <2>6. ReadyIsDisarmed'
    <3>1. CASE status[c] = "RUNNING"
        BY <1>inv, <1>14, <3>1 DEF ReadyIsDisarmed, hypercall_command_end,
           Trapped, Executing, TableTracked, TypeOK
    <3>2. CASE ~(status[c] = "RUNNING")
        BY <1>inv, <1>14, <3>2 DEF ReadyIsDisarmed, hypercall_command_end,
           Trapped, Executing, TableTracked, TypeOK
    <3> QED BY <3>1, <3>2
  <2>7. StepExpected'
    <3>1. CASE status[c] = "RUNNING"
        BY <1>inv, <1>14, <3>1 DEF StepExpected, hypercall_command_end,
           Trapped, Executing, TypeOK
    <3>2. CASE ~(status[c] = "RUNNING")
        BY <1>inv, <1>14, <3>2 DEF StepExpected, hypercall_command_end,
           Trapped, Executing, TypeOK
    <3> QED BY <3>1, <3>2
  <2>8. NoLostWakeup'
      BY <1>inv, <1>14 DEF NoLostWakeup, hypercall_command_end, Trapped,
         Executing, opponent
  <2> QED BY <2>1, <2>2, <2>3, <2>4, <2>5, <2>6, <2>7, <2>8 DEF Inv
<1>15. CASE hypercall_command_refresh(c)
  <2>1. TypeOK'
      BY <1>inv, <1>15 DEF TypeOK, hypercall_command_refresh, Trapped,
         Executing, status_ready, PC, Phase, Status, only_hypercall_bp
  <2>2. SleepersKnown'
      BY <1>inv, <1>15 DEF SleepersKnown, hypercall_command_refresh, Trapped,
         Executing, status_ready, Blocked
  <2>3. WaitConcluded'
      BY <1>inv, <1>15 DEF WaitConcluded, hypercall_command_refresh, Trapped,
         Executing, status_ready, Blocked
  <2>4. RefreshBeforeGuest'
      BY <1>inv, <1>15 DEF RefreshBeforeGuest, hypercall_command_refresh,
         Trapped, Executing, status_ready, TypeOK
  <2>5. TableTracked'
      BY <1>inv, <1>15 DEF TableTracked, hypercall_command_refresh,
         Trapped, Executing, status_ready, only_hypercall_bp
  <2>6. ReadyIsDisarmed'
      BY <1>inv, <1>15 DEF ReadyIsDisarmed, hypercall_command_refresh, Trapped,
         Executing, status_ready, only_hypercall_bp, TypeOK
  <2>7. StepExpected'
      BY <1>inv, <1>15 DEF StepExpected, hypercall_command_refresh, Trapped,
         Executing, status_ready
  <2>8. NoLostWakeup'
      BY <1>inv, <1>15 DEF NoLostWakeup, hypercall_command_refresh, Trapped,
         Executing, status_ready, opponent
  <2> QED BY <2>1, <2>2, <2>3, <2>4, <2>5, <2>6, <2>7, <2>8 DEF Inv
<1>16. ASSUME NEW rip \in BpAddr, handle_singlestep(c, rip) PROVE Inv'
  <2>1. TypeOK'
    <3>1. pc' \in [CPU -> PC]
        BY <1>inv, <1>16 DEF TypeOK, handle_singlestep, PC
    <3>2. singlestep_enabled' \in [CPU -> BOOLEAN]
        BY <1>inv, <1>16 DEF TypeOK, handle_singlestep
    <3>3. hw_bps' \in [CPU -> SUBSET (Code \cup {0, HypercallAddr})]
        BY <1>inv, <1>16 DEF TypeOK, handle_singlestep, insert_bp
    <3>4. skipping' \in [CPU -> BOOLEAN]
      <4>1. skipping' = [skipping EXCEPT ![c] = FALSE] \/ skipping' = skipping
          BY <1>16 DEF handle_singlestep
      <4>2. skipping \in [CPU -> BOOLEAN]
          BY <1>inv DEF TypeOK
      <4>3. [skipping EXCEPT ![c] = FALSE] \in [CPU -> BOOLEAN]
          BY <4>2, BooleanUpdate, Zenon
      <4> QED BY <4>1, <4>2, <4>3, Zenon
    <3>5. wake_up' \in [CPU -> BOOLEAN]
      <4>1. wake_up' = [wake_up EXCEPT ![c] = TRUE] \/ wake_up' = wake_up
          BY <1>16 DEF handle_singlestep
      <4>2. wake_up \in [CPU -> BOOLEAN]
          BY <1>inv DEF TypeOK
      <4>3. [wake_up EXCEPT ![c] = TRUE] \in [CPU -> BOOLEAN]
          BY <4>2, BooleanUpdate, Zenon
      <4> QED BY <4>1, <4>2, <4>3, Zenon
    <3>6. kvm_singlestep' \in [CPU -> BOOLEAN]
        BY <1>inv, <1>16 DEF TypeOK, handle_singlestep, step_off
    <3> QED BY <1>inv, <1>16, <3>1, <3>2, <3>3, <3>4, <3>5, <3>6 DEF TypeOK,
       handle_singlestep
  <2>2. SleepersKnown'
      BY <1>inv, <1>16 DEF SleepersKnown, handle_singlestep, step_exit,
         breakpoint_exit, Executing, step_off, Blocked
  <2>3. WaitConcluded'
      BY <1>inv, <1>16 DEF WaitConcluded, handle_singlestep, step_exit,
         breakpoint_exit, Executing, step_off, Blocked
  <2>4. RefreshBeforeGuest'
      BY <1>inv, <1>16 DEF RefreshBeforeGuest, handle_singlestep, step_exit,
         breakpoint_exit, Executing, step_off
  <2>5. TableTracked'
    <3>1. CASE skipping[c]
        BY <1>inv, <1>16, <3>1 DEF TableTracked, handle_singlestep,
           step_exit, breakpoint_exit, Executing, step_off, insert_bp, TypeOK
    <3>2. CASE ~skipping[c]
        BY <1>inv, <1>16, <3>2 DEF TableTracked, handle_singlestep,
           step_exit, breakpoint_exit, Executing, step_off, insert_bp, TypeOK
    <3> QED BY <3>1, <3>2
  <2>6. ReadyIsDisarmed'
    <3>1. CASE skipping[c]
        BY <1>inv, <1>16, <3>1 DEF ReadyIsDisarmed, handle_singlestep,
           step_exit, breakpoint_exit, Executing, step_off, insert_bp, TypeOK
    <3>2. CASE ~skipping[c]
        BY <1>inv, <1>16, <3>2 DEF ReadyIsDisarmed, handle_singlestep,
           step_exit, breakpoint_exit, Executing, step_off, insert_bp, TypeOK
    <3> QED BY <3>1, <3>2
  <2>7. StepExpected'
    <3>1. CASE skipping[c]
        BY <1>inv, <1>16, <3>1 DEF StepExpected, handle_singlestep, step_exit,
           breakpoint_exit, Executing, step_off, TypeOK
    <3>2. CASE ~skipping[c]
        BY <1>inv, <1>16, <3>2 DEF StepExpected, handle_singlestep, step_exit,
           breakpoint_exit, Executing, step_off, TypeOK
    <3> QED BY <3>1, <3>2
  <2>8. NoLostWakeup'
      BY <1>inv, <1>16 DEF NoLostWakeup, handle_singlestep, step_exit,
         breakpoint_exit, Executing, step_off, opponent
  <2> QED BY <2>1, <2>2, <2>3, <2>4, <2>5, <2>6, <2>7, <2>8 DEF Inv
<1>17. ASSUME NEW rip \in BpAddr, NEW t \in Tid, NEW skip \in BOOLEAN, handle_breakpoint(c, rip, t, skip) PROVE Inv'
  <2>1. TypeOK'
      BY <1>inv, <1>17 DEF TypeOK, handle_breakpoint, breakpoint_exit,
         Executing, PC, Phase, Status, BpAddr
  <2>2. SleepersKnown'
      BY <1>inv, <1>17 DEF SleepersKnown, handle_breakpoint, breakpoint_exit,
         Executing, Blocked
  <2>3. WaitConcluded'
      BY <1>inv, <1>17 DEF WaitConcluded, handle_breakpoint, breakpoint_exit,
         Executing, Blocked, RefreshBeforeGuest, TypeOK
  <2>4. RefreshBeforeGuest'
      BY <1>inv, <1>17 DEF RefreshBeforeGuest, handle_breakpoint,
         breakpoint_exit, Executing
  <2>5. TableTracked'
      BY <1>inv, <1>17 DEF TableTracked, handle_breakpoint,
         breakpoint_exit, Executing, BpAddr, TypeOK
  <2>6. ReadyIsDisarmed'
      BY <1>inv, <1>17 DEF ReadyIsDisarmed, handle_breakpoint, breakpoint_exit,
         Executing, TableTracked
  <2>7. StepExpected'
      BY <1>inv, <1>17 DEF StepExpected, handle_breakpoint, breakpoint_exit,
         Executing, TypeOK
  <2>8. NoLostWakeup'
      BY <1>inv, <1>17 DEF NoLostWakeup, handle_breakpoint, breakpoint_exit,
         Executing, opponent
  <2> QED BY <2>1, <2>2, <2>3, <2>4, <2>5, <2>6, <2>7, <2>8 DEF Inv
<1>18. CASE other_exit(c)
  <2>1. TypeOK'
      BY <1>inv, <1>18 DEF TypeOK, other_exit, PC, Phase, Status
  <2>2. SleepersKnown'
      BY <1>inv, <1>18 DEF SleepersKnown, other_exit, Blocked
  <2>3. WaitConcluded'
      BY <1>inv, <1>18 DEF WaitConcluded, other_exit, Blocked
  <2>4. RefreshBeforeGuest'
      BY <1>inv, <1>18 DEF RefreshBeforeGuest, other_exit
  <2>5. TableTracked' /\ ReadyIsDisarmed' /\ StepExpected'
      BY <1>inv, <1>18 DEF TableTracked, ReadyIsDisarmed, StepExpected,
         other_exit
  <2>6. NoLostWakeup'
      BY <1>inv, <1>18 DEF NoLostWakeup, other_exit, opponent
  <2> QED BY <2>1, <2>2, <2>3, <2>4, <2>5, <2>6 DEF Inv
<1> QED BY <1>c, <1>1, <1>2, <1>3, <1>4, <1>5, <1>6, <1>7, <1>8, <1>9, <1>10,
   <1>11, <1>12, <1>13, <1>14, <1>15, <1>16, <1>17, <1>18 DEF HostStep,
   GuestStep

\* The inductive invariant holds initially and in every reachable state.
THEOREM InvHolds == Spec => []Inv
<1>1. Init => Inv
    BY CodeAssumption DEF Init, Inv, TypeOK, SleepersKnown, WaitConcluded,
       RefreshBeforeGuest, TableTracked, ReadyIsDisarmed, StepExpected,
       NoLostWakeup, Blocked, BpAddr, CPU, PC, Phase, Status
<1>2. Inv /\ UNCHANGED hvVars => Inv'
    BY DEF hvVars, debugVars, argVars, flagVars, meetVars, raceVars, Inv,
       TypeOK, SleepersKnown, WaitConcluded,
       RefreshBeforeGuest, TableTracked, ReadyIsDisarmed, StepExpected,
       NoLostWakeup, Blocked
<1>3. Inv /\ [Next]_hvVars => Inv'
    BY <1>2, InvStep
<1> QED BY <1>1, <1>3, PTL DEF Spec

\* TypeOK: every field keeps its type, for every guest.
THEOREM TypeCorrect == Spec => []TypeOK
    BY InvHolds, PTL DEF Inv

\* SleepersKnown: phase tells the opponent exactly when a vCPU thread is inside
\* the timed wait of wait_race, and the two are never in there together.
THEOREM SleepersAreKnown == Spec => []SleepersKnown
    BY InvHolds, PTL DEF Inv

\* WaitConcluded: the assertions on wait_race in wait_race and before KVM_RUN
\* hold, and no pending refresh meets a pending wait.
THEOREM WaitIsConcluded == Spec => []WaitConcluded
    BY InvHolds, PTL DEF Inv

\* Only the END of a run whose START named the nop takes its trap away: a hit
\* removes the breakpoint at rip, which is not the nop's, and REFRESH arms the
\* nop again.
LEMMA TrapStep ==
    ASSUME Inv, Next
    PROVE  TrapKept
<1> USE DEF CPU, debugVars, TrapKept, LosesTrap
<1>inv. TypeOK
    BY DEF Inv
<1>c. PICK c \in CPU : HostStep(c) \/ cond_spurious(c) \/ GuestStep(c)
    BY DEF Next
<1>1. ASSUME NEW t \in Tid, NEW a \in Code, NEW s \in Sched,
             hypercall_command_start(c, t, c, a, s)
      PROVE  TrapKept
    BY <1>inv, <1>1 DEF TypeOK, hypercall_command_start, insert_bp
<1>2. ASSUME NEW t \in Tid, hypercall_command_end(c, t) PROVE TrapKept
    BY <1>inv, <1>2 DEF TypeOK, hypercall_command_end
<1>3. CASE hypercall_command_refresh(c)
    BY <1>inv, <1>3 DEF TypeOK, hypercall_command_refresh, only_hypercall_bp
<1>4. ASSUME NEW rip \in BpAddr, handle_singlestep(c, rip) PROVE TrapKept
    BY <1>inv, <1>4 DEF TypeOK, handle_singlestep, insert_bp
<1>5. ASSUME NEW rip \in BpAddr, NEW t \in Tid, NEW skip \in BOOLEAN,
             handle_breakpoint(c, rip, t, skip)
      PROVE  TrapKept
    BY <1>inv, <1>5 DEF TypeOK, handle_breakpoint, breakpoint_exit
<1>6. CASE HostStep(c) \/ cond_spurious(c) \/ other_exit(c)
    BY <1>6 DEF HostStep, wait_race_pass, wait_race_second, wait_race_late,
       wait_race_first, conclude, cond_timeout, wait_race_wake, futex_wait,
       futex_timeout, set_can_go, futex_wake, enter_guest, cond_spurious, other_exit
<1> QED BY <1>c, <1>1, <1>2, <1>3, <1>4, <1>5, <1>6 DEF GuestStep

\* BreakpointsTracked: no breakpoint is armed that inserted_breakpoint does not
\* record, a started run can always be ended, and the trap of the hypercall
\* instruction goes only with the END of a run that was started on it.
THEOREM BreakpointsAreTracked == Spec => BreakpointsTracked
<1>1. Inv => TableTracked
    BY DEF Inv
<1>2. Inv /\ Inv' /\ [Next]_hvVars => [TableTracked' /\ TrapKept]_hvVars
    BY <1>1, TrapStep DEF Inv
<1> QED BY <1>1, <1>2, InvHolds, PTL DEF Spec, BreakpointsTracked

\* StepExpected: KVM single-steps only vCPUs for which QEMU takes the trap.
THEOREM StepsAreExpected == Spec => []StepExpected
    BY InvHolds, PTL DEF Inv

\* NoLostWakeup: the futex protocol on can_go loses no wakeup.
THEOREM WakeupsAreNotLost == Spec => []NoLostWakeup
    BY InvHolds, PTL DEF Inv
=============================================================================
