-------------------------------- MODULE Gate --------------------------------
(***************************************************************************)
(* The gate of pkg/ipc through which the processes of a fuzzer or a        *)
(* scheduler pass to execute a program.  It hands out its C slots round    *)
(* robin, so that it bounds the concurrency and the concurrency window,    *)
(* and it calls f (the leak checker) alone, once per round.                *)
(*                                                                         *)
(* Everything between Lock and Unlock or Wait is one step.  Wait and       *)
(* Broadcast are those of Go's sync.Cond: no spurious wakeups, and a woken *)
(* process competes for the mutex with all others.                         *)
(***************************************************************************)
EXTENDS Integers, FiniteSets

CONSTANTS
    Proc,        \* the processes
    C,           \* the slots: 2 * flagProcs in the code
    MaxRounds    \* bound on the activities of one process

ASSUME GateAssumption ==
    /\ IsFiniteSet(Proc)
    /\ C \in Nat \ {0}
    /\ MaxRounds \in Nat

VARIABLES
    with_f,    \* whether NewGate was given a callback
    busy,      \* busy[i]: slot i is taken
    pos,       \* the next slot to hand out
    running,   \* the number of activities
    stop,      \* a process is about to call f
    pc,        \* where a process is, see PC
    ticket,    \* the slot of a process
    number,    \* history: the number of its last activity, from 0
    entered,   \* history: activities started so far
    called,    \* history: calls of f so far
    rounds     \* activities started by each process

gateVars == <<with_f, busy, pos, running, stop, pc, ticket, number, entered,
              called, rounds>>

Slot == 0..(C - 1)

\* enter_wait and leave_wait sleep in Wait; the woken ones want the mutex.
PC == {"outside", "enter_wait", "enter_woken", "running", "leave_wait",
       "leave_woken"}

GateTypeOK ==
    /\ with_f \in BOOLEAN /\ stop \in BOOLEAN
    /\ busy \in [Slot -> BOOLEAN] /\ pos \in Slot /\ running \in 0..C
    /\ pc \in [Proc -> PC] /\ ticket \in [Proc -> Slot]
    /\ number \in [Proc -> Nat] /\ rounds \in [Proc -> 0..MaxRounds]
    /\ entered \in Nat /\ called \in Nat

NewGate ==
    /\ with_f \in BOOLEAN
    /\ busy = [i \in Slot |-> FALSE] /\ pos = 0 /\ running = 0 /\ stop = FALSE
    /\ pc = [p \in Proc |-> "outside"]
    /\ ticket = [p \in Proc |-> 0] /\ number = [p \in Proc |-> 0]
    /\ rounds = [p \in Proc |-> 0] /\ entered = 0 /\ called = 0

----------------------------------------------------------------------------
\* All sleepers are woken; p itself goes on to state s.
Broadcast(p, s) ==
    pc' = [q \in Proc |-> IF q = p THEN s
                          ELSE IF pc[q] = "enter_wait" THEN "enter_woken"
                          ELSE IF pc[q] = "leave_wait" THEN "leave_woken"
                          ELSE pc[q]]

\* Variants: only the level is limited; a pending call of f is overlooked.
level_only == running = C \/ stop
stop_overlooked == busy[pos]
must_wait == busy[pos] \/ stop

\* Variant: the last slot is never left.
no_wrap(i) == i + 1
next_slot(i) == IF i + 1 >= C THEN 0 ELSE i + 1

\* A process calls Enter, or goes on in it after a wakeup.
Enter(p) ==
    /\ pc[p] \in {"outside", "enter_woken"} /\ rounds[p] < MaxRounds
    /\ IF must_wait
       THEN /\ pc' = [pc EXCEPT ![p] = "enter_wait"]
            /\ UNCHANGED <<busy, pos, running, ticket, number, entered, rounds>>
       ELSE /\ ticket' = [ticket EXCEPT ![p] = pos]
            /\ pos' = next_slot(pos)
            /\ busy' = [busy EXCEPT ![pos] = TRUE]
            /\ running' = running + 1
            /\ pc' = [pc EXCEPT ![p] = "running"]
            /\ number' = [number EXCEPT ![p] = entered]
            /\ entered' = entered + 1
            /\ rounds' = [rounds EXCEPT ![p] = @ + 1]
    /\ UNCHANGED <<with_f, stop, called>>

\* Variant: f does not wait for the activities that are under way.
do_not_drain == FALSE
others_run == running' # 0

\* The end of Leave for slot 0: wait until nobody runs, call f.
call_f(p) ==
    IF others_run
    THEN /\ stop' = TRUE
         /\ pc' = [pc EXCEPT ![p] = "leave_wait"]
         /\ UNCHANGED called
    ELSE /\ stop' = FALSE
         /\ called' = called + 1
         /\ Broadcast(p, "outside")

\* Variant: the last to leave does not wake the process that wants to call f.
wake_next_only(i) == i = pos /\ ~stop
must_wake(i) == (i = pos /\ ~stop) \/ (running' = 0 /\ stop)

Leave(p) ==
    /\ pc[p] = "running"
    /\ busy' = [busy EXCEPT ![ticket[p]] = FALSE]
    /\ running' = running - 1
    /\ IF ticket[p] = 0 /\ with_f
       THEN call_f(p)
       ELSE /\ IF must_wake(ticket[p]) THEN Broadcast(p, "outside")
               ELSE pc' = [pc EXCEPT ![p] = "outside"]
            /\ UNCHANGED <<stop, called>>
    /\ UNCHANGED <<with_f, pos, ticket, number, entered, rounds>>

\* Leave of slot 0 goes on after a wakeup.
leave_resumes(p) ==
    /\ pc[p] = "leave_woken"
    /\ UNCHANGED running
    /\ call_f(p)
    /\ UNCHANGED <<with_f, busy, pos, ticket, number, entered, rounds>>

Step(p) == Enter(p) \/ Leave(p) \/ leave_resumes(p)
Next == \E p \in Proc : Step(p)

\* An activity ends (the executor has a timeout) and Go schedules every
\* process.
Spec == NewGate /\ [][Next]_gateVars /\ \A p \in Proc : WF_gateVars(Step(p))

----------------------------------------------------------------------------
(* Properties. *)

Inside == {p \in Proc : pc[p] = "running"}

\* The tickets are the busy slots, one each, running counts them, and at most
\* one process is about to call f: none of the panics ("broken gate") of
\* Enter and Leave is reached.
SlotsHeld ==
    /\ \A p, q \in Inside : ticket[p] = ticket[q] => p = q
    /\ {i \in Slot : busy[i]} = {ticket[p] : p \in Inside}
    /\ running = Cardinality(Inside)
    /\ Cardinality({p \in Proc : pc[p] \in {"leave_wait", "leave_woken"}})
         = IF stop THEN 1 ELSE 0

\* "if a very old activity is still running it will not let new activities to
\* start even if concurrency level is low": all activities that run at the
\* same time were started within a window of C.
WindowBounded == \A p, q \in Inside : number[p] - number[q] < C

\* "it will be called after each batch of c activities": f keeps pace with
\* the batches, and is called once for each.
CalledPerBatch ==
    with_f => C * (called - 1) < entered /\ entered <= C * (called + 1)

\* f never runs beside an activity.
CalledAlone == [][called' # called => Inside' = {}]_gateVars

\* No wakeup is lost: every process gets through the gate as often as it
\* wants to.
AllServed == <>(\A p \in Proc : rounds[p] = MaxRounds /\ pc[p] = "outside")
=============================================================================
