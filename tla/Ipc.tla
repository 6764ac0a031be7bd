--------------------------------- MODULE Ipc ---------------------------------
(***************************************************************************)
(* How a process of the scheduler executes a program (executeRaw): the     *)
(* command of pkg/ipc that starts, talks to, times out, kills and restarts *)
(* the executor, and the processes of the executor it has to get rid of.   *)
(* The fuzzer does the same with Exec and exec, which are the same code    *)
(* without the race.                                                       *)
(*                                                                         *)
(* The executor is three processes: main, which only waits for the second; *)
(* loop, the fork server; and child, which runs one program.  They share   *)
(* stderr, which is captured (no -debug); main and loop hold the two       *)
(* control pipes.  loop asks to die with main (PR_SET_PDEATHSIG) only      *)
(* after a part of its setup; child dies with loop, the init of its PID    *)
(* namespace.  Executions are numbered, so that an answer or an output can *)
(* be told from an earlier one.                                            *)
(***************************************************************************)
EXTENDS Integers, Sequences

CONSTANTS
    MaxTry,       \* 10: "try > 10"
    AbortIsKill,  \* whether AbortSignal is SIGKILL, the default
    MaxProgs      \* bound on the programs executed

ASSUME IpcAssumption ==
    MaxTry \in Nat /\ MaxProgs \in Nat /\ AbortIsKill \in BOOLEAN

VARIABLES
    \* the process of the scheduler and its Env
    pc,        \* where it is, see PC
    progs,     \* programs started
    try,
    execs,     \* StatExecs: number of the current execution
    cmd,       \* env.cmd # nil
    out,       \* env.out: 0, or the execution that wrote it last
    result,    \* what the last executeRaw returned
    \* goroutines
    timer,     \* of execRace: "off", "armed", "fired" or "stopped"
    upgrade,   \* of abort: SIGKILL is sent unless the executor exits
    \* the executor
    main, loop, child,
    job,       \* the execution child works on
    status,    \* exit status of loop, then of main
    killed,    \* processes with a SIGKILL pending
    requests,  \* control pipe to the executor
    replies    \* control pipe from the executor

goVars == <<pc, progs, try, execs, cmd, out, result, timer, upgrade>>
exVars == <<main, loop, child, job, status, killed, requests, replies>>
vars == <<goVars, exVars>>

\* exec: about to call ExecRace; handshake: waits for the reply; refused: in
\* handshakeError; request: about to write it; reply: waits for it; answered:
\* has a reply with status 0; broken: the write failed; failing: no good
\* reply, drained: and readDone was received.
PC == {"idle", "exec", "handshake", "refused", "request", "reply", "answered",
       "broken", "failing", "drained", "panic"}
Status == {"ok", "fail", "error", "retry", "killed"}
Reply == [kind : {"handshake", "execute", "tail"}, status : Status,
          job : Nat]
NoResult == [kind |-> "none", job |-> 0, info |-> 0]

IpcTypeOK ==
    /\ pc \in PC /\ progs \in 0..MaxProgs /\ try \in 0..(MaxTry + 1)
    /\ execs \in Nat /\ cmd \in BOOLEAN /\ out \in Nat
    /\ result \in [kind : {"none", "ok", "failed", "restart"},
                   job : Nat, info : Nat]
    /\ timer \in {"off", "armed", "fired", "stopped"} /\ upgrade \in BOOLEAN
    /\ main \in {"gone", "boot", "wait", "told", "zombie"}
    /\ loop \in {"gone", "unarmed", "setup", "ready", "serve"}
    /\ child \in {"gone", "run"} /\ job \in Nat
    /\ status \in Status /\ killed \subseteq {"main", "loop", "child"}
    /\ requests \in Seq(Nat) /\ replies \in Seq(Reply)

MakeEnv ==
    /\ pc = "idle" /\ progs = 0 /\ try = 0 /\ execs = 0 /\ cmd = FALSE
    /\ out = 0 /\ result = NoResult /\ timer = "off" /\ upgrade = FALSE
    /\ main = "gone" /\ loop = "gone" /\ child = "gone" /\ job = 0
    /\ status = "ok" /\ killed = {} /\ requests = <<>> /\ replies = <<>>

----------------------------------------------------------------------------
(* Killing and joining the executor. *)

mainAlive == main \in {"boot", "wait", "told"}
\* The other ends of the control pipes are open.
served == mainAlive \/ loop # "gone"
\* Variant: the output is not waited for.
always_done == TRUE
\* stderr is closed by all: readDone has been sent.
readDone == ~served /\ child = "gone"

\* The abort signal ends main or, if it is not SIGKILL, may be ignored; it is
\* followed by SIGKILL after 5 s then.
abort ==
    /\ \/ killed' = IF mainAlive THEN killed \cup {"main"} ELSE killed
       \/ ~AbortIsKill /\ UNCHANGED killed
    /\ upgrade' = (upgrade \/ ~AbortIsKill)

\* Variant: the signal is never followed by SIGKILL.
never_upgrade == FALSE /\ UNCHANGED vars
abort_upgrades ==
    /\ upgrade /\ upgrade' = FALSE
    /\ killed' = IF mainAlive THEN killed \cup {"main"} ELSE killed
    /\ UNCHANGED <<pc, progs, try, execs, cmd, out, result, timer, main, loop,
                   child, job, status, requests, replies>>

\* close and env.cmd = nil: main, a zombie by now, is joined, which ends the
\* goroutines of abort, and the pipes are closed.
close ==
    /\ main' = "gone" /\ upgrade' = FALSE /\ killed' = killed \ {"main"}
    /\ cmd' = FALSE /\ requests' = <<>> /\ replies' = <<>>

----------------------------------------------------------------------------
(* executeRaw *)

executeRaw ==
    /\ pc = "idle" /\ progs < MaxProgs
    /\ pc' = "exec" /\ progs' = progs + 1 /\ try' = 0 /\ result' = NoResult
    /\ UNCHANGED <<execs, cmd, out, timer, upgrade, exVars>>

\* Variant: one more attempt.
retry_again(failure) ==
    /\ result' = NoResult
    /\ IF failure \/ try > MaxTry + 1 THEN pc' = "panic" /\ UNCHANGED try
       ELSE pc' = "exec" /\ try' = try + 1
\* ExecRace returned an error.
retry(failure) ==
    /\ result' = NoResult
    /\ IF failure \/ try > MaxTry THEN pc' = "panic" /\ UNCHANGED try
       ELSE pc' = "exec" /\ try' = try + 1

returns(r) == pc' = "idle" /\ result' = r /\ UNCHANGED try

\* ExecRace until it has a command: env.out is cleared, and the executor is
\* started if there is none.  Serialising the program or starting the
\* executor may fail.
\* Variant: env.out is not cleared.
keep_out == out
cleared_out == 0
ExecRace ==
    /\ pc = "exec" /\ execs' = execs + 1
    /\ out' = cleared_out
    /\ \/ retry(FALSE) /\ UNCHANGED main
       \/ /\ cmd /\ pc' = "request" /\ UNCHANGED <<try, result, main>>
       \/ /\ ~cmd /\ pc' = "handshake" /\ main' = "boot"
          /\ UNCHANGED <<try, result>>
    /\ UNCHANGED <<progs, cmd, timer, upgrade, loop, child, job, status,
                   killed, requests, replies>>

\* The reply to the handshake is its magic only, which is also the first word
\* of a reply to execute: a main that gives up passes, and leaves the tail.
handshake ==
    /\ pc = "handshake" /\ replies # <<>>
    /\ pc' = "request" /\ cmd' = TRUE
    /\ replies' = IF Head(replies).kind = "handshake" THEN Tail(replies)
                  ELSE <<[Head(replies) EXCEPT !.kind = "tail"]>> \o Tail(replies)
    /\ UNCHANGED <<progs, try, execs, out, result, timer, upgrade, main, loop,
                   child, job, status, killed, requests>>

\* The pipe is closed, or a minute is over.
handshake_fails ==
    /\ pc = "handshake" /\ abort
    /\ pc' = "refused"
    /\ UNCHANGED <<progs, try, execs, cmd, out, result, timer, main, loop,
                   child, job, status, requests, replies>>

handshakeError ==
    /\ pc = "refused" /\ readDone
    /\ close /\ retry(status = "fail")
    /\ UNCHANGED <<progs, execs, out, timer, loop, child, job, status>>

\* execRace: a write without a reader fails.
write_request ==
    /\ pc = "request"
    /\ IF served
       THEN /\ requests' = Append(requests, execs)
            /\ timer' = "armed" /\ pc' = "reply"
       ELSE pc' = "broken" /\ UNCHANGED <<requests, timer>>
    /\ UNCHANGED <<progs, try, execs, cmd, out, result, upgrade, main, loop,
                   child, job, status, killed, replies>>

write_failed ==
    /\ pc = "broken" /\ readDone
    /\ close /\ retry(FALSE)
    /\ UNCHANGED <<progs, execs, out, timer, loop, child, job, status>>

\* The timer goroutine.  When the reply has come both cases of its select
\* may be ready.
timer_fires ==
    /\ timer = "armed" /\ abort /\ timer' = "fired"
    /\ UNCHANGED <<pc, progs, try, execs, cmd, out, result, main, loop, child,
                   job, status, requests, replies>>
timer_stops ==
    /\ timer = "armed" /\ pc # "reply" /\ timer' = "stopped"
    /\ UNCHANGED <<pc, progs, try, execs, cmd, out, result, upgrade, exVars>>
hang == timer \in {"fired", "stopped"}

Full == replies # <<>> /\ Head(replies).kind = "execute"
read_ok ==
    /\ pc = "reply" /\ Full /\ Head(replies).status = "ok"
    /\ pc' = "answered"
    /\ result' = [kind |-> "ok", job |-> Head(replies).job, info |-> 0]
    /\ replies' = Tail(replies)
    /\ UNCHANGED <<progs, try, execs, cmd, out, timer, upgrade, main, loop,
                   child, job, status, killed, requests>>

\* A reply with another status, or none: the pipe is closed.  What is left of
\* a tail, then, does not give a status.
read_bad ==
    /\ pc = "reply"
    /\ \/ Full /\ Head(replies).status # "ok"
       \/ ~Full /\ ~served
    /\ abort /\ pc' = "failing"
    /\ result' = [NoResult EXCEPT !.kind =
          IF Full /\ Head(replies).status = "error" THEN "failed"
          ELSE IF Full /\ Head(replies).status = "retry" THEN "restart"
          ELSE "none"]
    /\ UNCHANGED <<progs, try, execs, cmd, out, timer, main, loop, child, job,
                   status, requests, replies>>

\* <-c.readDone, and then c.wait, <-hang, the switch on the status and close.
drained ==
    /\ pc = "failing" /\ readDone /\ pc' = "drained"
    /\ UNCHANGED <<progs, try, execs, cmd, out, result, timer, upgrade, exVars>>
joined ==
    /\ pc = "drained" /\ hang
    /\ timer' = "off" /\ close
    /\ IF result.kind # "none" THEN returns(result)
       ELSE retry(Full /\ Head(replies).status = "fail")
    /\ UNCHANGED <<progs, execs, out, loop, child, job, status>>

\* Variant: the timer goroutine is not waited for.
no_join == TRUE
timer_joined == hang
\* status 0: <-hang, whatever it says, and readOutCoverage, which may fail.
answered ==
    /\ pc = "answered" /\ timer_joined
    /\ timer' = IF hang THEN "off" ELSE timer
    /\ \/ returns([result EXCEPT !.info = out])
       \/ retry(FALSE)
    /\ UNCHANGED <<progs, execs, cmd, out, upgrade, exVars>>

----------------------------------------------------------------------------
(* The executor.  Any of its processes may hang: none of these steps is     *)
(* assumed to be taken but the delivery of SIGKILL.                         *)

exStep == UNCHANGED <<pc, progs, try, execs, cmd, result, timer, upgrade>>

\* main forks loop, or fails before.
do_sandbox ==
    /\ main = "boot" /\ main' = "wait" /\ loop' = "unarmed"
    /\ exStep /\ UNCHANGED <<out, child, job, status, killed, requests, replies>>
main_fails ==
    /\ main = "boot" /\ main' = "zombie" /\ status' \in {"fail", "retry"}
    /\ killed' = killed \ {"main"}
    /\ exStep /\ UNCHANGED <<out, loop, child, job, requests, replies>>

sandbox_common ==
    /\ loop = "unarmed" /\ loop' = "setup"
    /\ exStep /\ UNCHANGED <<out, main, child, job, status, killed, requests, replies>>
reply_handshake ==
    /\ loop = "setup" /\ loop' = "ready"
    /\ replies' = Append(replies, [kind |-> "handshake", status |-> "ok", job |-> 0])
    /\ exStep /\ UNCHANGED <<out, main, child, job, status, killed, requests>>

receive_execute ==
    /\ loop = "ready" /\ requests # <<>>
    /\ loop' = "serve" /\ child' = "run"
    /\ job' = Head(requests) /\ requests' = Tail(requests)
    /\ exStep /\ UNCHANGED <<out, main, status, killed, replies>>

execute_one ==
    /\ child = "run" /\ out' = job
    /\ exStep /\ UNCHANGED exVars

\* The child is gone, by itself or killed by loop's time limit.
reply_execute ==
    /\ loop = "serve" /\ child = "run"
    /\ child' = "gone" /\ loop' = "ready"
    /\ replies' = Append(replies, [kind |-> "execute", status |-> "ok", job |-> job])
    /\ exStep /\ UNCHANGED <<out, main, job, status, killed, requests>>

\* loop is gone, and child if there is one is about to be.
loopEnds(s) ==
    /\ loop' = "gone" /\ status' = s
    /\ killed' = (killed \ {"loop"}) \cup (IF child = "run" THEN {"child"} ELSE {})

\* loop fails, or because of child, or is killed by a test program.
loop_fails ==
    /\ loop # "gone"
    /\ \E s \in {"fail", "error", "retry"} :
          /\ s = "error" => child = "run"
          /\ loopEnds(IF mainAlive THEN s ELSE status)
    /\ exStep /\ UNCHANGED <<out, main, child, job, requests, replies>>

main_replies ==
    /\ main = "wait" /\ loop = "gone" /\ main' = "told"
    /\ replies' = Append(replies, [kind |-> "execute", status |-> status, job |-> 0])
    /\ exStep /\ UNCHANGED <<out, loop, child, job, status, killed, requests>>
main_exits ==
    /\ main = "told" /\ main' = "zombie" /\ killed' = killed \ {"main"}
    /\ exStep /\ UNCHANGED <<out, loop, child, job, status, requests, replies>>

\* SIGKILL is delivered.  The death of main kills loop if that has asked for
\* it; the death of loop kills child.
kill_main ==
    /\ "main" \in killed /\ mainAlive /\ main' = "zombie" /\ status' = "killed"
    /\ killed' = (killed \ {"main"}) \cup
          (IF loop \in {"setup", "ready", "serve"} THEN {"loop"} ELSE {})
    /\ exStep /\ UNCHANGED <<out, loop, child, job, requests, replies>>
kill_loop ==
    /\ "loop" \in killed /\ loopEnds(status)
    /\ exStep /\ UNCHANGED <<out, main, child, job, requests, replies>>
kill_child ==
    /\ "child" \in killed /\ child' = "gone" /\ killed' = killed \ {"child"}
    /\ exStep /\ UNCHANGED <<out, main, loop, job, status, requests, replies>>

goStep ==
    \/ ExecRace \/ handshake \/ handshake_fails \/ handshakeError
    \/ write_request \/ write_failed \/ read_ok \/ read_bad \/ drained
    \/ joined \/ answered
timerStep == timer_fires \/ timer_stops
killStep == kill_main \/ kill_loop \/ kill_child
executorStep ==
    \/ do_sandbox \/ main_fails \/ sandbox_common \/ reply_handshake
    \/ receive_execute \/ execute_one \/ reply_execute \/ loop_fails
    \/ main_replies \/ main_exits

IpcNext == executeRaw \/ goStep \/ timerStep \/ abort_upgrades \/ killStep \/ executorStep

\* Goroutines run, time passes and SIGKILL is delivered.
IpcSpec ==
    /\ MakeEnv /\ [][IpcNext]_vars
    /\ WF_vars(goStep) /\ WF_vars(timerStep) /\ WF_vars(abort_upgrades)
    /\ WF_vars(kill_main) /\ WF_vars(kill_loop) /\ WF_vars(kill_child)

----------------------------------------------------------------------------
(* Properties. *)

\* An execution that is reported as done was answered by the executor itself,
\* and its coverage is its own or empty: no answer or output of an earlier
\* execution, timed out, killed or retried, is taken for it.
OwnAnswer ==
    /\ pc \in {"answered", "idle"} /\ result.kind = "ok" => result.job = execs
    /\ pc = "idle" => result.info \in {0, execs}

\* No process of an executor outlives its command, although only main is
\* waited for: the next executor never shares env.out, the pair of vCPUs or
\* the work directory with a leftover of the last one.
NothingLeftBehind == main \in {"gone", "boot"} => loop = "gone" /\ child = "gone"

\* A timeout aborts the executor only on behalf of the call it was started
\* for: no timer goroutine is left when execRace returns.
TimerJoined == pc \notin {"reply", "answered", "failing", "drained"} => timer = "off"

\* Every executeRaw returns or panics, whichever of the executor's processes
\* hang or die, and even if the abort signal is ignored.  The one exception is
\* a loop that lost main before it asked to die with it: it holds stderr and
\* waits for a request, and the scheduler waits for the end of stderr.
Orphaned == ~mainAlive /\ loop # "gone" /\ "loop" \notin killed
CallReturns == pc = "exec" ~> pc \in {"idle", "panic"} \/ Orphaned
=============================================================================
