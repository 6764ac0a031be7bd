----------------------------- MODULE IpcProofs -----------------------------
(***************************************************************************)
(* Proofs for module Ipc: for any number of programs and of attempts, an   *)
(* execution gets its own answer and its own output, and leaves neither a  *)
(* process nor a timer behind.                                             *)
(***************************************************************************)
EXTENDS Ipc, TLAPS

\* A reply to execute with status 0.
Okay(r) == r.kind = "execute" /\ r.status = "ok"
NoOkay(s) == \A i \in 1..Len(s) : ~Okay(s[i])

\* What is left of an executor when its command is given up.
Leftovers ==
    /\ main \in {"gone", "boot"} => loop = "gone" /\ child = "gone"
    /\ pc = "drained" => readDone
    /\ ~cmd /\ pc \notin {"handshake", "refused"} => main = "gone"
    /\ "loop" \in killed => loop # "gone" /\ main = "zombie"
    /\ main = "wait" /\ loop = "gone" => status # "ok"

\* A call under way is in one place: the pipe to the executor, the child, or
\* the pipe back.
Underway ==
    /\ child = "run" => job = execs /\ pc \in {"reply", "failing"}
    /\ \A i \in 1..Len(requests) : requests[i] = execs
    /\ \A i \in 1..Len(replies) : Okay(replies[i]) => replies[i].job = execs
    /\ pc \notin {"reply", "failing", "drained"} => Len(requests) = 0 /\ NoOkay(replies)
    /\ pc = "reply" =>
          /\ Len(requests) <= 1
          /\ Len(requests) = 1 => child = "gone" /\ NoOkay(replies)
          /\ child = "run" => NoOkay(replies) /\ Len(requests) = 0
          /\ \A i, j \in 1..Len(replies) :
                Okay(replies[i]) /\ Okay(replies[j]) => i = j

Outcome ==
    /\ out \in {0, execs}
    /\ pc \in {"failing", "drained"} => result.info = 0 /\ result.kind # "ok"

IpcInv ==
    IpcTypeOK /\ TimerJoined /\ Leftovers /\ Underway /\ Outcome /\ OwnAnswer

----------------------------------------------------------------------------
\* What appending a reply to the pipe does.
LEMMA AppendReply ==
    ASSUME NEW s \in Seq(Reply), NEW r \in Reply
    PROVE  /\ Append(s, r) \in Seq(Reply) /\ Len(Append(s, r)) = Len(s) + 1
           /\ \A i \in 1..Len(s) : Append(s, r)[i] = s[i]
           /\ Append(s, r)[Len(s) + 1] = r
  OBVIOUS

\* What taking the first reply from the pipe does.
LEMMA TailReply ==
    ASSUME NEW s \in Seq(Reply), s # <<>>
    PROVE  /\ Tail(s) \in Seq(Reply) /\ Len(Tail(s)) = Len(s) - 1
           /\ \A i \in 1..(Len(s) - 1) : Tail(s)[i] = s[i + 1]
           /\ Head(s) = s[1] /\ Head(s) \in Reply /\ Len(s) \in Nat \ {0}
  OBVIOUS

\* abort leaves its goroutine and the pending signals in their types.
LEMMA AbortTypes ==
    ASSUME IpcTypeOK, abort
    PROVE  upgrade' \in BOOLEAN /\ killed' \subseteq {"main", "loop", "child"}
<1>1. upgrade' \in BOOLEAN
  BY DEF abort
<1>2. killed' \subseteq {"main", "loop", "child"}
  BY DEF abort, IpcTypeOK
<1> QED BY <1>1, <1>2

\* close leaves an empty pair of pipes and no main.
LEMMA CloseTypes ==
    ASSUME IpcTypeOK, close
    PROVE  /\ main' = "gone" /\ upgrade' \in BOOLEAN /\ cmd' \in BOOLEAN
           /\ killed' \subseteq {"main", "loop", "child"}
           /\ requests' \in Seq(Nat) /\ replies' \in Seq(Reply)
<1>1. main' = "gone" /\ upgrade' \in BOOLEAN /\ cmd' \in BOOLEAN
  BY DEF close
<1>2. killed' \subseteq {"main", "loop", "child"}
  BY DEF close, IpcTypeOK
<1>3. requests' \in Seq(Nat)
  BY DEF close
<1>4. replies' \in Seq(Reply)
  BY DEF close
<1> QED BY <1>1, <1>2, <1>3, <1>4

\* An error of ExecRace leads to another attempt, or to a panic.
LEMMA RetryTypes ==
    ASSUME IpcTypeOK, NEW f \in BOOLEAN, retry(f)
    PROVE  /\ pc' \in {"panic", "exec"} /\ try' \in 0..(MaxTry + 1)
           /\ result' \in [kind : {"none", "ok", "failed", "restart"},
                           job : Nat, info : Nat]
<1>1. result' \in [kind : {"none", "ok", "failed", "restart"}, job : Nat, info : Nat]
  BY DEF retry, NoResult
<1>2. CASE f \/ try > MaxTry
  BY <1>1, <1>2 DEF retry, IpcTypeOK
<1>3. CASE ~(f \/ try > MaxTry)
  BY <1>1, <1>3, IpcAssumption DEF retry, IpcTypeOK
<1> QED BY <1>2, <1>3

\* A new Env satisfies the invariant.
LEMMA InitInv == ASSUME MakeEnv PROVE IpcInv
<1>1. requests \in Seq(Nat) /\ Len(requests) = 0
  BY DEF MakeEnv
<1>2. replies \in Seq(Reply) /\ Len(replies) = 0
  BY DEF MakeEnv
<1>3. result \in [kind : {"none", "ok", "failed", "restart"}, job : Nat, info : Nat]
  BY DEF MakeEnv, NoResult
<1>4. IpcTypeOK
  <2>1. pc \in PC /\ progs \in 0..MaxProgs /\ try \in 0..(MaxTry + 1)
    BY IpcAssumption DEF MakeEnv, PC
  <2>2. /\ execs \in Nat /\ cmd \in BOOLEAN /\ out \in Nat /\ upgrade \in BOOLEAN
        /\ job \in Nat /\ status \in Status /\ killed \subseteq {"main", "loop", "child"}
    BY DEF MakeEnv, Status
  <2> QED BY <1>1, <1>2, <1>3, <2>1, <2>2 DEF MakeEnv, IpcTypeOK
<1>5. TimerJoined /\ Leftovers
  BY DEF MakeEnv, TimerJoined, Leftovers
<1>6. Underway
  BY <1>1, <1>2 DEF MakeEnv, Underway, NoOkay
<1>7. Outcome /\ OwnAnswer
  BY DEF MakeEnv, Outcome, OwnAnswer, NoResult
<1> QED BY <1>4, <1>5, <1>6, <1>7 DEF IpcInv

\* Every step preserves the types.
LEMMA IpcTypeOKStep ==
    ASSUME IpcInv, IpcNext
    PROVE  IpcTypeOK'
<1>1. CASE executeRaw
  BY <1>1, IpcAssumption DEF IpcInv, IpcTypeOK, PC, Status, Reply, mainAlive,
     executeRaw, exVars, NoResult
<1>2. CASE ExecRace
  BY <1>2, IpcAssumption DEF IpcInv, IpcTypeOK, PC, Status, Reply, mainAlive,
     ExecRace, retry, cleared_out, NoResult
<1>3. CASE handshake
  <2>1. replies \in Seq(Reply) /\ replies # <<>>
    BY <1>3 DEF IpcInv, IpcTypeOK, handshake
  <2>2. Tail(replies) \in Seq(Reply) /\ Head(replies) \in Reply
    BY <2>1, TailReply
  <2>3. [Head(replies) EXCEPT !.kind = "tail"] \in Reply
    BY <2>2 DEF Reply
  <2>4. <<[Head(replies) EXCEPT !.kind = "tail"]>> \o Tail(replies) \in Seq(Reply)
    BY <2>2, <2>3
  <2>5. replies' \in Seq(Reply)
    BY <1>3, <2>2, <2>4 DEF handshake
  <2> QED BY <1>3, <2>5 DEF IpcInv, IpcTypeOK, handshake, PC
<1>4. CASE handshake_fails
  BY <1>4, AbortTypes DEF IpcInv, IpcTypeOK, handshake_fails, PC
<1>5. CASE handshakeError
  <2>1. close /\ retry(status = "fail")
    BY <1>5 DEF handshakeError
  <2> QED BY <1>5, <2>1, CloseTypes, RetryTypes DEF IpcInv, IpcTypeOK, handshakeError, PC
<1>6. CASE write_request
  <2>1. requests \in Seq(Nat) /\ Append(requests, execs) \in Seq(Nat)
    BY DEF IpcInv, IpcTypeOK
  <2>2. requests' \in Seq(Nat)
    BY <1>6, <2>1 DEF write_request
  <2> QED BY <1>6, <2>2 DEF IpcInv, IpcTypeOK, write_request, PC
<1>7. CASE write_failed
  <2>1. close /\ retry(FALSE)
    BY <1>7 DEF write_failed
  <2> QED BY <1>7, <2>1, CloseTypes, RetryTypes DEF IpcInv, IpcTypeOK, write_failed, PC
<1>8. CASE read_ok
  <2>1. replies \in Seq(Reply) /\ replies # <<>>
    BY <1>8 DEF IpcInv, IpcTypeOK, read_ok, Full
  <2>2. replies' \in Seq(Reply) /\ Head(replies) \in Reply
    BY <1>8, <2>1, TailReply DEF read_ok
  <2>3. result' \in [kind : {"none", "ok", "failed", "restart"}, job : Nat, info : Nat]
    BY <1>8, <2>2 DEF read_ok, Reply
  <2> QED BY <1>8, <2>2, <2>3 DEF IpcInv, IpcTypeOK, read_ok, PC
<1>9. CASE read_bad
  <2>1. result' \in [kind : {"none", "ok", "failed", "restart"}, job : Nat, info : Nat]
    BY <1>9 DEF read_bad, NoResult
  <2> QED BY <1>9, <2>1, AbortTypes DEF IpcInv, IpcTypeOK, read_bad, PC
<1>10. CASE drained
  BY <1>10, IpcAssumption DEF IpcInv, IpcTypeOK, PC, Status, Reply, mainAlive,
     drained, exVars
<1>11. CASE joined
  <2>1. /\ pc' \in PC /\ try' \in 0..(MaxTry + 1)
        /\ result' \in [kind : {"none", "ok", "failed", "restart"}, job : Nat, info : Nat]
    <3>1. CASE result.kind # "none"
      BY <1>11, <3>1 DEF IpcInv, IpcTypeOK, joined, returns, PC
    <3>2. CASE result.kind = "none"
      <4>1. retry(Full /\ Head(replies).status = "fail")
        BY <1>11, <3>2 DEF joined
      <4> QED BY <4>1, RetryTypes DEF IpcInv, PC
    <3> QED BY <3>1, <3>2
  <2> QED BY <1>11, <2>1, CloseTypes DEF IpcInv, IpcTypeOK, joined
<1>12. CASE answered
  BY <1>12, IpcAssumption DEF IpcInv, IpcTypeOK, PC, Status, Reply, mainAlive,
     answered, returns, retry, timer_joined, hang, exVars, NoResult
<1>13. CASE timer_fires
  BY <1>13, AbortTypes DEF IpcInv, IpcTypeOK, timer_fires
<1>14. CASE timer_stops
  BY <1>14, IpcAssumption DEF IpcInv, IpcTypeOK, PC, Status, Reply, mainAlive,
     timer_stops, exVars
<1>15. CASE abort_upgrades
  <2>1. killed' \subseteq {"main", "loop", "child"}
    BY <1>15 DEF IpcInv, IpcTypeOK, abort_upgrades
  <2> QED BY <1>15, <2>1 DEF IpcInv, IpcTypeOK, abort_upgrades
<1>16. CASE kill_main
  BY <1>16, IpcAssumption DEF IpcInv, IpcTypeOK, PC, Status, Reply, mainAlive,
     kill_main, exStep
<1>17. CASE kill_loop
  BY <1>17, IpcAssumption DEF IpcInv, IpcTypeOK, PC, Status, Reply, mainAlive,
     kill_loop, loopEnds, exStep
<1>18. CASE kill_child
  BY <1>18, IpcAssumption DEF IpcInv, IpcTypeOK, PC, Status, Reply, mainAlive,
     kill_child, exStep
<1>19. CASE do_sandbox
  BY <1>19, IpcAssumption DEF IpcInv, IpcTypeOK, PC, Status, Reply, mainAlive,
     do_sandbox, exStep
<1>20. CASE main_fails
  BY <1>20, IpcAssumption DEF IpcInv, IpcTypeOK, PC, Status, Reply, mainAlive,
     main_fails, exStep
<1>21. CASE sandbox_common
  BY <1>21, IpcAssumption DEF IpcInv, IpcTypeOK, PC, Status, Reply, mainAlive,
     sandbox_common, exStep
<1>22. CASE reply_handshake
  BY <1>22, IpcAssumption DEF IpcInv, IpcTypeOK, PC, Status, Reply, mainAlive,
     reply_handshake, exStep
<1>23. CASE receive_execute
  BY <1>23, IpcAssumption DEF IpcInv, IpcTypeOK, PC, Status, Reply, mainAlive,
     receive_execute, exStep
<1>24. CASE execute_one
  BY <1>24, IpcAssumption DEF IpcInv, IpcTypeOK, PC, Status, Reply, mainAlive,
     execute_one, exVars, exStep
<1>25. CASE reply_execute
  BY <1>25, IpcAssumption DEF IpcInv, IpcTypeOK, PC, Status, Reply, mainAlive,
     reply_execute, exStep
<1>26. CASE loop_fails
  BY <1>26, IpcAssumption DEF IpcInv, IpcTypeOK, PC, Status, Reply, mainAlive,
     loop_fails, loopEnds, exStep
<1>27. CASE main_replies
  BY <1>27, IpcAssumption DEF IpcInv, IpcTypeOK, PC, Status, Reply, mainAlive,
     main_replies, exStep
<1>28. CASE main_exits
  BY <1>28, IpcAssumption DEF IpcInv, IpcTypeOK, PC, Status, Reply, mainAlive,
     main_exits, exStep
<1> QED BY <1>1, <1>2, <1>3, <1>4, <1>5, <1>6, <1>7, <1>8, <1>9, <1>10, <1>11,
  <1>12, <1>13, <1>14, <1>15, <1>16, <1>17, <1>18, <1>19, <1>20, <1>21, <1>22,
  <1>23, <1>24, <1>25, <1>26, <1>27, <1>28 DEF IpcNext, goStep, timerStep,
  killStep, executorStep

\* Only execRace arms the timer, and it returns after the timer.
LEMMA TimerJoinedStep ==
    ASSUME IpcInv, IpcNext
    PROVE  TimerJoined'
<1>1. CASE executeRaw
  BY <1>1, IpcAssumption DEF IpcInv, TimerJoined, IpcTypeOK, executeRaw,
     exVars, NoResult
<1>2. CASE ExecRace
  BY <1>2, IpcAssumption DEF IpcInv, TimerJoined, IpcTypeOK, ExecRace, retry,
     cleared_out, NoResult
<1>3. CASE handshake
  BY <1>3, IpcAssumption DEF IpcInv, TimerJoined, IpcTypeOK, handshake
<1>4. CASE handshake_fails
  BY <1>4, IpcAssumption DEF IpcInv, TimerJoined, IpcTypeOK, handshake_fails,
     abort
<1>5. CASE handshakeError
  BY <1>5, IpcAssumption DEF IpcInv, TimerJoined, IpcTypeOK, handshakeError,
     close, retry, NoResult
<1>6. CASE write_request
  BY <1>6, IpcAssumption DEF IpcInv, TimerJoined, IpcTypeOK, write_request
<1>7. CASE write_failed
  BY <1>7, IpcAssumption DEF IpcInv, TimerJoined, IpcTypeOK, write_failed,
     close, retry, NoResult
<1>8. CASE read_ok
  BY <1>8, IpcAssumption DEF IpcInv, TimerJoined, IpcTypeOK, read_ok, Full
<1>9. CASE read_bad
  BY <1>9, IpcAssumption DEF IpcInv, TimerJoined, IpcTypeOK, read_bad, abort,
     Full, NoResult
<1>10. CASE drained
  BY <1>10, IpcAssumption DEF IpcInv, TimerJoined, IpcTypeOK, drained, exVars
<1>11. CASE joined
  BY <1>11, IpcAssumption DEF IpcInv, TimerJoined, IpcTypeOK, joined, close,
     returns, retry, NoResult, hang
<1>12. CASE answered
  BY <1>12, IpcAssumption DEF IpcInv, TimerJoined, IpcTypeOK, answered,
     returns, retry, timer_joined, hang, exVars, NoResult
<1>13. CASE timer_fires
  BY <1>13, IpcAssumption DEF IpcInv, TimerJoined, IpcTypeOK, timer_fires,
     abort
<1>14. CASE timer_stops
  BY <1>14, IpcAssumption DEF IpcInv, TimerJoined, IpcTypeOK, timer_stops,
     exVars
<1>15. CASE abort_upgrades
  BY <1>15, IpcAssumption DEF IpcInv, TimerJoined, IpcTypeOK, abort_upgrades
<1>16. CASE kill_main
  BY <1>16, IpcAssumption DEF IpcInv, TimerJoined, IpcTypeOK, kill_main,
     exStep
<1>17. CASE kill_loop
  BY <1>17, IpcAssumption DEF IpcInv, TimerJoined, IpcTypeOK, kill_loop,
     loopEnds, exStep
<1>18. CASE kill_child
  BY <1>18, IpcAssumption DEF IpcInv, TimerJoined, IpcTypeOK, kill_child,
     exStep
<1>19. CASE do_sandbox
  BY <1>19, IpcAssumption DEF IpcInv, TimerJoined, IpcTypeOK, do_sandbox,
     exStep
<1>20. CASE main_fails
  BY <1>20, IpcAssumption DEF IpcInv, TimerJoined, IpcTypeOK, main_fails,
     exStep
<1>21. CASE sandbox_common
  BY <1>21, IpcAssumption DEF IpcInv, TimerJoined, IpcTypeOK, sandbox_common,
     exStep
<1>22. CASE reply_handshake
  BY <1>22, IpcAssumption DEF IpcInv, TimerJoined, IpcTypeOK, reply_handshake,
     exStep
<1>23. CASE receive_execute
  BY <1>23, IpcAssumption DEF IpcInv, TimerJoined, IpcTypeOK, receive_execute,
     exStep
<1>24. CASE execute_one
  BY <1>24, IpcAssumption DEF IpcInv, TimerJoined, IpcTypeOK, execute_one,
     exVars, exStep
<1>25. CASE reply_execute
  BY <1>25, IpcAssumption DEF IpcInv, TimerJoined, IpcTypeOK, reply_execute,
     exStep
<1>26. CASE loop_fails
  BY <1>26, IpcAssumption DEF IpcInv, TimerJoined, IpcTypeOK, loop_fails,
     loopEnds, exStep
<1>27. CASE main_replies
  BY <1>27, IpcAssumption DEF IpcInv, TimerJoined, IpcTypeOK, main_replies,
     exStep
<1>28. CASE main_exits
  BY <1>28, IpcAssumption DEF IpcInv, TimerJoined, IpcTypeOK, main_exits,
     exStep
<1> QED BY <1>1, <1>2, <1>3, <1>4, <1>5, <1>6, <1>7, <1>8, <1>9, <1>10, <1>11,
  <1>12, <1>13, <1>14, <1>15, <1>16, <1>17, <1>18, <1>19, <1>20, <1>21, <1>22,
  <1>23, <1>24, <1>25, <1>26, <1>27, <1>28 DEF IpcNext, goStep, timerStep,
  killStep, executorStep

\* A command is given up when all the processes of its executor are gone.
LEMMA LeftoversStep ==
    ASSUME IpcInv, IpcNext
    PROVE  Leftovers'
<1>1. CASE executeRaw
  BY <1>1, IpcAssumption DEF IpcInv, Leftovers, IpcTypeOK, readDone, served,
     mainAlive, executeRaw, exVars, NoResult
<1>2. CASE ExecRace
  BY <1>2, IpcAssumption DEF IpcInv, Leftovers, IpcTypeOK, readDone, served,
     mainAlive, ExecRace, retry, cleared_out, NoResult
<1>3. CASE handshake
  BY <1>3, IpcAssumption DEF IpcInv, Leftovers, IpcTypeOK, readDone, served,
     mainAlive, handshake
<1>4. CASE handshake_fails
  BY <1>4, IpcAssumption DEF IpcInv, Leftovers, IpcTypeOK, readDone, served,
     mainAlive, handshake_fails, abort
<1>5. CASE handshakeError
  BY <1>5, IpcAssumption DEF IpcInv, Leftovers, IpcTypeOK, readDone, served,
     mainAlive, handshakeError, close, retry, NoResult
<1>6. CASE write_request
  BY <1>6, IpcAssumption DEF IpcInv, Leftovers, IpcTypeOK, readDone, served,
     mainAlive, write_request
<1>7. CASE write_failed
  BY <1>7, IpcAssumption DEF IpcInv, Leftovers, IpcTypeOK, readDone, served,
     mainAlive, write_failed, close, retry, NoResult
<1>8. CASE read_ok
  BY <1>8, IpcAssumption DEF IpcInv, Leftovers, IpcTypeOK, readDone, served,
     mainAlive, read_ok, Full
<1>9. CASE read_bad
  BY <1>9, IpcAssumption DEF IpcInv, Leftovers, IpcTypeOK, readDone, served,
     mainAlive, read_bad, abort, Full, NoResult
<1>10. CASE drained
  BY <1>10, IpcAssumption DEF IpcInv, Leftovers, IpcTypeOK, readDone, served,
     mainAlive, drained, exVars
<1>11. CASE joined
  BY <1>11, IpcAssumption DEF IpcInv, Leftovers, IpcTypeOK, readDone, served,
     mainAlive, joined, close, returns, retry, NoResult, hang
<1>12. CASE answered
  BY <1>12, IpcAssumption DEF IpcInv, Leftovers, IpcTypeOK, readDone, served,
     mainAlive, answered, returns, retry, timer_joined, hang, exVars, NoResult
<1>13. CASE timer_fires
  BY <1>13, IpcAssumption DEF IpcInv, Leftovers, IpcTypeOK, readDone, served,
     mainAlive, timer_fires, abort
<1>14. CASE timer_stops
  BY <1>14, IpcAssumption DEF IpcInv, Leftovers, IpcTypeOK, readDone, served,
     mainAlive, timer_stops, exVars
<1>15. CASE abort_upgrades
  BY <1>15, IpcAssumption DEF IpcInv, Leftovers, IpcTypeOK, readDone, served,
     mainAlive, abort_upgrades
<1>16. CASE kill_main
  BY <1>16, IpcAssumption DEF IpcInv, Leftovers, IpcTypeOK, readDone, served,
     mainAlive, kill_main, exStep
<1>17. CASE kill_loop
  BY <1>17, IpcAssumption DEF IpcInv, Leftovers, IpcTypeOK, readDone, served,
     mainAlive, kill_loop, loopEnds, exStep
<1>18. CASE kill_child
  BY <1>18, IpcAssumption DEF IpcInv, Leftovers, IpcTypeOK, readDone, served,
     mainAlive, kill_child, exStep
<1>19. CASE do_sandbox
  BY <1>19, IpcAssumption DEF IpcInv, Leftovers, IpcTypeOK, readDone, served,
     mainAlive, do_sandbox, exStep
<1>20. CASE main_fails
  BY <1>20, IpcAssumption DEF IpcInv, Leftovers, IpcTypeOK, readDone, served,
     mainAlive, main_fails, exStep
<1>21. CASE sandbox_common
  BY <1>21, IpcAssumption DEF IpcInv, Leftovers, IpcTypeOK, readDone, served,
     mainAlive, sandbox_common, exStep
<1>22. CASE reply_handshake
  BY <1>22, IpcAssumption DEF IpcInv, Leftovers, IpcTypeOK, readDone, served,
     mainAlive, reply_handshake, exStep
<1>23. CASE receive_execute
  BY <1>23, IpcAssumption DEF IpcInv, Leftovers, IpcTypeOK, readDone, served,
     mainAlive, receive_execute, exStep
<1>24. CASE execute_one
  BY <1>24, IpcAssumption DEF IpcInv, Leftovers, IpcTypeOK, readDone, served,
     mainAlive, execute_one, exVars, exStep
<1>25. CASE reply_execute
  BY <1>25, IpcAssumption DEF IpcInv, Leftovers, IpcTypeOK, readDone, served,
     mainAlive, reply_execute, exStep
<1>26. CASE loop_fails
  BY <1>26, IpcAssumption DEF IpcInv, Leftovers, IpcTypeOK, readDone, served,
     mainAlive, loop_fails, loopEnds, exStep
<1>27. CASE main_replies
  BY <1>27, IpcAssumption DEF IpcInv, Leftovers, IpcTypeOK, readDone, served,
     mainAlive, main_replies, exStep
<1>28. CASE main_exits
  BY <1>28, IpcAssumption DEF IpcInv, Leftovers, IpcTypeOK, readDone, served,
     mainAlive, main_exits, exStep
<1> QED BY <1>1, <1>2, <1>3, <1>4, <1>5, <1>6, <1>7, <1>8, <1>9, <1>10, <1>11,
  <1>12, <1>13, <1>14, <1>15, <1>16, <1>17, <1>18, <1>19, <1>20, <1>21, <1>22,
  <1>23, <1>24, <1>25, <1>26, <1>27, <1>28 DEF IpcNext, goStep, timerStep,
  killStep, executorStep

\* A request becomes a child and the child an answer, all for the current
\* execution.
LEMMA UnderwayStep ==
    ASSUME IpcInv, IpcNext
    PROVE  Underway'
<1>1. CASE executeRaw
  BY <1>1, IpcAssumption DEF IpcInv, Underway, IpcTypeOK, NoOkay, Okay,
     Leftovers, readDone, served, mainAlive, executeRaw, exVars, NoResult
<1>2. CASE ExecRace
  BY <1>2, IpcAssumption DEF IpcInv, Underway, IpcTypeOK, NoOkay, Okay,
     Leftovers, readDone, served, mainAlive, ExecRace, retry, cleared_out,
     NoResult
<1>3. CASE handshake
  <2> DEFINE h == [Head(replies) EXCEPT !.kind = "tail"]
  <2>1. replies \in Seq(Reply) /\ replies # <<>> /\ NoOkay(replies)
    BY <1>3 DEF IpcInv, IpcTypeOK, Underway, handshake
  <2>2. /\ Tail(replies) \in Seq(Reply) /\ Len(Tail(replies)) = Len(replies) - 1
        /\ \A i \in 1..(Len(replies) - 1) : Tail(replies)[i] = replies[i + 1]
        /\ Head(replies) \in Reply /\ Len(replies) \in Nat \ {0}
    BY <2>1, TailReply
  <2>3. NoOkay(Tail(replies))
    BY <2>1, <2>2 DEF NoOkay
  <2>4. h \in Reply /\ ~Okay(h)
    BY <2>2 DEF Reply, Okay
  <2>5. NoOkay(<<h>> \o Tail(replies))
    <3> DEFINE s == <<h>> \o Tail(replies)
    <3>1. s[1] = h /\ \A i \in 2..Len(s) : s[i] = Tail(replies)[i - 1]
      BY <2>2, <2>4
    <3>2. Len(s) = 1 + Len(Tail(replies))
      BY <2>2, <2>4
    <3> HIDE DEF s, h
    <3>3. SUFFICES ASSUME NEW i \in 1..Len(s) PROVE ~Okay(s[i])
      BY DEF NoOkay, s
    <3>4. CASE i = 1
      BY <3>1, <3>4, <2>4
    <3>5. CASE i # 1
      <4>1. i \in 2..Len(s) /\ i - 1 \in 1..Len(Tail(replies))
        BY <3>2, <3>5, <2>2
      <4> QED BY <4>1, <3>1, <2>3 DEF NoOkay
    <3> QED BY <3>4, <3>5
  <2>6. NoOkay(replies')
    BY <1>3, <2>3, <2>5 DEF handshake
  <2> QED BY <1>3, <2>6 DEF IpcInv, Underway, handshake, NoOkay
<1>4. CASE handshake_fails
  BY <1>4, IpcAssumption DEF IpcInv, Underway, IpcTypeOK, NoOkay, Okay,
     Leftovers, readDone, served, mainAlive, handshake_fails, abort
<1>5. CASE handshakeError
  BY <1>5, IpcAssumption DEF IpcInv, Underway, IpcTypeOK, NoOkay, Okay,
     Leftovers, readDone, served, mainAlive, handshakeError, close, retry,
     NoResult
<1>6. CASE write_request
  <2>1. CASE served
    <3>1. /\ Len(requests) = 0 /\ requests \in Seq(Nat) /\ execs \in Nat
          /\ NoOkay(replies) /\ child # "run"
      BY <1>6 DEF IpcInv, IpcTypeOK, Underway, write_request
    <3>2. requests' = <<execs>>
      BY <1>6, <2>1, <3>1 DEF write_request
    <3> QED BY <1>6, <3>1, <3>2, <2>1
            DEF IpcInv, IpcTypeOK, Underway, write_request, NoOkay, Okay
  <2>2. CASE ~served
    BY <1>6, <2>2 DEF IpcInv, Underway, write_request, NoOkay, Okay
  <2> QED BY <2>1, <2>2
<1>7. CASE write_failed
  BY <1>7, IpcAssumption DEF IpcInv, Underway, IpcTypeOK, NoOkay, Okay,
     Leftovers, readDone, served, mainAlive, write_failed, close, retry,
     NoResult
<1>8. CASE read_ok
  <2>1. replies \in Seq(Reply) /\ replies # <<>> /\ Okay(Head(replies)) /\ pc = "reply"
    BY <1>8 DEF IpcInv, IpcTypeOK, read_ok, Full, Okay
  <2>2. /\ Tail(replies) \in Seq(Reply) /\ Len(Tail(replies)) = Len(replies) - 1
        /\ \A i \in 1..(Len(replies) - 1) : Tail(replies)[i] = replies[i + 1]
        /\ Head(replies) = replies[1] /\ Len(replies) \in Nat \ {0}
    BY <2>1, TailReply
  <2>3. ~NoOkay(replies)
    BY <2>1, <2>2 DEF NoOkay
  <2>4. child # "run" /\ Len(requests) = 0
    <3>1. Len(requests) \in Nat
      <4>1. requests \in Seq(Nat)
        BY DEF IpcInv, IpcTypeOK
      <4> QED BY <4>1
    <3>2. Len(requests) <= 1 /\ Len(requests) # 1
      BY <2>1, <2>3 DEF IpcInv, Underway
    <3>3. Len(requests) = 0
      <4> DEFINE n == Len(requests)
      <4> HIDE DEF n
      <4>1. n \in Nat /\ n <= 1 /\ n # 1 => n = 0
        OBVIOUS
      <4> QED BY <3>1, <3>2, <4>1 DEF n
    <3>4. child # "run"
      BY <2>1, <2>3 DEF IpcInv, Underway
    <3> QED BY <3>3, <3>4
  <2>5. NoOkay(Tail(replies))
    <3>1. SUFFICES ASSUME NEW i \in 1..Len(Tail(replies)), Okay(Tail(replies)[i])
                   PROVE  FALSE
      BY DEF NoOkay
    <3>2. i + 1 \in 1..Len(replies) /\ Okay(replies[i + 1]) /\ i + 1 # 1
      BY <2>2, <3>1
    <3> QED BY <3>2, <2>1, <2>2 DEF IpcInv, Underway
  <2> QED BY <1>8, <2>4, <2>5 DEF IpcInv, Underway, read_ok, NoOkay
<1>9. CASE read_bad
  BY <1>9, IpcAssumption DEF IpcInv, Underway, IpcTypeOK, NoOkay, Okay,
     Leftovers, readDone, served, mainAlive, read_bad, abort, Full, NoResult
<1>10. CASE drained
  BY <1>10, IpcAssumption DEF IpcInv, Underway, IpcTypeOK, NoOkay, Okay,
     Leftovers, readDone, served, mainAlive, drained, exVars
<1>11. CASE joined
  BY <1>11, IpcAssumption DEF IpcInv, Underway, IpcTypeOK, NoOkay, Okay,
     Leftovers, readDone, served, mainAlive, joined, close, returns, retry,
     NoResult, hang
<1>12. CASE answered
  BY <1>12, IpcAssumption DEF IpcInv, Underway, IpcTypeOK, NoOkay, Okay,
     Leftovers, readDone, served, mainAlive, answered, returns, retry,
     timer_joined, hang, exVars, NoResult
<1>13. CASE timer_fires
  BY <1>13, IpcAssumption DEF IpcInv, Underway, IpcTypeOK, NoOkay, Okay,
     Leftovers, readDone, served, mainAlive, timer_fires, abort
<1>14. CASE timer_stops
  BY <1>14, IpcAssumption DEF IpcInv, Underway, IpcTypeOK, NoOkay, Okay,
     Leftovers, readDone, served, mainAlive, timer_stops, exVars
<1>15. CASE abort_upgrades
  BY <1>15, IpcAssumption DEF IpcInv, Underway, IpcTypeOK, NoOkay, Okay,
     Leftovers, readDone, served, mainAlive, abort_upgrades
<1>16. CASE kill_main
  BY <1>16, IpcAssumption DEF IpcInv, Underway, IpcTypeOK, NoOkay, Okay,
     Leftovers, readDone, served, mainAlive, kill_main, exStep
<1>17. CASE kill_loop
  BY <1>17, IpcAssumption DEF IpcInv, Underway, IpcTypeOK, NoOkay, Okay,
     Leftovers, readDone, served, mainAlive, kill_loop, loopEnds, exStep
<1>18. CASE kill_child
  BY <1>18, IpcAssumption DEF IpcInv, Underway, IpcTypeOK, NoOkay, Okay,
     Leftovers, readDone, served, mainAlive, kill_child, exStep
<1>19. CASE do_sandbox
  BY <1>19, IpcAssumption DEF IpcInv, Underway, IpcTypeOK, NoOkay, Okay,
     Leftovers, readDone, served, mainAlive, do_sandbox, exStep
<1>20. CASE main_fails
  BY <1>20, IpcAssumption DEF IpcInv, Underway, IpcTypeOK, NoOkay, Okay,
     Leftovers, readDone, served, mainAlive, main_fails, exStep
<1>21. CASE sandbox_common
  BY <1>21, IpcAssumption DEF IpcInv, Underway, IpcTypeOK, NoOkay, Okay,
     Leftovers, readDone, served, mainAlive, sandbox_common, exStep
<1>22. CASE reply_handshake
  BY <1>22, IpcAssumption DEF IpcInv, Underway, IpcTypeOK, NoOkay, Okay,
     Leftovers, readDone, served, mainAlive, reply_handshake, exStep
<1>23. CASE receive_execute
  <2>1. requests \in Seq(Nat) /\ requests # <<>>
    BY <1>23 DEF IpcInv, IpcTypeOK, receive_execute
  <2>2. /\ Len(requests') = Len(requests) - 1 /\ job' = requests[1]
        /\ Len(requests) \in Nat \ {0}
        /\ \A i \in 1..(Len(requests) - 1) : requests'[i] = requests[i + 1]
    BY <1>23, <2>1 DEF receive_execute
  <2>3. job' = execs /\ \A i \in 1..Len(requests') : requests'[i] = execs
    BY <2>2 DEF IpcInv, Underway
  <2>4. pc \in {"reply", "failing"}
    BY <1>23, <2>2 DEF IpcInv, IpcTypeOK, PC, Underway, Leftovers, readDone, served, receive_execute
  <2>5. pc = "reply" => NoOkay(replies) /\ Len(requests') = 0
    BY <2>2 DEF IpcInv, Underway
  <2>6. UNCHANGED <<pc, execs, replies>> /\ child' = "run"
    BY <1>23 DEF receive_execute, exStep
  <2>7. \A i \in 1..Len(replies) : Okay(replies[i]) => replies[i].job = execs
    BY DEF IpcInv, Underway
  <2> QED BY <2>3, <2>4, <2>5, <2>6, <2>7 DEF Underway, NoOkay
<1>24. CASE execute_one
  BY <1>24, IpcAssumption DEF IpcInv, Underway, IpcTypeOK, NoOkay, Okay,
     Leftovers, readDone, served, mainAlive, execute_one, exVars, exStep
<1>25. CASE reply_execute
  <2> DEFINE r == [kind |-> "execute", status |-> "ok", job |-> job]
  <2>1. replies \in Seq(Reply) /\ r \in Reply /\ job = execs /\ child = "run"
    BY <1>25 DEF IpcInv, IpcTypeOK, Underway, reply_execute, Reply, Status
  <2>2. replies' = Append(replies, r) /\ r.job = execs
    BY <1>25, <2>1 DEF reply_execute
  <2> HIDE DEF r
  <2>3. /\ Len(replies') = Len(replies) + 1 /\ Len(replies) \in Nat
        /\ \A i \in 1..Len(replies) : replies'[i] = replies[i]
        /\ replies'[Len(replies) + 1] = r
    BY <2>1, <2>2, AppendReply
  <2>4. \A i \in 1..Len(replies') : i \notin 1..Len(replies) => i = Len(replies) + 1
    BY <2>3
  <2>5. \A i \in 1..Len(replies') : Okay(replies'[i]) => replies'[i].job = execs
    BY <2>2, <2>3, <2>4 DEF IpcInv, Underway
  <2>6. pc = "reply" => NoOkay(replies) /\ Len(requests) = 0
    BY <2>1 DEF IpcInv, Underway
  <2>7. pc = "reply" => \A i, j \in 1..Len(replies') :
                           Okay(replies'[i]) /\ Okay(replies'[j]) => i = j
    BY <2>3, <2>4, <2>6 DEF NoOkay
  <2>8. UNCHANGED <<pc, execs, requests>> /\ child' = "gone" /\ pc \in {"reply", "failing"}
    BY <1>25 DEF IpcInv, Underway, reply_execute, exStep
  <2>9. \A i \in 1..Len(requests) : requests[i] = execs
    BY DEF IpcInv, Underway
  <2> QED BY <2>5, <2>6, <2>7, <2>8, <2>9 DEF Underway
<1>26. CASE loop_fails
  BY <1>26, IpcAssumption DEF IpcInv, Underway, IpcTypeOK, NoOkay, Okay,
     Leftovers, readDone, served, mainAlive, loop_fails, loopEnds, exStep
<1>27. CASE main_replies
  <2> DEFINE r == [kind |-> "execute", status |-> status, job |-> 0]
  <2>1. replies \in Seq(Reply) /\ r \in Reply
    BY <1>27 DEF IpcInv, IpcTypeOK, Reply, Status
  <2>2. replies' = Append(replies, r) /\ ~Okay(r)
    BY <1>27, IpcAssumption DEF IpcInv, Leftovers, readDone, served, mainAlive,
       main_replies, Okay
  <2> HIDE DEF r
  <2>3. /\ Len(replies') = Len(replies) + 1 /\ Len(replies) \in Nat
        /\ \A i \in 1..Len(replies) : replies'[i] = replies[i]
        /\ replies'[Len(replies) + 1] = r
    BY <2>1, <2>2, AppendReply
  <2>4. \A i \in 1..Len(replies') : Okay(replies'[i]) =>
           i \in 1..Len(replies) /\ Okay(replies[i]) /\ replies'[i] = replies[i]
    <3>1. \A i \in 1..Len(replies') : i \notin 1..Len(replies) => i = Len(replies) + 1
      BY <2>3
    <3> QED BY <2>2, <2>3, <3>1
  <2>5. NoOkay(replies) => NoOkay(replies)'
    BY <2>4 DEF NoOkay
  <2>6. UNCHANGED <<pc, execs, requests, child, job>>
    BY <1>27 DEF main_replies, exStep
  <2> QED BY <2>4, <2>5, <2>6 DEF IpcInv, Underway
<1>28. CASE main_exits
  BY <1>28, IpcAssumption DEF IpcInv, Underway, IpcTypeOK, NoOkay, Okay,
     Leftovers, readDone, served, mainAlive, main_exits, exStep
<1> QED BY <1>1, <1>2, <1>3, <1>4, <1>5, <1>6, <1>7, <1>8, <1>9, <1>10, <1>11,
  <1>12, <1>13, <1>14, <1>15, <1>16, <1>17, <1>18, <1>19, <1>20, <1>21, <1>22,
  <1>23, <1>24, <1>25, <1>26, <1>27, <1>28 DEF IpcNext, goStep, timerStep,
  killStep, executorStep

\* The output is empty or the current execution's, and a failing call has none.
LEMMA OutcomeStep ==
    ASSUME IpcInv, IpcNext
    PROVE  Outcome'
<1>1. CASE executeRaw
  BY <1>1, IpcAssumption DEF IpcInv, Outcome, IpcTypeOK, Underway, executeRaw,
     exVars, NoResult
<1>2. CASE ExecRace
  BY <1>2, IpcAssumption DEF IpcInv, Outcome, IpcTypeOK, Underway, ExecRace,
     retry, cleared_out, NoResult
<1>3. CASE handshake
  BY <1>3, IpcAssumption DEF IpcInv, Outcome, IpcTypeOK, Underway, handshake
<1>4. CASE handshake_fails
  BY <1>4, IpcAssumption DEF IpcInv, Outcome, IpcTypeOK, Underway,
     handshake_fails, abort
<1>5. CASE handshakeError
  BY <1>5, IpcAssumption DEF IpcInv, Outcome, IpcTypeOK, Underway,
     handshakeError, close, retry, NoResult
<1>6. CASE write_request
  BY <1>6, IpcAssumption DEF IpcInv, Outcome, IpcTypeOK, Underway,
     write_request
<1>7. CASE write_failed
  BY <1>7, IpcAssumption DEF IpcInv, Outcome, IpcTypeOK, Underway,
     write_failed, close, retry, NoResult
<1>8. CASE read_ok
  BY <1>8, IpcAssumption DEF IpcInv, Outcome, IpcTypeOK, Underway, read_ok,
     Full
<1>9. CASE read_bad
  BY <1>9, IpcAssumption DEF IpcInv, Outcome, IpcTypeOK, Underway, read_bad,
     abort, Full, NoResult
<1>10. CASE drained
  BY <1>10, IpcAssumption DEF IpcInv, Outcome, IpcTypeOK, Underway, drained,
     exVars
<1>11. CASE joined
  BY <1>11, IpcAssumption DEF IpcInv, Outcome, IpcTypeOK, Underway, joined,
     close, returns, retry, NoResult, hang
<1>12. CASE answered
  BY <1>12, IpcAssumption DEF IpcInv, Outcome, IpcTypeOK, Underway, answered,
     returns, retry, timer_joined, hang, exVars, NoResult
<1>13. CASE timer_fires
  BY <1>13, IpcAssumption DEF IpcInv, Outcome, IpcTypeOK, Underway,
     timer_fires, abort
<1>14. CASE timer_stops
  BY <1>14, IpcAssumption DEF IpcInv, Outcome, IpcTypeOK, Underway,
     timer_stops, exVars
<1>15. CASE abort_upgrades
  BY <1>15, IpcAssumption DEF IpcInv, Outcome, IpcTypeOK, Underway,
     abort_upgrades
<1>16. CASE kill_main
  BY <1>16, IpcAssumption DEF IpcInv, Outcome, IpcTypeOK, Underway, kill_main,
     exStep
<1>17. CASE kill_loop
  BY <1>17, IpcAssumption DEF IpcInv, Outcome, IpcTypeOK, Underway, kill_loop,
     loopEnds, exStep
<1>18. CASE kill_child
  BY <1>18, IpcAssumption DEF IpcInv, Outcome, IpcTypeOK, Underway,
     kill_child, exStep
<1>19. CASE do_sandbox
  BY <1>19, IpcAssumption DEF IpcInv, Outcome, IpcTypeOK, Underway,
     do_sandbox, exStep
<1>20. CASE main_fails
  BY <1>20, IpcAssumption DEF IpcInv, Outcome, IpcTypeOK, Underway,
     main_fails, exStep
<1>21. CASE sandbox_common
  BY <1>21, IpcAssumption DEF IpcInv, Outcome, IpcTypeOK, Underway,
     sandbox_common, exStep
<1>22. CASE reply_handshake
  BY <1>22, IpcAssumption DEF IpcInv, Outcome, IpcTypeOK, Underway,
     reply_handshake, exStep
<1>23. CASE receive_execute
  BY <1>23, IpcAssumption DEF IpcInv, Outcome, IpcTypeOK, Underway,
     receive_execute, exStep
<1>24. CASE execute_one
  BY <1>24, IpcAssumption DEF IpcInv, Outcome, IpcTypeOK, Underway,
     execute_one, exVars, exStep
<1>25. CASE reply_execute
  BY <1>25, IpcAssumption DEF IpcInv, Outcome, IpcTypeOK, Underway,
     reply_execute, exStep
<1>26. CASE loop_fails
  BY <1>26, IpcAssumption DEF IpcInv, Outcome, IpcTypeOK, Underway,
     loop_fails, loopEnds, exStep
<1>27. CASE main_replies
  BY <1>27, IpcAssumption DEF IpcInv, Outcome, IpcTypeOK, Underway,
     main_replies, exStep
<1>28. CASE main_exits
  BY <1>28, IpcAssumption DEF IpcInv, Outcome, IpcTypeOK, Underway,
     main_exits, exStep
<1> QED BY <1>1, <1>2, <1>3, <1>4, <1>5, <1>6, <1>7, <1>8, <1>9, <1>10, <1>11,
  <1>12, <1>13, <1>14, <1>15, <1>16, <1>17, <1>18, <1>19, <1>20, <1>21, <1>22,
  <1>23, <1>24, <1>25, <1>26, <1>27, <1>28 DEF IpcNext, goStep, timerStep,
  killStep, executorStep

\* What a finished call returns is its own.
LEMMA OwnAnswerStep ==
    ASSUME IpcInv, IpcNext
    PROVE  OwnAnswer'
<1>1. CASE executeRaw
  BY <1>1, IpcAssumption DEF IpcInv, OwnAnswer, IpcTypeOK, Outcome, Underway,
     executeRaw, exVars, NoResult
<1>2. CASE ExecRace
  BY <1>2, IpcAssumption DEF IpcInv, OwnAnswer, IpcTypeOK, Outcome, Underway,
     ExecRace, retry, cleared_out, NoResult
<1>3. CASE handshake
  BY <1>3, IpcAssumption DEF IpcInv, OwnAnswer, IpcTypeOK, Outcome, Underway,
     handshake
<1>4. CASE handshake_fails
  BY <1>4, IpcAssumption DEF IpcInv, OwnAnswer, IpcTypeOK, Outcome, Underway,
     handshake_fails, abort
<1>5. CASE handshakeError
  BY <1>5, IpcAssumption DEF IpcInv, OwnAnswer, IpcTypeOK, Outcome, Underway,
     handshakeError, close, retry, NoResult
<1>6. CASE write_request
  BY <1>6, IpcAssumption DEF IpcInv, OwnAnswer, IpcTypeOK, Outcome, Underway,
     write_request
<1>7. CASE write_failed
  BY <1>7, IpcAssumption DEF IpcInv, OwnAnswer, IpcTypeOK, Outcome, Underway,
     write_failed, close, retry, NoResult
<1>8. CASE read_ok
  <2>1. replies \in Seq(Reply) /\ replies # <<>> /\ Okay(Head(replies))
    BY <1>8 DEF IpcInv, IpcTypeOK, read_ok, Full, Okay
  <2>2. Head(replies) = replies[1] /\ 1 \in 1..Len(replies)
    BY <2>1, TailReply
  <2>3. Head(replies).job = execs
    BY <2>1, <2>2 DEF IpcInv, Underway
  <2> QED BY <1>8, <2>3 DEF read_ok, OwnAnswer
<1>9. CASE read_bad
  BY <1>9, IpcAssumption DEF IpcInv, OwnAnswer, IpcTypeOK, Outcome, Underway,
     read_bad, abort, Full, NoResult
<1>10. CASE drained
  BY <1>10, IpcAssumption DEF IpcInv, OwnAnswer, IpcTypeOK, Outcome, Underway,
     drained, exVars
<1>11. CASE joined
  BY <1>11, IpcAssumption DEF IpcInv, OwnAnswer, IpcTypeOK, Outcome, Underway,
     joined, close, returns, retry, NoResult, hang
<1>12. CASE answered
  BY <1>12, IpcAssumption DEF IpcInv, OwnAnswer, IpcTypeOK, Outcome, Underway,
     answered, returns, retry, timer_joined, hang, exVars, NoResult
<1>13. CASE timer_fires
  BY <1>13, IpcAssumption DEF IpcInv, OwnAnswer, IpcTypeOK, Outcome, Underway,
     timer_fires, abort
<1>14. CASE timer_stops
  BY <1>14, IpcAssumption DEF IpcInv, OwnAnswer, IpcTypeOK, Outcome, Underway,
     timer_stops, exVars
<1>15. CASE abort_upgrades
  BY <1>15, IpcAssumption DEF IpcInv, OwnAnswer, IpcTypeOK, Outcome, Underway,
     abort_upgrades
<1>16. CASE kill_main
  BY <1>16, IpcAssumption DEF IpcInv, OwnAnswer, IpcTypeOK, Outcome, Underway,
     kill_main, exStep
<1>17. CASE kill_loop
  BY <1>17, IpcAssumption DEF IpcInv, OwnAnswer, IpcTypeOK, Outcome, Underway,
     kill_loop, loopEnds, exStep
<1>18. CASE kill_child
  BY <1>18, IpcAssumption DEF IpcInv, OwnAnswer, IpcTypeOK, Outcome, Underway,
     kill_child, exStep
<1>19. CASE do_sandbox
  BY <1>19, IpcAssumption DEF IpcInv, OwnAnswer, IpcTypeOK, Outcome, Underway,
     do_sandbox, exStep
<1>20. CASE main_fails
  BY <1>20, IpcAssumption DEF IpcInv, OwnAnswer, IpcTypeOK, Outcome, Underway,
     main_fails, exStep
<1>21. CASE sandbox_common
  BY <1>21, IpcAssumption DEF IpcInv, OwnAnswer, IpcTypeOK, Outcome, Underway,
     sandbox_common, exStep
<1>22. CASE reply_handshake
  BY <1>22, IpcAssumption DEF IpcInv, OwnAnswer, IpcTypeOK, Outcome, Underway,
     reply_handshake, exStep
<1>23. CASE receive_execute
  BY <1>23, IpcAssumption DEF IpcInv, OwnAnswer, IpcTypeOK, Outcome, Underway,
     receive_execute, exStep
<1>24. CASE execute_one
  BY <1>24, IpcAssumption DEF IpcInv, OwnAnswer, IpcTypeOK, Outcome, Underway,
     execute_one, exVars, exStep
<1>25. CASE reply_execute
  BY <1>25, IpcAssumption DEF IpcInv, OwnAnswer, IpcTypeOK, Outcome, Underway,
     reply_execute, exStep
<1>26. CASE loop_fails
  BY <1>26, IpcAssumption DEF IpcInv, OwnAnswer, IpcTypeOK, Outcome, Underway,
     loop_fails, loopEnds, exStep
<1>27. CASE main_replies
  BY <1>27, IpcAssumption DEF IpcInv, OwnAnswer, IpcTypeOK, Outcome, Underway,
     main_replies, exStep
<1>28. CASE main_exits
  BY <1>28, IpcAssumption DEF IpcInv, OwnAnswer, IpcTypeOK, Outcome, Underway,
     main_exits, exStep
<1> QED BY <1>1, <1>2, <1>3, <1>4, <1>5, <1>6, <1>7, <1>8, <1>9, <1>10, <1>11,
  <1>12, <1>13, <1>14, <1>15, <1>16, <1>17, <1>18, <1>19, <1>20, <1>21, <1>22,
  <1>23, <1>24, <1>25, <1>26, <1>27, <1>28 DEF IpcNext, goStep, timerStep,
  killStep, executorStep

\* A step that changes nothing preserves the invariant.
LEMMA StutterInv ==
    ASSUME IpcInv, UNCHANGED vars
    PROVE  IpcInv'
  BY DEF IpcInv, IpcTypeOK, TimerJoined, Leftovers, Underway, Outcome, OwnAnswer,
         NoOkay, Okay, readDone, served, mainAlive, vars, goVars, exVars

----------------------------------------------------------------------------
\* The inductive invariant holds in every reachable state, for any number of
\* programs and of attempts.
THEOREM IpcInvHolds == IpcSpec => []IpcInv
<1>1. MakeEnv => IpcInv
  BY InitInv
<1>2. ASSUME IpcInv, [IpcNext]_vars PROVE IpcInv'
  <2>1. CASE IpcNext
    <3>1. IpcTypeOK' /\ TimerJoined' /\ Leftovers'
      BY <1>2, <2>1, IpcTypeOKStep, TimerJoinedStep, LeftoversStep
    <3>2. Underway' /\ Outcome' /\ OwnAnswer'
      BY <1>2, <2>1, UnderwayStep, OutcomeStep, OwnAnswerStep
    <3> QED BY <3>1, <3>2 DEF IpcInv
  <2>2. CASE UNCHANGED vars
    BY <1>2, <2>2, StutterInv
  <2> QED BY <1>2, <2>1, <2>2
<1> QED BY <1>1, <1>2, PTL DEF IpcSpec

\* The state of executeRaw, of the Env and of the executor keeps its types: in
\* particular ExecRace is retried at most MaxTry + 1 times.
THEOREM IpcTypeCorrect == IpcSpec => []IpcTypeOK
<1>1. IpcInv => IpcTypeOK
  BY DEF IpcInv
<1> QED BY <1>1, IpcInvHolds, PTL

\* An execution that executeRaw reports as done was answered by the executor
\* for this very call, and its coverage is its own or empty.
THEOREM AnswersAreOwn == IpcSpec => []OwnAnswer
<1>1. IpcInv => OwnAnswer
  BY DEF IpcInv
<1> QED BY <1>1, IpcInvHolds, PTL

\* When a command is closed, and until the next executor forks, no process of
\* an executor is left: waiting for the end of stderr waits for all of them.
THEOREM NothingIsLeftBehind == IpcSpec => []NothingLeftBehind
<1>1. IpcInv => NothingLeftBehind
  BY DEF IpcInv, Leftovers, NothingLeftBehind
<1> QED BY <1>1, IpcInvHolds, PTL

\* No timer goroutine survives the execRace that started it.
THEOREM TimersAreJoined == IpcSpec => []TimerJoined
<1>1. IpcInv => TimerJoined
  BY DEF IpcInv
<1> QED BY <1>1, IpcInvHolds, PTL
=============================================================================
