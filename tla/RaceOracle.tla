----------------------------- MODULE RaceOracle -----------------------------
(***************************************************************************)
(* What the scheduling hypervisor and its executor promise to              *)
(* syz-scheduler: a request names two instructions; if its program runs to *)
(* its end, the outcome says whether they met, that is, whether one vCPU   *)
(* was held at its instruction while the other stopped at its own, on      *)
(* conflicting accesses to one address.  After a program that did not run  *)
(* to its end the outcome may also ask for a retry, once.  A request whose *)
(* program does not run to its end has no outcome of its own: the answer   *)
(* repeats the last one.                                                   *)
(***************************************************************************)
VARIABLES
    serving,    \* a request is being served
    conflict,   \* its two instructions have met
    complete,   \* its program has run to its end, ...
    tidy,       \* ... and so had the one before it
    outcome,    \* the outcome of the last program that ran to its end
    answer      \* the last answer, "none" while a request is served

oracleVars == <<serving, conflict, complete, tidy, outcome, answer>>

OracleInit ==
    /\ serving = FALSE
    /\ conflict = FALSE
    /\ complete = TRUE
    /\ tidy = TRUE
    /\ outcome = "NO_RACE"
    /\ answer = "NO_RACE"

Request ==
    /\ ~serving
    /\ serving' = TRUE
    /\ conflict' = FALSE
    /\ complete' = FALSE
    /\ tidy' = complete
    /\ answer' = "none"
    /\ UNCHANGED outcome

Meet ==
    /\ serving /\ ~complete
    /\ conflict' = TRUE
    /\ UNCHANGED <<serving, complete, tidy, outcome, answer>>

Complete ==
    /\ serving /\ ~complete
    /\ complete' = TRUE
    /\ \/ outcome' = IF conflict THEN "TRUE_RACE" ELSE "NO_RACE"
       \/ ~tidy /\ outcome' = "RACE_RETRY"
    /\ UNCHANGED <<serving, conflict, tidy, answer>>

Reply ==
    /\ serving
    /\ serving' = FALSE
    /\ answer' = outcome
    /\ UNCHANGED <<conflict, complete, tidy, outcome>>

OracleNext == Request \/ Meet \/ Complete \/ Reply

OracleSpec == OracleInit /\ [][OracleNext]_oracleVars
=============================================================================
