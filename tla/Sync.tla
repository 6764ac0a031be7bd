-------------------------------- MODULE Sync --------------------------------
(***************************************************************************)
(* How syz-manager and the schedulers in their virtual machines keep their *)
(* copies of the shared knowledge together: the suppressed memory pairs,   *)
(* the true races, the race inputs, the likely inputs and the queue of     *)
(* candidates to be tried.  The fuzzers only appear as the source of       *)
(* candidates; the code that keeps their suppressed pairs is the same.     *)
(*                                                                         *)
(* The handlers of the manager hold mgr.mu, so that each is one action;    *)
(* SchedulerConnect drops it while calculatePrios runs and is two.         *)
(* A scheduler has one poll or connect call under way, in msg.  The calls  *)
(* its processes make (NewRaceInput, NewLikelyRaceInput) are one action    *)
(* with the local update that follows them: only processes of the same     *)
(* scheduler see that update.  A failed call ends the scheduler (panic),   *)
(* as the end of its machine does; the manager then starts it anew.        *)
(*                                                                         *)
(* A race input and a likely input are represented by their memory pair.   *)
(* Signals, which decide only whether an input is taken, are left out: an  *)
(* input may be refused at any time.  Minimising the race corpus keeps an  *)
(* input of each pair (the signal of an input is xored with its pair).     *)
(***************************************************************************)
EXTENDS Integers, Sequences, FiniteSets

CONSTANTS
    Scheduler,
    Pair,          \* memory pairs (MempairHash)
    DBCands,       \* candidates loaded from the race and likely databases
    FlagRootCause, \* *flagRootCause
    PollMax,       \* inputs in one reply (100)
    QueueThold,    \* maxRaceQueueThold
    NumToPop,      \* candidates in one reply (10, or cfg.Procs)
    SoftLimit,     \* LIMIT_RACE_QUEUE_LEN
    HardLimit,     \* LIMIT_RACE_QUEUE_LEN*10
    MaxEvents      \* bound on candidates of fuzzers plus changes of
                   \* suppressedPairs plus crashes

ASSUME SyncAssumption ==
    /\ IsFiniteSet(Scheduler) /\ IsFiniteSet(Pair)
    /\ FlagRootCause \in BOOLEAN
    /\ DBCands \in Nat /\ PollMax \in Nat \ {0} /\ QueueThold \in Nat \ {0}
    /\ NumToPop \in Nat \ {0} /\ SoftLimit \in Nat /\ HardLimit \in Nat
    /\ MaxEvents \in Nat

VARIABLES
    \* syz-manager
    suppressedPairs, trueRaceHashes, raceCorpus, likelyRaceCorpus,
    raceQueue, raceCorpusDBDone,
    \* its struct Scheduler for each of them
    connected, suppPairsToAdd, suppPairsToDel, raceInputs, likelyRaceInputs,
    newTrueRaces,
    \* the fields of each syz-scheduler
    up, suppressed, trueRaces, foundRaceToUpdate, corpus, likelyCorpus,
    work, dbDone,
    msg,        \* the connect or poll call under way
    \* bounds
    cands, events

mgrVars == <<suppressedPairs, trueRaceHashes, raceCorpus, likelyRaceCorpus,
             raceQueue, raceCorpusDBDone>>
connVars == <<connected, suppPairsToAdd, suppPairsToDel, raceInputs,
              likelyRaceInputs, newTrueRaces>>
clientVars == <<up, suppressed, trueRaces, foundRaceToUpdate, corpus,
                likelyCorpus, work, dbDone>>
bounds == <<cands, events>>
vars == <<mgrVars, connVars, clientVars, msg, bounds>>

MaxCand == DBCands + MaxEvents

\* A RaceProgCand with one RaceInfo; the first DBCands come from the databases.
Cand == [n : 1..MaxCand, pair : Pair]
FromDB(c) == c.n <= DBCands

NoMsg == [kind |-> "none"]
Connecting == [kind : {"connecting"}, cands : SUBSET Cand]
PollArgs == [kind : {"request"}, found : SUBSET Pair, qlen : 0..MaxCand]
PollRes == [kind : {"reply"}, add : SUBSET Pair, del : SUBSET Pair,
            inputs : SUBSET Pair, likely : SUBSET Pair, trues : SUBSET Pair,
            cands : SUBSET Cand, done : BOOLEAN]

\* The fields have their types; what the proofs and the runs rely on.
SyncTypeOK ==
    /\ suppressedPairs \in SUBSET Pair /\ trueRaceHashes \in SUBSET Pair
    /\ raceCorpus \in SUBSET Pair /\ likelyRaceCorpus \in SUBSET Pair
    /\ raceQueue \in Seq(Cand) /\ raceCorpusDBDone \in BOOLEAN
    /\ connected \in SUBSET Scheduler
    /\ suppPairsToAdd \in [Scheduler -> SUBSET Pair]
    /\ suppPairsToDel \in [Scheduler -> SUBSET Pair]
    /\ raceInputs \in [Scheduler -> SUBSET Pair]
    /\ likelyRaceInputs \in [Scheduler -> SUBSET Pair]
    /\ newTrueRaces \in [Scheduler -> SUBSET Pair]
    /\ up \in SUBSET Scheduler
    /\ suppressed \in [Scheduler -> SUBSET Pair]
    /\ trueRaces \in [Scheduler -> SUBSET Pair]
    /\ foundRaceToUpdate \in [Scheduler -> SUBSET Pair]
    /\ corpus \in [Scheduler -> SUBSET Pair]
    /\ likelyCorpus \in [Scheduler -> SUBSET Pair]
    /\ work \in [Scheduler -> SUBSET Cand]
    /\ dbDone \in [Scheduler -> BOOLEAN]
    /\ msg \in [Scheduler -> {NoMsg} \cup Connecting \cup PollArgs \cup PollRes]
    /\ cands \in 0..MaxCand /\ events \in 0..MaxEvents

SyncInit ==
    /\ suppressedPairs = {} /\ trueRaceHashes = {}
    /\ raceCorpus = {} /\ likelyRaceCorpus = {}
    /\ \E p \in [1..DBCands -> Pair] :
          raceQueue = [n \in 1..DBCands |-> [n |-> n, pair |-> p[n]]]
    /\ raceCorpusDBDone = (DBCands = 0)
    /\ connected = {}
    /\ suppPairsToAdd = [c \in Scheduler |-> {}]
    /\ suppPairsToDel = [c \in Scheduler |-> {}]
    /\ raceInputs = [s \in Scheduler |-> {}]
    /\ likelyRaceInputs = [s \in Scheduler |-> {}]
    /\ newTrueRaces = [s \in Scheduler |-> {}]
    /\ up = {}
    /\ suppressed = [c \in Scheduler |-> {}]
    /\ trueRaces = [s \in Scheduler |-> {}]
    /\ foundRaceToUpdate = [s \in Scheduler |-> {}]
    /\ corpus = [s \in Scheduler |-> {}]
    /\ likelyCorpus = [s \in Scheduler |-> {}]
    /\ work = [s \in Scheduler |-> {}]
    /\ dbDone = [s \in Scheduler |-> FALSE]
    /\ msg = [s \in Scheduler |-> NoMsg]
    /\ cands = DBCands /\ events = 0
----------------------------------------------------------------------------
(* The candidate queue of the manager. *)

\* The subsets a loop "for i < n && len > 0" may take from a queue.
UpTo(S, n) ==
    {T \in SUBSET S : Cardinality(T) = (IF Cardinality(S) < n THEN Cardinality(S) ELSE n)}

\* PopFromRaceQueue(n) takes k = PopCount(n) candidates from position idx.
\* Turns alternate between the head, the tail and a random position, but
\* only the head is used as long as candidates of the databases are left.
PopCount(n) == IF n >= Len(raceQueue) THEN Len(raceQueue) ELSE n
PopIndex(k) ==
    IF k > 0 /\ (FlagRootCause \/ raceCorpusDBDone)
    THEN 0..(Len(raceQueue) - k) ELSE {0}
popedCandidates(idx, k) == {raceQueue[i] : i \in (idx + 1)..(idx + k)}
\* Variant: what is popped stays in the queue.
restOfQueue_keeps(idx, k) == raceQueue

restOfQueue(idx, k) ==
    SubSeq(raceQueue, 1, idx) \o SubSeq(raceQueue, idx + k + 1, Len(raceQueue))
\* Variant: the head of the rest is not looked at.
sentAllFromDB_early(idx, k) == k > 0 /\ ~raceCorpusDBDone

sentAllFromDB(idx, k) ==
    /\ k > 0 /\ ~raceCorpusDBDone
    /\ \/ restOfQueue(idx, k) = <<>>
       \/ ~FromDB(Head(restOfQueue(idx, k)))

PopFromRaceQueue(idx, k) ==
    /\ raceQueue' = restOfQueue(idx, k)
    /\ raceCorpusDBDone' = (raceCorpusDBDone \/ sentAllFromDB(idx, k))

\* minimizeRaceCorpus drops likely inputs of true races.
minimizeLikely(likely, trues) == likely \ trues

hardCleanup(q) == SubSeq(q, (Len(q) \div 2) + 1, Len(q))
\* The positions of the candidates that are not suppressed, in their order.
unsuppressed(supp) ==
    LET kept == {i \in DOMAIN raceQueue : raceQueue[i].pair \notin supp}
        len == Cardinality(kept)
    IN  {pos \in [1..len -> kept] : \A i, j \in 1..len : i < j => pos[i] < pos[j]}
cleanupRaceQueue(supp) ==
    IF Len(raceQueue) <= SoftLimit THEN UNCHANGED raceQueue
    ELSE \E pos \in unsuppressed(supp) :
            LET soft == [i \in DOMAIN pos |-> raceQueue[pos[i]]]
            IN  raceQueue' = IF Len(soft) <= HardLimit THEN soft ELSE hardCleanup(soft)

\* The periodic updateSuppPairs and the cleanup that follows it.  Counts and
\* random draws decide which pairs are suppressed: any set.
updateSuppPairs(new) ==
    LET dropped == suppressedPairs \ new
        added == new \ suppressedPairs
    IN  /\ events < MaxEvents \/ new = suppressedPairs
        /\ suppressedPairs' = new
        /\ suppPairsToDel' = [c \in Scheduler |->
              IF c \in connected THEN suppPairsToDel[c] \cup dropped
              ELSE suppPairsToDel[c]]
        /\ suppPairsToAdd' = [c \in Scheduler |->
              IF c \in connected THEN suppPairsToAdd[c] \cup added
              ELSE suppPairsToAdd[c]]
        /\ cleanupRaceQueue(new)
        /\ events' = IF new = suppressedPairs THEN events ELSE events + 1
        /\ UNCHANGED <<trueRaceHashes, raceCorpus, likelyRaceCorpus,
                       raceCorpusDBDone, connected, raceInputs,
                       likelyRaceInputs, newTrueRaces, clientVars, msg,
                       cands>>

----------------------------------------------------------------------------
(* Connecting. *)

\* A new, empty struct replaces the one of an earlier run.
register(c) ==
    /\ connected' = connected \cup {c}
    /\ suppPairsToAdd' = [suppPairsToAdd EXCEPT ![c] = {}]
    /\ suppPairsToDel' = [suppPairsToDel EXCEPT ![c] = {}]

\* SchedulerConnect until calculatePrios unlocks mgr.mu.
SchedulerConnect(s) ==
    /\ s \notin up /\ msg[s] = NoMsg
    /\ register(s)
    /\ raceInputs' = [raceInputs EXCEPT ![s] = {}]
    /\ likelyRaceInputs' = [likelyRaceInputs EXCEPT ![s] = {}]
    /\ newTrueRaces' = [newTrueRaces EXCEPT ![s] = {}]
    /\ likelyRaceCorpus' = minimizeLikely(likelyRaceCorpus, trueRaceHashes)
    /\ LET k == PopCount(1) IN
       \E idx \in PopIndex(k) :
          /\ PopFromRaceQueue(idx, k)
          /\ msg' = [msg EXCEPT ![s] = [kind |-> "connecting",
                                        cands |-> popedCandidates(idx, k)]]
    /\ UNCHANGED <<suppressedPairs, trueRaceHashes, raceCorpus, clientVars, bounds>>

\* Variant: likely inputs that do not fit in the reply are not queued.
schedulerInit_rest_lost(s) ==
    /\ msg[s].kind = "connecting"
    /\ \E sent \in UpTo(likelyRaceCorpus, PollMax - 1) :
          likelyCorpus' = [likelyCorpus EXCEPT ![s] = sent]
    /\ up' = up \cup {s}
    /\ trueRaces' = [trueRaces EXCEPT ![s] = trueRaceHashes]
    /\ corpus' = [corpus EXCEPT ![s] = raceCorpus]
    /\ work' = [work EXCEPT ![s] = msg[s].cands]
    /\ suppressed' = [suppressed EXCEPT ![s] = {}]
    /\ msg' = [msg EXCEPT ![s] = NoMsg]
    /\ UNCHANGED <<mgrVars, connVars, foundRaceToUpdate, dbDone, bounds>>

\* The rest of it and schedulerInit, which takes over the reply: nothing in
\* the scheduler runs before.  The reply is read under the lock; likely inputs
\* that do not fit in it (cnt++; cnt < 100) wait for the polls.  The reply's
\* SuppressedPairs are not used.
schedulerInit(s) ==
    /\ msg[s].kind = "connecting"
    /\ \E sent \in UpTo(likelyRaceCorpus, PollMax - 1) :
          /\ likelyRaceInputs' = [likelyRaceInputs EXCEPT
                                    ![s] = @ \cup (likelyRaceCorpus \ sent)]
          /\ likelyCorpus' = [likelyCorpus EXCEPT ![s] = sent]
    /\ up' = up \cup {s}
    /\ trueRaces' = [trueRaces EXCEPT ![s] = trueRaceHashes]
    /\ corpus' = [corpus EXCEPT ![s] = raceCorpus]
    /\ work' = [work EXCEPT ![s] = msg[s].cands]
    /\ suppressed' = [suppressed EXCEPT ![s] = {}]
    /\ msg' = [msg EXCEPT ![s] = NoMsg]
    /\ UNCHANGED <<mgrVars, connected, suppPairsToAdd, suppPairsToDel,
                   raceInputs, newTrueRaces, foundRaceToUpdate, dbDone, bounds>>

----------------------------------------------------------------------------
(* Polling. *)

\* Variant: the length sent excludes the candidate that is executed.
initPoll_length(s) ==
    /\ s \in up /\ msg[s] = NoMsg
    /\ msg' = [msg EXCEPT ![s] =
          [kind |-> "request", found |-> foundRaceToUpdate[s],
           qlen |-> Cardinality(work[s]) - 1]]
    /\ foundRaceToUpdate' = [foundRaceToUpdate EXCEPT ![s] = {}]
    /\ UNCHANGED <<mgrVars, connVars, up, suppressed, trueRaces, corpus,
                   likelyCorpus, work, dbDone, bounds>>

initPoll(s) ==
    /\ s \in up /\ msg[s] = NoMsg
    /\ msg' = [msg EXCEPT ![s] =
          [kind |-> "request", found |-> foundRaceToUpdate[s],
           qlen |-> Cardinality(work[s])]]
    /\ foundRaceToUpdate' = [foundRaceToUpdate EXCEPT ![s] = {}]
    /\ UNCHANGED <<mgrVars, connVars, up, suppressed, trueRaces, corpus,
                   likelyCorpus, work, dbDone, bounds>>

\* The list of new races to broadcast is built by append without an element.
newFoundRaceHashes(found) == {}

SchedulerPoll(s) ==
    /\ msg[s].kind = "request"
    /\ LET k == IF msg[s].qlen < QueueThold THEN PopCount(NumToPop) ELSE 0
       IN
       \E idx \in PopIndex(k),
          inputs \in UpTo(raceInputs[s], PollMax),
          likely \in UpTo(likelyRaceInputs[s], PollMax) :
          /\ trueRaceHashes' = trueRaceHashes \cup msg[s].found
          /\ PopFromRaceQueue(idx, k)
          /\ likelyRaceCorpus' =
                minimizeLikely(likelyRaceCorpus,
                    IF sentAllFromDB(idx, k) THEN trueRaceHashes'
                    ELSE msg[s].found \ trueRaceHashes)
          /\ newTrueRaces' = [t \in Scheduler |->
                IF t = s THEN {}
                ELSE IF t \in connected
                     THEN newTrueRaces[t] \cup newFoundRaceHashes(msg[s].found)
                     ELSE newTrueRaces[t]]
          /\ raceInputs' = [raceInputs EXCEPT ![s] = @ \ inputs]
          /\ likelyRaceInputs' = [likelyRaceInputs EXCEPT ![s] = @ \ likely]
          /\ suppPairsToAdd' = [suppPairsToAdd EXCEPT ![s] = {}]
          /\ suppPairsToDel' = [suppPairsToDel EXCEPT ![s] = {}]
          /\ msg' = [msg EXCEPT ![s] =
                [kind |-> "reply", add |-> suppPairsToAdd[s],
                 del |-> suppPairsToDel[s], inputs |-> inputs,
                 likely |-> likely, trues |-> newTrueRaces[s],
                 cands |-> popedCandidates(idx, k),
                 done |-> raceCorpusDBDone']]
    /\ UNCHANGED <<suppressedPairs, raceCorpus, connected, clientVars, bounds>>

\* Variant: deletions first.
updateSuppressedPairs_swapped(old, addList, delList) == (old \ delList) \cup addList

\* The two lists carry no order: what was added is dropped again if it is
\* in both.
updateSuppressedPairs(old, addList, delList) == (old \cup addList) \ delList

finishPoll(s) ==
    /\ msg[s].kind = "reply"
    /\ suppressed' = [suppressed EXCEPT
          ![s] = updateSuppressedPairs(@, msg[s].add, msg[s].del)]
    /\ corpus' = [corpus EXCEPT ![s] = @ \cup msg[s].inputs]
    /\ likelyCorpus' = [likelyCorpus EXCEPT ![s] = @ \cup msg[s].likely]
    /\ work' = [work EXCEPT ![s] = @ \cup msg[s].cands]
    /\ trueRaces' = [trueRaces EXCEPT ![s] = @ \cup msg[s].trues]
    /\ dbDone' = [dbDone EXCEPT ![s] = msg[s].done]
    /\ msg' = [msg EXCEPT ![s] = NoMsg]
    /\ UNCHANGED <<mgrVars, connVars, up, foundRaceToUpdate, bounds>>

\* FuzzerPoll of a fuzzer that found candidates for the pairs ps, at most one
\* here.  addRaceProgCand leaves out suppressed pairs only once the databases'
\* candidates are sent.
FuzzerPoll(ps) ==
    LET push == IF raceCorpusDBDone THEN ps \ suppressedPairs ELSE ps
    IN  /\ events + Cardinality(push) <= MaxEvents
        /\ events' = events + Cardinality(push)
        /\ cands' = cands + Cardinality(push)
        /\ raceQueue' = raceQueue \o
              [i \in 1..Cardinality(push) |->
                  [n |-> cands + i, pair |-> CHOOSE p \in push : TRUE]]
        /\ UNCHANGED <<suppressedPairs, trueRaceHashes, raceCorpus,
                       likelyRaceCorpus, raceCorpusDBDone, connVars,
                       clientVars, msg>>

----------------------------------------------------------------------------
(* The processes of a scheduler. *)

\* Variant: the test for a new race is inverted.
updateTrueRaceInfo_inverted(s, p) ==
    /\ trueRaces' = [trueRaces EXCEPT ![s] = @ \cup {p}]
    /\ foundRaceToUpdate' = [foundRaceToUpdate EXCEPT
          ![s] = IF p \in trueRaces[s] THEN @ \cup {p} ELSE @]

\* A race is reported once, by the poll after it was first seen.
updateTrueRaceInfo(s, p) ==
    /\ trueRaces' = [trueRaces EXCEPT ![s] = @ \cup {p}]
    /\ foundRaceToUpdate' = [foundRaceToUpdate EXCEPT
          ![s] = IF p \in trueRaces[s] THEN @ ELSE @ \cup {p}]

\* executeCandidate when the program raced ...
candidate_races(s, c) ==
    /\ s \in up /\ c \in work[s]
    /\ work' = [work EXCEPT ![s] = @ \ {c}]
    /\ updateTrueRaceInfo(s, c.pair)
    /\ UNCHANGED <<mgrVars, connVars, up, suppressed, corpus, likelyCorpus,
                   dbDone, msg, bounds>>

\* Variant: a pair known to race is taken.
NewLikelyRaceInput_unchecked(s, p) ==
    \/ UNCHANGED <<likelyRaceCorpus, likelyRaceInputs>>
       /\ p \in likelyRaceCorpus
    \/ /\ likelyRaceCorpus' = likelyRaceCorpus \cup {p}
       /\ likelyRaceInputs' = [t \in Scheduler |->
             IF t \in connected \ {s} THEN likelyRaceInputs[t] \cup {p}
             ELSE likelyRaceInputs[t]]

\* NewLikelyRaceInput at the manager; an input that is there is replaced, and
\* sent to the others, with probability 1/2.
NewLikelyRaceInput(s, p) ==
    \/ UNCHANGED <<likelyRaceCorpus, likelyRaceInputs>>
       /\ p \in trueRaceHashes \cup likelyRaceCorpus
    \/ /\ p \notin trueRaceHashes
       /\ likelyRaceCorpus' = likelyRaceCorpus \cup {p}
       /\ likelyRaceInputs' = [t \in Scheduler |->
             IF t \in connected \ {s} THEN likelyRaceInputs[t] \cup {p}
             ELSE likelyRaceInputs[t]]

\* ... and when it did not: sendLikelyRaceInputToManager.
candidate_no_race(s, c) ==
    /\ s \in up /\ c \in work[s]
    /\ work' = [work EXCEPT ![s] = @ \ {c}]
    /\ \/ /\ c.pair \in likelyCorpus[s]
          /\ UNCHANGED <<likelyRaceCorpus, likelyRaceInputs, likelyCorpus>>
       \/ /\ c.pair \notin likelyCorpus[s]
          /\ NewLikelyRaceInput(s, c.pair)
          /\ likelyCorpus' = [likelyCorpus EXCEPT ![s] = @ \cup {c.pair}]
    /\ UNCHANGED <<suppressedPairs, trueRaceHashes, raceCorpus, raceQueue,
                   raceCorpusDBDone, connected, suppPairsToAdd, suppPairsToDel,
                   raceInputs, newTrueRaces, up, suppressed, trueRaces,
                   foundRaceToUpdate, corpus, dbDone, msg, bounds>>

\* doCorpusLoop picks a likely input that is not suppressed, and it races.
likely_races(s, p) ==
    /\ s \in up /\ dbDone[s]
    /\ p \in likelyCorpus[s] \ suppressed[s]
    /\ updateTrueRaceInfo(s, p)
    /\ UNCHANGED <<mgrVars, connVars, up, suppressed, corpus, likelyCorpus,
                   work, dbDone, msg, bounds>>

\* triageInput confirmed an input of a race: NewRaceInput, which refuses an
\* input without new signal, then addRaceInputToRaceCorpus.
triageInput(s, p) ==
    /\ s \in up /\ p \in trueRaces[s]
    /\ \/ UNCHANGED <<raceCorpus, raceInputs>>
       \/ /\ raceCorpus' = raceCorpus \cup {p}
          /\ raceInputs' = [t \in Scheduler |->
                IF t \in connected \ {s} THEN raceInputs[t] \cup {p}
                ELSE raceInputs[t]]
    /\ corpus' = [corpus EXCEPT ![s] = @ \cup {p}]
    /\ UNCHANGED <<suppressedPairs, trueRaceHashes, likelyRaceCorpus, raceQueue,
                   raceCorpusDBDone, connected, suppPairsToAdd, suppPairsToDel,
                   likelyRaceInputs, newTrueRaces, up, suppressed, trueRaces,
                   foundRaceToUpdate, likelyCorpus, work, dbDone, msg, bounds>>

\* A scheduler or its machine ends: all it knew is lost, and so is the call
\* under way.
scheduler_crash(s) ==
    /\ s \in up \/ msg[s] # NoMsg
    /\ events < MaxEvents
    /\ events' = events + 1
    /\ up' = up \ {s}
    /\ msg' = [msg EXCEPT ![s] = NoMsg]
    /\ suppressed' = [suppressed EXCEPT ![s] = {}]
    /\ trueRaces' = [trueRaces EXCEPT ![s] = {}]
    /\ foundRaceToUpdate' = [foundRaceToUpdate EXCEPT ![s] = {}]
    /\ corpus' = [corpus EXCEPT ![s] = {}]
    /\ likelyCorpus' = [likelyCorpus EXCEPT ![s] = {}]
    /\ work' = [work EXCEPT ![s] = {}]
    /\ dbDone' = [dbDone EXCEPT ![s] = FALSE]
    /\ UNCHANGED <<mgrVars, connVars, cands>>

connectStep(s) == SchedulerConnect(s) \/ schedulerInit(s)
pollStep(s) == initPoll(s) \/ SchedulerPoll(s) \/ finishPoll(s)
executeCandidate(s) == \E c \in work[s] : candidate_races(s, c) \/ candidate_no_race(s, c)

SyncNext ==
    \/ \E new \in SUBSET Pair : updateSuppPairs(new)
    \/ \E s \in Scheduler :
          \/ connectStep(s) \/ pollStep(s) \/ executeCandidate(s)
          \/ scheduler_crash(s)
          \/ \E p \in Pair : likely_races(s, p) \/ triageInput(s, p)
    \/ \E p \in Pair : FuzzerPoll({p})

SyncSpec == SyncInit /\ [][SyncNext]_vars

----------------------------------------------------------------------------
(* Properties. *)

inReply(s, kinds) == msg[s].kind \in kinds

\* A scheduler never suppresses a pair for longer than the manager: once the
\* manager dropped it, its removal is queued for it or under way.
\* (The other direction fails: the two lists have no order.)
NeverOverSuppressed ==
    \A c \in Scheduler :
       suppressed[c] \ suppressedPairs
         \subseteq suppPairsToDel[c] \cup
             (IF inReply(c, {"reply"}) THEN msg[c].del ELSE {})

\* A candidate is tried by one scheduler only: it is once in the queue, or in
\* one reply, or in one work queue.
CandidateHeldOnce ==
    LET queued(n) == {i \in DOMAIN raceQueue : raceQueue[i].n = n}
        sent(n) == {s \in Scheduler :
                      /\ inReply(s, {"connecting", "reply"})
                      /\ \E c \in msg[s].cands : c.n = n}
        held(n) == {s \in Scheduler : \E c \in work[s] : c.n = n}
    IN \A n \in 1..MaxCand :
          Cardinality(queued(n)) + Cardinality(sent(n)) + Cardinality(held(n)) <= 1

\* "Sent all raceprog cands from raceCorpusDB": no candidate of the databases
\* is left in the queue then, in whatever order candidates are popped; and no
\* scheduler is ahead of the manager, so that the assertion of finishPoll,
\* that the flag never goes back, holds for every reply under way.
DBCandidatesFirst ==
    /\ raceCorpusDBDone => \A i \in DOMAIN raceQueue : ~FromDB(raceQueue[i])
    /\ \A s \in Scheduler : dbDone[s] =>
          raceCorpusDBDone /\ (msg[s].kind = "reply" => msg[s].done)

\* No input is lost between the manager and a running scheduler: what the
\* manager holds is at the scheduler, queued for it, or in a reply, although
\* mgr.mu is dropped between its registration and the snapshot of its reply.
InputsNotLost ==
    \A s \in Scheduler \cap up :
       /\ raceCorpus \subseteq corpus[s] \cup raceInputs[s] \cup
             (IF inReply(s, {"reply"}) THEN msg[s].inputs ELSE {})
       /\ likelyRaceCorpus \subseteq likelyCorpus[s] \cup likelyRaceInputs[s] \cup
             (IF inReply(s, {"reply"}) THEN msg[s].likely ELSE {})

\* A race a scheduler knows, and hence never reports again, is known to the
\* manager or still to be reported.
KnownRacesReported ==
    \A s \in Scheduler :
       trueRaces[s] \subseteq trueRaceHashes \cup foundRaceToUpdate[s] \cup
          (IF inReply(s, {"request"}) THEN msg[s].found ELSE {})

\* The manager keeps no likely input of a pair known to race in
\* likelyRaceCorpus, whichever of the two reports comes first: no scheduler
\* that connects later is given one.  (Copies queued for the schedulers in
\* likelyRaceInputs before the race was found are still handed out.)
LikelyNotTrue == likelyRaceCorpus \cap trueRaceHashes = {}

\* Schedulers run: they poll every 10 s, their processes take up candidates,
\* a call is answered or the scheduler ends, and the manager starts its machine
\* again.
SyncFairSpec ==
    /\ SyncSpec
    /\ \A s \in Scheduler :
          WF_vars(connectStep(s)) /\ WF_vars(pollStep(s)) /\ WF_vars(executeCandidate(s))

\* scheduler.go: "while scheduler.trueRaceHashes are already updated,
\* raceCorpus may get updated late".  A scheduler with inputs of a race comes
\* to know that it is one.
RaceHashArrives ==
    \A s \in Scheduler, p \in Pair :
       p \in corpus[s] ~> p \in trueRaces[s] \/ s \notin up
=============================================================================
