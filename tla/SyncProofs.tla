----------------------------- MODULE SyncProofs -----------------------------
(***************************************************************************)
(* Proofs for module Sync: for any number of schedulers and memory pairs   *)
(* and any limits, what the manager and a scheduler know of each other is  *)
(* never lost between them (SyncInv), and a candidate is in one place,     *)
(* those of the databases first (QueueInv).                                *)
(***************************************************************************)
EXTENDS Sync, FiniteSetTheorems, SequenceTheorems, TLAPS

ofReply(s, S) == IF inReply(s, {"reply"}) THEN S ELSE {}

\* Every per-scheduler field is a function on Scheduler.
PerScheduler ==
    /\ DOMAIN suppPairsToAdd = Scheduler /\ DOMAIN suppPairsToDel = Scheduler
    /\ DOMAIN raceInputs = Scheduler /\ DOMAIN likelyRaceInputs = Scheduler
    /\ DOMAIN newTrueRaces = Scheduler /\ DOMAIN suppressed = Scheduler
    /\ DOMAIN trueRaces = Scheduler /\ DOMAIN foundRaceToUpdate = Scheduler
    /\ DOMAIN corpus = Scheduler /\ DOMAIN likelyCorpus = Scheduler
    /\ DOMAIN work = Scheduler /\ DOMAIN dbDone = Scheduler
    /\ DOMAIN msg = Scheduler

\* A scheduler that runs is registered; one that does not run has at most a
\* connect call under way, and suppresses nothing; for one that is not
\* registered nothing is queued.
Registered ==
    \A s \in Scheduler :
       /\ s \in up => s \in connected /\ msg[s].kind # "connecting"
       /\ msg[s] # NoMsg => s \in connected
       /\ s \notin connected => suppPairsToAdd[s] = {}
       /\ s \notin up => /\ suppressed[s] = {}
                         /\ msg[s].kind \in {"none", "connecting"}

\* A pair the manager has dropped is to be dropped by every scheduler that
\* suppresses it or has yet to learn of it.
DropsFollowAdds ==
    \A s \in Scheduler :
       /\ suppressed[s] \subseteq
             suppressedPairs \cup suppPairsToDel[s] \cup ofReply(s, msg[s].del)
       /\ suppPairsToAdd[s] \subseteq suppressedPairs \cup suppPairsToDel[s]
       /\ ofReply(s, msg[s].add) \subseteq
             suppressedPairs \cup suppPairsToDel[s] \cup ofReply(s, msg[s].del)

\* Only races the manager knows are announced.
AnnouncedAreKnown ==
    \A s \in Scheduler :
       /\ newTrueRaces[s] \subseteq trueRaceHashes
       /\ ofReply(s, msg[s].trues) \subseteq trueRaceHashes

SyncInv ==
    /\ PerScheduler /\ Registered /\ DropsFollowAdds /\ AnnouncedAreKnown
    /\ KnownRacesReported /\ InputsNotLost /\ LikelyNotTrue

----------------------------------------------------------------------------
\* The manager starts with an empty memory and no schedulers.
LEMMA SyncInitInv == ASSUME SyncInit PROVE SyncInv
<1>1. PerScheduler
  BY DEF SyncInit, PerScheduler
<1>2. \A s \in Scheduler : msg[s] = NoMsg /\ msg[s].kind = "none"
  BY DEF SyncInit, NoMsg
<1>3. Registered /\ DropsFollowAdds /\ AnnouncedAreKnown
  BY <1>2 DEF SyncInit, Registered, DropsFollowAdds, AnnouncedAreKnown, ofReply,
              inReply
<1>4. KnownRacesReported /\ InputsNotLost /\ LikelyNotTrue
  BY <1>2 DEF SyncInit, KnownRacesReported, InputsNotLost, LikelyNotTrue, inReply
<1> QED BY <1>1, <1>3, <1>4 DEF SyncInv

\* Every step keeps the domains.
LEMMA PerSchedulerStep ==
    ASSUME SyncInv, SyncNext
    PROVE  PerScheduler'
<1>1. ASSUME NEW new \in SUBSET Pair, updateSuppPairs(new) PROVE PerScheduler'
  BY <1>1 DEF SyncInv, PerScheduler, updateSuppPairs, mgrVars, connVars,
     clientVars
<1>2. ASSUME NEW s \in Scheduler, SchedulerConnect(s) PROVE PerScheduler'
  BY <1>2 DEF SyncInv, PerScheduler, SchedulerConnect, register,
     PopFromRaceQueue, minimizeLikely, mgrVars, connVars, clientVars
<1>3. ASSUME NEW s \in Scheduler, schedulerInit(s) PROVE PerScheduler'
  BY <1>3 DEF SyncInv, PerScheduler, schedulerInit, UpTo, mgrVars, connVars,
     clientVars
<1>4. ASSUME NEW s \in Scheduler, initPoll(s) PROVE PerScheduler'
  BY <1>4 DEF SyncInv, PerScheduler, initPoll, mgrVars, connVars, clientVars
<1>5. ASSUME NEW s \in Scheduler, SchedulerPoll(s) PROVE PerScheduler'
  BY <1>5 DEF SyncInv, PerScheduler, SchedulerPoll, UpTo, PopFromRaceQueue,
     minimizeLikely, newFoundRaceHashes, mgrVars, connVars, clientVars
<1>6. ASSUME NEW s \in Scheduler, finishPoll(s) PROVE PerScheduler'
  BY <1>6 DEF SyncInv, PerScheduler, finishPoll, updateSuppressedPairs,
     mgrVars, connVars, clientVars
<1>7. ASSUME NEW s \in Scheduler, NEW c, candidate_races(s, c)
      PROVE  PerScheduler'
  BY <1>7 DEF SyncInv, PerScheduler, candidate_races, updateTrueRaceInfo,
     mgrVars, connVars, clientVars
<1>8. ASSUME NEW s \in Scheduler, NEW c, candidate_no_race(s, c)
      PROVE  PerScheduler'
  BY <1>8 DEF SyncInv, PerScheduler, candidate_no_race, NewLikelyRaceInput,
     mgrVars, connVars, clientVars
<1>9. ASSUME NEW s \in Scheduler, NEW p, likely_races(s, p)
      PROVE  PerScheduler'
  BY <1>9 DEF SyncInv, PerScheduler, likely_races, updateTrueRaceInfo,
     mgrVars, connVars, clientVars
<1>10. ASSUME NEW s \in Scheduler, NEW p, triageInput(s, p)
       PROVE  PerScheduler'
  BY <1>10 DEF SyncInv, PerScheduler, triageInput, mgrVars, connVars,
     clientVars
<1>11. ASSUME NEW s \in Scheduler, scheduler_crash(s) PROVE PerScheduler'
  BY <1>11 DEF SyncInv, PerScheduler, scheduler_crash, mgrVars, connVars,
     clientVars
<1>12. ASSUME NEW p, FuzzerPoll({p}) PROVE PerScheduler'
  BY <1>12 DEF SyncInv, PerScheduler, FuzzerPoll, mgrVars, connVars,
     clientVars
<1> QED BY <1>1, <1>2, <1>3, <1>4, <1>5, <1>6, <1>7, <1>8, <1>9, <1>10, <1>11,
        <1>12 DEF SyncNext, connectStep, pollStep, executeCandidate

\* A crash leaves the registration, a connect call renews it.
LEMMA RegisteredStep ==
    ASSUME SyncInv, SyncNext
    PROVE  Registered'
<1>1. ASSUME NEW new \in SUBSET Pair, updateSuppPairs(new) PROVE Registered'
  BY <1>1 DEF SyncInv, PerScheduler, Registered, NoMsg, updateSuppPairs,
     mgrVars, connVars, clientVars
<1>2. ASSUME NEW s \in Scheduler, SchedulerConnect(s) PROVE Registered'
  BY <1>2 DEF SyncInv, PerScheduler, Registered, NoMsg, SchedulerConnect,
     register, PopFromRaceQueue, minimizeLikely, mgrVars, connVars, clientVars
<1>3. ASSUME NEW s \in Scheduler, schedulerInit(s) PROVE Registered'
  BY <1>3 DEF SyncInv, PerScheduler, Registered, NoMsg, schedulerInit, UpTo,
     mgrVars, connVars, clientVars
<1>4. ASSUME NEW s \in Scheduler, initPoll(s) PROVE Registered'
  BY <1>4 DEF SyncInv, PerScheduler, Registered, NoMsg, initPoll, mgrVars,
     connVars, clientVars
<1>5. ASSUME NEW s \in Scheduler, SchedulerPoll(s) PROVE Registered'
  BY <1>5 DEF SyncInv, PerScheduler, Registered, NoMsg, SchedulerPoll, UpTo,
     PopFromRaceQueue, minimizeLikely, newFoundRaceHashes, mgrVars, connVars,
     clientVars
<1>6. ASSUME NEW s \in Scheduler, finishPoll(s) PROVE Registered'
  BY <1>6 DEF SyncInv, PerScheduler, Registered, NoMsg, finishPoll,
     updateSuppressedPairs, mgrVars, connVars, clientVars
<1>7. ASSUME NEW s \in Scheduler, NEW c, candidate_races(s, c)
      PROVE  Registered'
  BY <1>7 DEF SyncInv, PerScheduler, Registered, NoMsg, candidate_races,
     updateTrueRaceInfo, mgrVars, connVars, clientVars
<1>8. ASSUME NEW s \in Scheduler, NEW c, candidate_no_race(s, c)
      PROVE  Registered'
  BY <1>8 DEF SyncInv, PerScheduler, Registered, NoMsg, candidate_no_race,
     NewLikelyRaceInput, mgrVars, connVars, clientVars
<1>9. ASSUME NEW s \in Scheduler, NEW p, likely_races(s, p) PROVE Registered'
  BY <1>9 DEF SyncInv, PerScheduler, Registered, NoMsg, likely_races,
     updateTrueRaceInfo, mgrVars, connVars, clientVars
<1>10. ASSUME NEW s \in Scheduler, NEW p, triageInput(s, p) PROVE Registered'
  BY <1>10 DEF SyncInv, PerScheduler, Registered, NoMsg, triageInput, mgrVars,
     connVars, clientVars
<1>11. ASSUME NEW s \in Scheduler, scheduler_crash(s) PROVE Registered'
  BY <1>11 DEF SyncInv, PerScheduler, Registered, NoMsg, scheduler_crash,
     mgrVars, connVars, clientVars
<1>12. ASSUME NEW p, FuzzerPoll({p}) PROVE Registered'
  BY <1>12 DEF SyncInv, PerScheduler, Registered, NoMsg, FuzzerPoll, mgrVars,
     connVars, clientVars
<1> QED BY <1>1, <1>2, <1>3, <1>4, <1>5, <1>6, <1>7, <1>8, <1>9, <1>10, <1>11,
        <1>12 DEF SyncNext, connectStep, pollStep, executeCandidate

\* Additions and removals travel together, or the removal later.
LEMMA DropsFollowAddsStep ==
    ASSUME SyncInv, SyncNext
    PROVE  DropsFollowAdds'
<1>1. ASSUME NEW new \in SUBSET Pair, updateSuppPairs(new)
      PROVE  DropsFollowAdds'
  BY <1>1 DEF SyncInv, PerScheduler, DropsFollowAdds, Registered, ofReply,
     inReply, NoMsg, updateSuppPairs, mgrVars, connVars, clientVars
<1>2. ASSUME NEW s \in Scheduler, SchedulerConnect(s) PROVE DropsFollowAdds'
  BY <1>2 DEF SyncInv, PerScheduler, DropsFollowAdds, Registered, ofReply,
     inReply, NoMsg, SchedulerConnect, register, PopFromRaceQueue,
     minimizeLikely, mgrVars, connVars, clientVars
<1>3. ASSUME NEW s \in Scheduler, schedulerInit(s) PROVE DropsFollowAdds'
  BY <1>3 DEF SyncInv, PerScheduler, DropsFollowAdds, Registered, ofReply,
     inReply, NoMsg, schedulerInit, UpTo, mgrVars, connVars, clientVars
<1>4. ASSUME NEW s \in Scheduler, initPoll(s) PROVE DropsFollowAdds'
  BY <1>4 DEF SyncInv, PerScheduler, DropsFollowAdds, Registered, ofReply,
     inReply, NoMsg, initPoll, mgrVars, connVars, clientVars
<1>5. ASSUME NEW s \in Scheduler, SchedulerPoll(s) PROVE DropsFollowAdds'
  BY <1>5 DEF SyncInv, PerScheduler, DropsFollowAdds, Registered, ofReply,
     inReply, NoMsg, SchedulerPoll, UpTo, PopFromRaceQueue, minimizeLikely,
     newFoundRaceHashes, mgrVars, connVars, clientVars
<1>6. ASSUME NEW s \in Scheduler, finishPoll(s) PROVE DropsFollowAdds'
  BY <1>6 DEF SyncInv, PerScheduler, DropsFollowAdds, Registered, ofReply,
     inReply, NoMsg, finishPoll, updateSuppressedPairs, mgrVars, connVars,
     clientVars
<1>7. ASSUME NEW s \in Scheduler, NEW c, candidate_races(s, c)
      PROVE  DropsFollowAdds'
  BY <1>7 DEF SyncInv, PerScheduler, DropsFollowAdds, Registered, ofReply,
     inReply, NoMsg, candidate_races, updateTrueRaceInfo, mgrVars, connVars,
     clientVars
<1>8. ASSUME NEW s \in Scheduler, NEW c, candidate_no_race(s, c)
      PROVE  DropsFollowAdds'
  BY <1>8 DEF SyncInv, PerScheduler, DropsFollowAdds, Registered, ofReply,
     inReply, NoMsg, candidate_no_race, NewLikelyRaceInput, mgrVars, connVars,
     clientVars
<1>9. ASSUME NEW s \in Scheduler, NEW p, likely_races(s, p)
      PROVE  DropsFollowAdds'
  BY <1>9 DEF SyncInv, PerScheduler, DropsFollowAdds, Registered, ofReply,
     inReply, NoMsg, likely_races, updateTrueRaceInfo, mgrVars, connVars,
     clientVars
<1>10. ASSUME NEW s \in Scheduler, NEW p, triageInput(s, p)
       PROVE  DropsFollowAdds'
  BY <1>10 DEF SyncInv, PerScheduler, DropsFollowAdds, Registered, ofReply,
     inReply, NoMsg, triageInput, mgrVars, connVars, clientVars
<1>11. ASSUME NEW s \in Scheduler, scheduler_crash(s) PROVE DropsFollowAdds'
  BY <1>11 DEF SyncInv, PerScheduler, DropsFollowAdds, Registered, ofReply,
     inReply, NoMsg, scheduler_crash, mgrVars, connVars, clientVars
<1>12. ASSUME NEW p, FuzzerPoll({p}) PROVE DropsFollowAdds'
  BY <1>12 DEF SyncInv, PerScheduler, DropsFollowAdds, Registered, ofReply,
     inReply, NoMsg, FuzzerPoll, mgrVars, connVars, clientVars
<1> QED BY <1>1, <1>2, <1>3, <1>4, <1>5, <1>6, <1>7, <1>8, <1>9, <1>10, <1>11,
        <1>12 DEF SyncNext, connectStep, pollStep, executeCandidate

\* The manager never forgets a race.
LEMMA AnnouncedAreKnownStep ==
    ASSUME SyncInv, SyncNext
    PROVE  AnnouncedAreKnown'
<1>1. ASSUME NEW new \in SUBSET Pair, updateSuppPairs(new)
      PROVE  AnnouncedAreKnown'
  BY <1>1 DEF SyncInv, PerScheduler, AnnouncedAreKnown, ofReply, inReply,
     NoMsg, updateSuppPairs, mgrVars, connVars, clientVars
<1>2. ASSUME NEW s \in Scheduler, SchedulerConnect(s) PROVE AnnouncedAreKnown'
  BY <1>2 DEF SyncInv, PerScheduler, AnnouncedAreKnown, ofReply, inReply,
     NoMsg, SchedulerConnect, register, PopFromRaceQueue, minimizeLikely,
     mgrVars, connVars, clientVars
<1>3. ASSUME NEW s \in Scheduler, schedulerInit(s) PROVE AnnouncedAreKnown'
  BY <1>3 DEF SyncInv, PerScheduler, AnnouncedAreKnown, ofReply, inReply,
     NoMsg, schedulerInit, UpTo, mgrVars, connVars, clientVars
<1>4. ASSUME NEW s \in Scheduler, initPoll(s) PROVE AnnouncedAreKnown'
  BY <1>4 DEF SyncInv, PerScheduler, AnnouncedAreKnown, ofReply, inReply,
     NoMsg, initPoll, mgrVars, connVars, clientVars
<1>5. ASSUME NEW s \in Scheduler, SchedulerPoll(s) PROVE AnnouncedAreKnown'
  BY <1>5 DEF SyncInv, PerScheduler, AnnouncedAreKnown, ofReply, inReply,
     NoMsg, SchedulerPoll, UpTo, PopFromRaceQueue, minimizeLikely,
     newFoundRaceHashes, mgrVars, connVars, clientVars
<1>6. ASSUME NEW s \in Scheduler, finishPoll(s) PROVE AnnouncedAreKnown'
  BY <1>6 DEF SyncInv, PerScheduler, AnnouncedAreKnown, ofReply, inReply,
     NoMsg, finishPoll, updateSuppressedPairs, mgrVars, connVars, clientVars
<1>7. ASSUME NEW s \in Scheduler, NEW c, candidate_races(s, c)
      PROVE  AnnouncedAreKnown'
  BY <1>7 DEF SyncInv, PerScheduler, AnnouncedAreKnown, ofReply, inReply,
     NoMsg, candidate_races, updateTrueRaceInfo, mgrVars, connVars, clientVars
<1>8. ASSUME NEW s \in Scheduler, NEW c, candidate_no_race(s, c)
      PROVE  AnnouncedAreKnown'
  BY <1>8 DEF SyncInv, PerScheduler, AnnouncedAreKnown, ofReply, inReply,
     NoMsg, candidate_no_race, NewLikelyRaceInput, mgrVars, connVars,
     clientVars
<1>9. ASSUME NEW s \in Scheduler, NEW p, likely_races(s, p)
      PROVE  AnnouncedAreKnown'
  BY <1>9 DEF SyncInv, PerScheduler, AnnouncedAreKnown, ofReply, inReply,
     NoMsg, likely_races, updateTrueRaceInfo, mgrVars, connVars, clientVars
<1>10. ASSUME NEW s \in Scheduler, NEW p, triageInput(s, p)
       PROVE  AnnouncedAreKnown'
  BY <1>10 DEF SyncInv, PerScheduler, AnnouncedAreKnown, ofReply, inReply,
     NoMsg, triageInput, mgrVars, connVars, clientVars
<1>11. ASSUME NEW s \in Scheduler, scheduler_crash(s) PROVE AnnouncedAreKnown'
  BY <1>11 DEF SyncInv, PerScheduler, AnnouncedAreKnown, ofReply, inReply,
     NoMsg, scheduler_crash, mgrVars, connVars, clientVars
<1>12. ASSUME NEW p, FuzzerPoll({p}) PROVE AnnouncedAreKnown'
  BY <1>12 DEF SyncInv, PerScheduler, AnnouncedAreKnown, ofReply, inReply,
     NoMsg, FuzzerPoll, mgrVars, connVars, clientVars
<1> QED BY <1>1, <1>2, <1>3, <1>4, <1>5, <1>6, <1>7, <1>8, <1>9, <1>10, <1>11,
        <1>12 DEF SyncNext, connectStep, pollStep, executeCandidate

\* A found race moves from the scheduler into a poll call and from there to
\* the manager.
LEMMA KnownRacesReportedStep ==
    ASSUME SyncInv, SyncNext
    PROVE  KnownRacesReported'
<1>1. ASSUME NEW new \in SUBSET Pair, updateSuppPairs(new)
      PROVE  KnownRacesReported'
  BY <1>1 DEF SyncInv, PerScheduler, KnownRacesReported, AnnouncedAreKnown,
     ofReply, inReply, NoMsg, Registered, updateSuppPairs, mgrVars, connVars,
     clientVars
<1>2. ASSUME NEW s \in Scheduler, SchedulerConnect(s)
      PROVE  KnownRacesReported'
  BY <1>2 DEF SyncInv, PerScheduler, KnownRacesReported, AnnouncedAreKnown,
     ofReply, inReply, NoMsg, Registered, SchedulerConnect, register,
     PopFromRaceQueue, minimizeLikely, mgrVars, connVars, clientVars
<1>3. ASSUME NEW s \in Scheduler, schedulerInit(s) PROVE KnownRacesReported'
  BY <1>3 DEF SyncInv, PerScheduler, KnownRacesReported, AnnouncedAreKnown,
     ofReply, inReply, NoMsg, Registered, schedulerInit, UpTo, mgrVars,
     connVars, clientVars
<1>4. ASSUME NEW s \in Scheduler, initPoll(s) PROVE KnownRacesReported'
  BY <1>4 DEF SyncInv, PerScheduler, KnownRacesReported, AnnouncedAreKnown,
     ofReply, inReply, NoMsg, Registered, initPoll, mgrVars, connVars,
     clientVars
<1>5. ASSUME NEW s \in Scheduler, SchedulerPoll(s) PROVE KnownRacesReported'
  BY <1>5 DEF SyncInv, PerScheduler, KnownRacesReported, AnnouncedAreKnown,
     ofReply, inReply, NoMsg, Registered, SchedulerPoll, UpTo,
     PopFromRaceQueue, minimizeLikely, newFoundRaceHashes, mgrVars, connVars,
     clientVars
<1>6. ASSUME NEW s \in Scheduler, finishPoll(s) PROVE KnownRacesReported'
  BY <1>6 DEF SyncInv, PerScheduler, KnownRacesReported, AnnouncedAreKnown,
     ofReply, inReply, NoMsg, Registered, finishPoll, updateSuppressedPairs,
     mgrVars, connVars, clientVars
<1>7. ASSUME NEW s \in Scheduler, NEW c, candidate_races(s, c)
      PROVE  KnownRacesReported'
  BY <1>7 DEF SyncInv, PerScheduler, KnownRacesReported, AnnouncedAreKnown,
     ofReply, inReply, NoMsg, Registered, candidate_races, updateTrueRaceInfo,
     mgrVars, connVars, clientVars
<1>8. ASSUME NEW s \in Scheduler, NEW c, candidate_no_race(s, c)
      PROVE  KnownRacesReported'
  BY <1>8 DEF SyncInv, PerScheduler, KnownRacesReported, AnnouncedAreKnown,
     ofReply, inReply, NoMsg, Registered, candidate_no_race,
     NewLikelyRaceInput, mgrVars, connVars, clientVars
<1>9. ASSUME NEW s \in Scheduler, NEW p, likely_races(s, p)
      PROVE  KnownRacesReported'
  BY <1>9 DEF SyncInv, PerScheduler, KnownRacesReported, AnnouncedAreKnown,
     ofReply, inReply, NoMsg, Registered, likely_races, updateTrueRaceInfo,
     mgrVars, connVars, clientVars
<1>10. ASSUME NEW s \in Scheduler, NEW p, triageInput(s, p)
       PROVE  KnownRacesReported'
  BY <1>10 DEF SyncInv, PerScheduler, KnownRacesReported, AnnouncedAreKnown,
     ofReply, inReply, NoMsg, Registered, triageInput, mgrVars, connVars,
     clientVars
<1>11. ASSUME NEW s \in Scheduler, scheduler_crash(s)
       PROVE  KnownRacesReported'
  BY <1>11 DEF SyncInv, PerScheduler, KnownRacesReported, AnnouncedAreKnown,
     ofReply, inReply, NoMsg, Registered, scheduler_crash, mgrVars, connVars,
     clientVars
<1>12. ASSUME NEW p, FuzzerPoll({p}) PROVE KnownRacesReported'
  BY <1>12 DEF SyncInv, PerScheduler, KnownRacesReported, AnnouncedAreKnown,
     ofReply, inReply, NoMsg, Registered, FuzzerPoll, mgrVars, connVars,
     clientVars
<1> QED BY <1>1, <1>2, <1>3, <1>4, <1>5, <1>6, <1>7, <1>8, <1>9, <1>10, <1>11,
        <1>12 DEF SyncNext, connectStep, pollStep, executeCandidate

\* An input moves from the queue of a scheduler into a reply and from there to
\* its corpus; a connect call takes all there is at its second half.
LEMMA InputsNotLostStep ==
    ASSUME SyncInv, SyncNext
    PROVE  InputsNotLost'
<1>1. ASSUME NEW new \in SUBSET Pair, updateSuppPairs(new)
      PROVE  InputsNotLost'
  BY <1>1 DEF SyncInv, PerScheduler, InputsNotLost, inReply, NoMsg,
     Registered, updateSuppPairs, mgrVars, connVars, clientVars
<1>2. ASSUME NEW s \in Scheduler, SchedulerConnect(s) PROVE InputsNotLost'
  BY <1>2 DEF SyncInv, PerScheduler, InputsNotLost, inReply, NoMsg,
     Registered, SchedulerConnect, register, PopFromRaceQueue, minimizeLikely,
     mgrVars, connVars, clientVars
<1>3. ASSUME NEW s \in Scheduler, schedulerInit(s) PROVE InputsNotLost'
  BY <1>3 DEF SyncInv, PerScheduler, InputsNotLost, inReply, NoMsg,
     Registered, schedulerInit, UpTo, mgrVars, connVars, clientVars
<1>4. ASSUME NEW s \in Scheduler, initPoll(s) PROVE InputsNotLost'
  BY <1>4 DEF SyncInv, PerScheduler, InputsNotLost, inReply, NoMsg,
     Registered, initPoll, mgrVars, connVars, clientVars
<1>5. ASSUME NEW s \in Scheduler, SchedulerPoll(s) PROVE InputsNotLost'
  BY <1>5 DEF SyncInv, PerScheduler, InputsNotLost, inReply, NoMsg,
     Registered, SchedulerPoll, UpTo, PopFromRaceQueue, minimizeLikely,
     newFoundRaceHashes, mgrVars, connVars, clientVars
<1>6. ASSUME NEW s \in Scheduler, finishPoll(s) PROVE InputsNotLost'
  BY <1>6 DEF SyncInv, PerScheduler, InputsNotLost, inReply, NoMsg,
     Registered, finishPoll, updateSuppressedPairs, mgrVars, connVars,
     clientVars
<1>7. ASSUME NEW s \in Scheduler, NEW c, candidate_races(s, c)
      PROVE  InputsNotLost'
  BY <1>7 DEF SyncInv, PerScheduler, InputsNotLost, inReply, NoMsg,
     Registered, candidate_races, updateTrueRaceInfo, mgrVars, connVars,
     clientVars
<1>8. ASSUME NEW s \in Scheduler, NEW c, candidate_no_race(s, c)
      PROVE  InputsNotLost'
  BY <1>8 DEF SyncInv, PerScheduler, InputsNotLost, inReply, NoMsg,
     Registered, candidate_no_race, NewLikelyRaceInput, mgrVars, connVars,
     clientVars
<1>9. ASSUME NEW s \in Scheduler, NEW p, likely_races(s, p)
      PROVE  InputsNotLost'
  BY <1>9 DEF SyncInv, PerScheduler, InputsNotLost, inReply, NoMsg,
     Registered, likely_races, updateTrueRaceInfo, mgrVars, connVars,
     clientVars
<1>10. ASSUME NEW s \in Scheduler, NEW p, triageInput(s, p)
       PROVE  InputsNotLost'
  BY <1>10 DEF SyncInv, PerScheduler, InputsNotLost, inReply, NoMsg,
     Registered, triageInput, mgrVars, connVars, clientVars
<1>11. ASSUME NEW s \in Scheduler, scheduler_crash(s) PROVE InputsNotLost'
  BY <1>11 DEF SyncInv, PerScheduler, InputsNotLost, inReply, NoMsg,
     Registered, scheduler_crash, mgrVars, connVars, clientVars
<1>12. ASSUME NEW p, FuzzerPoll({p}) PROVE InputsNotLost'
  BY <1>12 DEF SyncInv, PerScheduler, InputsNotLost, inReply, NoMsg,
     Registered, FuzzerPoll, mgrVars, connVars, clientVars
<1> QED BY <1>1, <1>2, <1>3, <1>4, <1>5, <1>6, <1>7, <1>8, <1>9, <1>10, <1>11,
        <1>12 DEF SyncNext, connectStep, pollStep, executeCandidate

\* New races and new likely inputs are filtered against each other.
LEMMA LikelyNotTrueStep ==
    ASSUME SyncInv, SyncNext
    PROVE  LikelyNotTrue'
<1>1. ASSUME NEW new \in SUBSET Pair, updateSuppPairs(new)
      PROVE  LikelyNotTrue'
  BY <1>1 DEF SyncInv, PerScheduler, LikelyNotTrue, updateSuppPairs, mgrVars,
     connVars, clientVars
<1>2. ASSUME NEW s \in Scheduler, SchedulerConnect(s) PROVE LikelyNotTrue'
  BY <1>2 DEF SyncInv, PerScheduler, LikelyNotTrue, SchedulerConnect,
     register, PopFromRaceQueue, minimizeLikely, mgrVars, connVars, clientVars
<1>3. ASSUME NEW s \in Scheduler, schedulerInit(s) PROVE LikelyNotTrue'
  BY <1>3 DEF SyncInv, PerScheduler, LikelyNotTrue, schedulerInit, UpTo,
     mgrVars, connVars, clientVars
<1>4. ASSUME NEW s \in Scheduler, initPoll(s) PROVE LikelyNotTrue'
  BY <1>4 DEF SyncInv, PerScheduler, LikelyNotTrue, initPoll, mgrVars,
     connVars, clientVars
<1>5. ASSUME NEW s \in Scheduler, SchedulerPoll(s) PROVE LikelyNotTrue'
  BY <1>5 DEF SyncInv, PerScheduler, LikelyNotTrue, SchedulerPoll, UpTo,
     PopFromRaceQueue, minimizeLikely, newFoundRaceHashes, mgrVars, connVars,
     clientVars
<1>6. ASSUME NEW s \in Scheduler, finishPoll(s) PROVE LikelyNotTrue'
  BY <1>6 DEF SyncInv, PerScheduler, LikelyNotTrue, finishPoll,
     updateSuppressedPairs, mgrVars, connVars, clientVars
<1>7. ASSUME NEW s \in Scheduler, NEW c, candidate_races(s, c)
      PROVE  LikelyNotTrue'
  BY <1>7 DEF SyncInv, PerScheduler, LikelyNotTrue, candidate_races,
     updateTrueRaceInfo, mgrVars, connVars, clientVars
<1>8. ASSUME NEW s \in Scheduler, NEW c, candidate_no_race(s, c)
      PROVE  LikelyNotTrue'
  BY <1>8 DEF SyncInv, PerScheduler, LikelyNotTrue, candidate_no_race,
     NewLikelyRaceInput, mgrVars, connVars, clientVars
<1>9. ASSUME NEW s \in Scheduler, NEW p, likely_races(s, p)
      PROVE  LikelyNotTrue'
  BY <1>9 DEF SyncInv, PerScheduler, LikelyNotTrue, likely_races,
     updateTrueRaceInfo, mgrVars, connVars, clientVars
<1>10. ASSUME NEW s \in Scheduler, NEW p, triageInput(s, p)
       PROVE  LikelyNotTrue'
  BY <1>10 DEF SyncInv, PerScheduler, LikelyNotTrue, triageInput, mgrVars,
     connVars, clientVars
<1>11. ASSUME NEW s \in Scheduler, scheduler_crash(s) PROVE LikelyNotTrue'
  BY <1>11 DEF SyncInv, PerScheduler, LikelyNotTrue, scheduler_crash, mgrVars,
     connVars, clientVars
<1>12. ASSUME NEW p, FuzzerPoll({p}) PROVE LikelyNotTrue'
  BY <1>12 DEF SyncInv, PerScheduler, LikelyNotTrue, FuzzerPoll, mgrVars,
     connVars, clientVars
<1> QED BY <1>1, <1>2, <1>3, <1>4, <1>5, <1>6, <1>7, <1>8, <1>9, <1>10, <1>11,
        <1>12 DEF SyncNext, connectStep, pollStep, executeCandidate

----------------------------------------------------------------------------
\* The inductive invariant holds in every reachable state, for any number of
\* schedulers and pairs and whatever the limits of the queues.
THEOREM SyncInvHolds == SyncSpec => []SyncInv
<1>1. SyncInit => SyncInv
  BY SyncInitInv
<1>2. ASSUME SyncInv, [SyncNext]_vars PROVE SyncInv'
  <2>1. CASE SyncNext
    <3>1. PerScheduler' /\ Registered' /\ DropsFollowAdds' /\ AnnouncedAreKnown'
      BY <1>2, <2>1, PerSchedulerStep, RegisteredStep, DropsFollowAddsStep,
         AnnouncedAreKnownStep
    <3>2. KnownRacesReported' /\ InputsNotLost' /\ LikelyNotTrue'
      BY <1>2, <2>1, KnownRacesReportedStep, InputsNotLostStep, LikelyNotTrueStep
    <3> QED BY <3>1, <3>2 DEF SyncInv
  <2>2. CASE UNCHANGED vars
    <3>1. PerScheduler' /\ Registered' /\ DropsFollowAdds' /\ AnnouncedAreKnown'
      BY <1>2, <2>2 DEF SyncInv, PerScheduler, Registered, DropsFollowAdds,
         AnnouncedAreKnown, ofReply, inReply, vars, mgrVars, connVars, clientVars
    <3>2. KnownRacesReported' /\ InputsNotLost' /\ LikelyNotTrue'
      BY <1>2, <2>2 DEF SyncInv, KnownRacesReported, InputsNotLost, LikelyNotTrue,
         inReply, vars, mgrVars, connVars, clientVars
    <3> QED BY <3>1, <3>2 DEF SyncInv
  <2> QED BY <1>2, <2>1, <2>2
<1> QED BY <1>1, <1>2, PTL DEF SyncSpec

\* A pair the manager stopped suppressing is still suppressed by a scheduler
\* only until the polls under way or next are answered.
THEOREM SuppressionEnds == SyncSpec => []NeverOverSuppressed
<1>1. SyncInv => NeverOverSuppressed
  BY DEF SyncInv, DropsFollowAdds, ofReply, NeverOverSuppressed
<1> QED BY <1>1, SyncInvHolds, PTL

\* Every input of the manager is at each running scheduler, queued for it or in
\* a reply to it, although SchedulerConnect drops mgr.mu half-way.
THEOREM NoInputIsLost == SyncSpec => []InputsNotLost
<1>1. SyncInv => InputsNotLost
  BY DEF SyncInv
<1> QED BY <1>1, SyncInvHolds, PTL

\* A race a scheduler takes for known is known to the manager or on its way to
\* it.
THEOREM RacesAreReported == SyncSpec => []KnownRacesReported
<1>1. SyncInv => KnownRacesReported
  BY DEF SyncInv
<1> QED BY <1>1, SyncInvHolds, PTL

\* likelyRaceCorpus holds no likely input of a pair the manager knows to race.
THEOREM LikelyIsNotTrue == SyncSpec => []LikelyNotTrue
<1>1. SyncInv => LikelyNotTrue
  BY DEF SyncInv
<1> QED BY <1>1, SyncInvHolds, PTL

----------------------------------------------------------------------------
(* The candidates. *)

\* The candidates on their way to a scheduler.
inTransit(s) == IF inReply(s, {"connecting", "reply"}) THEN msg[s].cands ELSE {}

\* The candidates of a queue are in the order of their numbers.
ascending(q) == \A i, j \in DOMAIN q : i < j => q[i].n < q[j].n

\* The queue r has some of the candidates of q, in the order of q.
partOf(r, q) ==
    /\ r \in Seq(Cand) /\ ascending(r)
    /\ \A i \in DOMAIN r : \E j \in DOMAIN q : r[i] = q[j]

\* No number above cands has been given, and those of the queue ascend.
Numbered ==
    /\ cands >= DBCands /\ cands - DBCands <= events
    /\ ascending(raceQueue)
    /\ \A i \in DOMAIN raceQueue : raceQueue[i].n <= cands
    /\ \A s \in Scheduler : \A c \in work[s] \cup inTransit(s) : c.n <= cands

\* A number is in one place only, and stands for one candidate.
OnePlace ==
    /\ \A s \in Scheduler, i \in DOMAIN raceQueue :
          \A c \in work[s] \cup inTransit(s) : raceQueue[i].n # c.n
    /\ \A s, t \in Scheduler : \A c \in work[s], d \in inTransit(t) : c.n # d.n
    /\ \A s, t \in Scheduler :
          /\ \A c \in work[s], d \in work[t] : c.n = d.n => s = t /\ c = d
          /\ \A c \in inTransit(s), d \in inTransit(t) : c.n = d.n => s = t /\ c = d

\* A reply does not say more than the manager knows.
DoneFollows ==
    \A s \in Scheduler : msg[s].kind = "reply" /\ msg[s].done => raceCorpusDBDone

QueueInv == SyncTypeOK /\ Numbered /\ OnePlace /\ DBCandidatesFirst /\ DoneFollows

\* Candidates are numbered from 1 on.
LEMMA CandNumbers == MaxCand \in Nat /\ \A c \in Cand : c.n \in 1..MaxCand /\ c.n \in Int
BY SyncAssumption DEF Cand, MaxCand

\* The two halves of a queue that is cut at m.
LEMMA Halves ==
    ASSUME NEW q \in Seq(Cand), NEW m \in 0..Len(q)
    PROVE  LET front == SubSeq(q, 1, m)
               back == SubSeq(q, m + 1, Len(q))
           IN /\ front \in Seq(Cand) /\ Len(front) = m
              /\ \A i \in 1..m : front[i] = q[i]
              /\ back \in Seq(Cand) /\ Len(back) = Len(q) - m
              /\ \A i \in 1..(Len(q) - m) : back[i] = q[m + i]
<1>1. Len(q) \in Nat /\ m \in Nat /\ m <= Len(q) /\ \A i \in 1..Len(q) : q[i] \in Cand
  OBVIOUS
<1>2. SubSeq(q, 1, m) \in Seq(Cand) /\ SubSeq(q, m + 1, Len(q)) \in Seq(Cand)
  BY <1>1, SubSeqProperties
<1>3. Len(SubSeq(q, 1, m)) = m /\ Len(SubSeq(q, m + 1, Len(q))) = Len(q) - m
  BY <1>1, SubSeqProperties
<1>4. ASSUME NEW i \in 1..m PROVE SubSeq(q, 1, m)[i] = q[i]
  BY <1>1, <1>4, SubSeqProperties
<1>5. ASSUME NEW i \in 1..(Len(q) - m) PROVE SubSeq(q, m + 1, Len(q))[i] = q[m + i]
  BY <1>1, <1>5, SubSeqProperties
<1> QED BY <1>2, <1>3, <1>4, <1>5

\* PopFromRaceQueue splits the queue, wherever it takes the candidates from.
LEMMA PopSplits ==
    ASSUME raceQueue \in Seq(Cand), ascending(raceQueue),
           NEW k \in 0..Len(raceQueue), NEW idx \in PopIndex(k)
    PROVE  /\ partOf(restOfQueue(idx, k), raceQueue)
           /\ popedCandidates(idx, k) \subseteq Cand
           /\ \A c \in popedCandidates(idx, k) :
                 /\ \E j \in DOMAIN raceQueue : c = raceQueue[j]
                 /\ \A d \in popedCandidates(idx, k) : c.n = d.n => c = d
                 /\ \A i \in DOMAIN restOfQueue(idx, k) : restOfQueue(idx, k)[i].n # c.n
<1> DEFINE rest == restOfQueue(idx, k)
           pos(i) == IF i <= idx THEN i ELSE i + k
<1>1. /\ Len(raceQueue) \in Nat /\ DOMAIN raceQueue = 1..Len(raceQueue)
      /\ k \in Nat /\ idx \in Nat /\ idx + k <= Len(raceQueue)
  BY DEF PopIndex
<1>2. \A i \in DOMAIN raceQueue : raceQueue[i] \in Cand /\ raceQueue[i].n \in Int
  BY <1>1, CandNumbers
<1> DEFINE front == SubSeq(raceQueue, 1, idx)
           back == SubSeq(raceQueue, idx + k + 1, Len(raceQueue))
<1>3. /\ front \in Seq(Cand) /\ Len(front) = idx
      /\ \A i \in 1..idx : front[i] = raceQueue[i]
      /\ back \in Seq(Cand) /\ Len(back) = Len(raceQueue) - idx - k
      /\ \A i \in 1..(Len(raceQueue) - idx - k) : back[i] = raceQueue[idx + k + i]
  <2> DEFINE m == idx + k
  <2>1. idx \in 0..Len(raceQueue) /\ m \in 0..Len(raceQueue)
    BY <1>1
  <2>2. /\ front \in Seq(Cand) /\ Len(front) = idx
        /\ \A i \in 1..idx : front[i] = raceQueue[i]
    BY <2>1, Halves
  <2> HIDE DEF m
  <2>3. /\ SubSeq(raceQueue, m + 1, Len(raceQueue)) \in Seq(Cand)
        /\ Len(SubSeq(raceQueue, m + 1, Len(raceQueue))) = Len(raceQueue) - m
        /\ \A i \in 1..(Len(raceQueue) - m) :
              SubSeq(raceQueue, m + 1, Len(raceQueue))[i] = raceQueue[m + i]
    BY <2>1, Halves
  <2>4. /\ back = SubSeq(raceQueue, m + 1, Len(raceQueue))
        /\ Len(raceQueue) - idx - k = Len(raceQueue) - m
    BY <1>1 DEF m
  <2> HIDE DEF front, back
  <2> QED BY <1>1, <2>2, <2>3, <2>4 DEF m
<1>4. rest = front \o back
  BY DEF restOfQueue
<1> HIDE DEF rest, front, back
<1>5. /\ rest \in Seq(Cand) /\ DOMAIN rest = 1..(Len(raceQueue) - k)
      /\ \A i \in DOMAIN rest : pos(i) \in DOMAIN raceQueue /\ rest[i] = raceQueue[pos(i)]
  <2>1. /\ rest \in Seq(Cand) /\ Len(rest) = idx + (Len(raceQueue) - idx - k)
        /\ \A i \in 1..idx : rest[i] = front[i]
    <3>1. rest \in Seq(Cand)
      BY <1>3, <1>4, ConcatProperties
    <3>2. Len(rest) = Len(front) + Len(back)
      BY <1>3, <1>4, ConcatProperties
    <3>3. ASSUME NEW i \in 1..idx PROVE rest[i] = front[i]
      BY <1>1, <1>3, <1>4, <3>3, ConcatProperties
    <3> QED BY <1>3, <3>1, <3>2, <3>3
  <2>2. DOMAIN rest = 1..(Len(raceQueue) - k)
    BY <1>1, <2>1
  <2>3. ASSUME NEW i \in DOMAIN rest
        PROVE  pos(i) \in DOMAIN raceQueue /\ rest[i] = raceQueue[pos(i)]
    <3>1. CASE i <= idx
      BY <1>1, <1>3, <2>1, <2>2, <3>1
    <3>2. CASE ~(i <= idx)
      <4>1. rest[i] = back[i - idx]
        BY <1>1, <1>3, <1>4, <2>2, <3>2
      <4>2. i - idx \in 1..(Len(raceQueue) - idx - k) /\ i + k \in 1..Len(raceQueue)
        BY <1>1, <2>2, <3>2
      <4>3. idx + k + (i - idx) = i + k
        BY <1>1, <2>2
      <4> QED BY <1>1, <1>3, <3>2, <4>1, <4>2, <4>3
    <3> QED BY <3>1, <3>2
  <2> QED BY <2>1, <2>2, <2>3
<1>6. ascending(rest)
  <2> SUFFICES ASSUME NEW i \in DOMAIN rest, NEW j \in DOMAIN rest, i < j
               PROVE  rest[i].n < rest[j].n
    BY DEF ascending
  <2>1. pos(i) < pos(j) /\ pos(i) \in DOMAIN raceQueue /\ pos(j) \in DOMAIN raceQueue
    BY <1>1, <1>5
  <2> HIDE DEF pos
  <2> QED BY <1>5, <2>1 DEF ascending
<1>7. \A c \in popedCandidates(idx, k) : \E j \in (idx + 1)..(idx + k) :
         j \in DOMAIN raceQueue /\ c = raceQueue[j]
  BY <1>1 DEF popedCandidates
<1>8. \A i, j \in DOMAIN raceQueue : raceQueue[i].n = raceQueue[j].n => i = j
  BY <1>1, <1>2 DEF ascending
<1>9. \A i \in DOMAIN rest, j \in (idx + 1)..(idx + k) : pos(i) # j
  BY <1>1, <1>5
<1>10. partOf(rest, raceQueue)
  BY <1>5, <1>6 DEF partOf
<1>11. \A c \in popedCandidates(idx, k) :
         /\ \E j \in DOMAIN raceQueue : c = raceQueue[j]
         /\ \A d \in popedCandidates(idx, k) : c.n = d.n => c = d
         /\ \A i \in DOMAIN rest : rest[i].n # c.n
  <2> HIDE DEF pos
  <2> QED BY <1>5, <1>7, <1>8, <1>9
<1> QED BY <1>2, <1>10, <1>11 DEF rest

\* The cleanups keep the order of what they leave in the queue.
LEMMA CleanupKeepsOrder ==
    ASSUME raceQueue \in Seq(Cand), ascending(raceQueue), NEW supp,
           cleanupRaceQueue(supp)
    PROVE  partOf(raceQueue', raceQueue)
<1>1. /\ Len(raceQueue) \in Nat /\ DOMAIN raceQueue = 1..Len(raceQueue)
      /\ \A i \in DOMAIN raceQueue : raceQueue[i] \in Cand /\ raceQueue[i].n \in Int
  BY CandNumbers
<1>2. CASE Len(raceQueue) <= SoftLimit
  BY <1>2 DEF cleanupRaceQueue, partOf
<1>3. CASE ~(Len(raceQueue) <= SoftLimit)
  <2> DEFINE kept == {i \in DOMAIN raceQueue : raceQueue[i].pair \notin supp}
             len == Cardinality(kept)
  <2>1. PICK pos \in unsuppressed(supp) :
           LET soft == [i \in DOMAIN pos |-> raceQueue[pos[i]]]
           IN  raceQueue' = IF Len(soft) <= HardLimit THEN soft ELSE hardCleanup(soft)
    BY <1>3 DEF cleanupRaceQueue
  <2> DEFINE soft == [i \in DOMAIN pos |-> raceQueue[pos[i]]]
  <2>2. len \in Nat
    <3>1. IsFiniteSet(1..Len(raceQueue))
      BY <1>1, FS_Interval
    <3>2. IsFiniteSet(kept)
      BY <1>1, <3>1, FS_Subset
    <3> QED BY <3>2, FS_CardinalityType
  <2>3. /\ DOMAIN pos = 1..len /\ \A i \in 1..len : pos[i] \in DOMAIN raceQueue
        /\ \A i, j \in 1..len : i < j => pos[i] < pos[j]
    BY DEF unsuppressed
  <2> HIDE DEF len
  <2>4. /\ soft \in Seq(Cand) /\ Len(soft) = len /\ DOMAIN soft = 1..len
        /\ \A i \in 1..len : soft[i] = raceQueue[pos[i]]
    BY <1>1, <2>2, <2>3
  <2>5. partOf(soft, raceQueue)
    BY <1>1, <2>2, <2>3, <2>4 DEF partOf, ascending
  <2>6. CASE Len(soft) <= HardLimit
    BY <2>1, <2>5, <2>6
  <2>7. CASE ~(Len(soft) <= HardLimit)
    <3> DEFINE half == Len(soft) \div 2
    <3> HIDE DEF soft
    <3>1. half \in 0..Len(soft) /\ Len(soft) \in Nat
      BY <2>2, <2>4
    <3> DEFINE last == SubSeq(soft, half + 1, Len(soft))
    <3> HIDE DEF half
    <3>2. /\ last \in Seq(Cand) /\ DOMAIN last = 1..(Len(soft) - half)
          /\ \A i \in DOMAIN last : i + half \in DOMAIN soft /\ last[i] = soft[i + half]
      BY <2>4, <3>1, Halves
    <3>3. raceQueue' = last
      BY <2>1, <2>7 DEF hardCleanup, half, soft
    <3> HIDE DEF last
    <3>4. ascending(last)
      <4> SUFFICES ASSUME NEW i \in DOMAIN last, NEW j \in DOMAIN last, i < j
                   PROVE  last[i].n < last[j].n
        BY DEF ascending
      <4>1. i + half < j + half
        BY <3>1, <3>2
      <4> QED BY <2>5, <3>2, <4>1 DEF partOf, ascending
    <3> QED BY <2>5, <3>2, <3>3, <3>4 DEF partOf
  <2> QED BY <2>6, <2>7
<1> QED BY <1>2, <1>3

----------------------------------------------------------------------------
\* Removing candidates anywhere, of a suppressed pair or in a crash.
LEMMA Fewer ==
    ASSUME QueueInv, partOf(raceQueue', raceQueue), cands' = cands,
           events' \in Int, events <= events',
           \A s \in Scheduler : work'[s] \subseteq work[s] /\ inTransit(s)' \subseteq inTransit(s)
    PROVE  Numbered' /\ OnePlace'
<1>1. cands \in Int /\ events \in Int /\ DBCands \in Int
  BY SyncAssumption DEF QueueInv, SyncTypeOK, MaxCand
<1>2. Numbered'
  BY <1>1 DEF QueueInv, Numbered, partOf
<1>3. OnePlace'
  BY DEF QueueInv, OnePlace, partOf
<1> QED BY <1>2, <1>3

\* The queue is part of itself.
LEMMA Unmoved ==
    ASSUME QueueInv, raceQueue' = raceQueue
    PROVE  partOf(raceQueue', raceQueue)
BY DEF QueueInv, SyncTypeOK, Numbered, partOf

\* Candidates leave the queue with a reply.
LEMMA Popped ==
    ASSUME QueueInv, NEW s \in Scheduler, NEW k \in 0..Len(raceQueue), NEW idx \in PopIndex(k),
           raceQueue' = restOfQueue(idx, k), cands' = cands, events' = events, work' = work,
           inTransit(s)' = popedCandidates(idx, k),
           \A t \in Scheduler : t # s => inTransit(t)' = inTransit(t)
    PROVE  Numbered' /\ OnePlace' /\ raceQueue' \in Seq(Cand)
<1> DEFINE out == popedCandidates(idx, k)
<1>1. raceQueue \in Seq(Cand) /\ ascending(raceQueue)
  BY DEF QueueInv, SyncTypeOK, Numbered
<1>2. /\ partOf(raceQueue', raceQueue)
      /\ \A c \in out : /\ \E j \in DOMAIN raceQueue : c = raceQueue[j]
                         /\ \A d \in out : c.n = d.n => c = d
                         /\ \A i \in DOMAIN raceQueue' : raceQueue'[i].n # c.n
  BY <1>1, PopSplits
<1> HIDE DEF out
<1>3. Numbered'
  BY <1>2 DEF QueueInv, Numbered, partOf, out
<1>4. OnePlace'
  BY <1>2 DEF QueueInv, OnePlace, partOf, out
<1> QED BY <1>2, <1>3, <1>4 DEF partOf

\* Candidates are taken over from a reply.
LEMMA Delivered ==
    ASSUME QueueInv, NEW s \in Scheduler, raceQueue' = raceQueue, cands' = cands,
           events' = events, work'[s] \subseteq work[s] \cup inTransit(s), inTransit(s)' = {},
           \A t \in Scheduler : t # s => inTransit(t)' = inTransit(t) /\ work'[t] = work[t]
    PROVE  Numbered' /\ OnePlace'
<1>1. Numbered'
  BY DEF QueueInv, Numbered
<1>2. OnePlace'
  BY DEF QueueInv, OnePlace
<1> QED BY <1>1, <1>2

\* The candidates of a work queue have different numbers, so that the length
\* that is sent with a poll is bounded.
LEMMA WorkBounded ==
    ASSUME QueueInv, NEW s \in Scheduler
    PROVE  Cardinality(work[s]) \in 0..MaxCand
<1> DEFINE f == [c \in work[s] |-> c.n]
<1>1. f \in Injection(work[s], 1..MaxCand)
  <2>1. work[s] \subseteq Cand
    BY DEF QueueInv, SyncTypeOK
  <2>2. f \in [work[s] -> 1..MaxCand]
    BY <2>1, CandNumbers
  <2>3. \A c, d \in work[s] : f[c] = f[d] => c = d
    BY DEF QueueInv, OnePlace
  <2> QED BY <2>2, <2>3 DEF Injection, IsInjective
<1>2. IsFiniteSet(1..MaxCand) /\ Cardinality(1..MaxCand) = MaxCand
  BY CandNumbers, FS_Interval
<1>3. IsFiniteSet(work[s]) /\ Cardinality(work[s]) <= MaxCand
  BY <1>1, <1>2, FS_Injection
<1>4. Cardinality(work[s]) \in Nat
  BY <1>3, FS_CardinalityType
<1> QED BY <1>3, <1>4, CandNumbers

\* Everything but the queue, the calls under way and the counters.
FieldTypes ==
    /\ suppressedPairs \in SUBSET Pair /\ trueRaceHashes \in SUBSET Pair
    /\ raceCorpus \in SUBSET Pair /\ likelyRaceCorpus \in SUBSET Pair
    /\ raceCorpusDBDone \in BOOLEAN
    /\ connected \in SUBSET Scheduler
    /\ suppPairsToAdd \in [Scheduler -> SUBSET Pair]
    /\ suppPairsToDel \in [Scheduler -> SUBSET Pair]
    /\ raceInputs \in [Scheduler -> SUBSET Pair]
    /\ likelyRaceInputs \in [Scheduler -> SUBSET Pair]
    /\ newTrueRaces \in [Scheduler -> SUBSET Pair]
    /\ up \in SUBSET Scheduler
    /\ suppressed \in [Scheduler -> SUBSET Pair]
    /\ trueRaces \in [Scheduler -> SUBSET Pair]
    /\ foundRaceToUpdate \in [Scheduler -> SUBSET Pair]
    /\ corpus \in [Scheduler -> SUBSET Pair]
    /\ likelyCorpus \in [Scheduler -> SUBSET Pair]
    /\ work \in [Scheduler -> SUBSET Cand]
    /\ dbDone \in [Scheduler -> BOOLEAN]

\* Sets of pairs stay sets of pairs, whatever moves between manager and
\* schedulers.
LEMMA FieldTypesStep ==
    ASSUME QueueInv, SyncNext
    PROVE  FieldTypes'
<1> USE DEF QueueInv, SyncTypeOK, FieldTypes
<1>1. ASSUME NEW new \in SUBSET Pair, updateSuppPairs(new) PROVE FieldTypes'
  BY <1>1 DEF updateSuppPairs,
     mgrVars, connVars, clientVars
<1>2. ASSUME NEW s \in Scheduler, SchedulerConnect(s) PROVE FieldTypes'
  BY <1>2 DEF SchedulerConnect, register, PopFromRaceQueue, minimizeLikely,
     mgrVars, connVars, clientVars
<1>3. ASSUME NEW s \in Scheduler, schedulerInit(s) PROVE FieldTypes'
  BY <1>3 DEF schedulerInit, UpTo, Connecting, PollArgs, PollRes, NoMsg,
     mgrVars, connVars, clientVars
<1>4. ASSUME NEW s \in Scheduler, initPoll(s) PROVE FieldTypes'
  BY <1>4 DEF initPoll,
     mgrVars, connVars, clientVars
<1>5. ASSUME NEW s \in Scheduler, SchedulerPoll(s) PROVE FieldTypes'
  BY <1>5 DEF SchedulerPoll, UpTo, PopFromRaceQueue, minimizeLikely, newFoundRaceHashes,
     Connecting, PollArgs, PollRes, NoMsg,
     mgrVars, connVars, clientVars
<1>6. ASSUME NEW s \in Scheduler, finishPoll(s) PROVE FieldTypes'
  BY <1>6 DEF finishPoll, updateSuppressedPairs, Connecting, PollArgs, PollRes, NoMsg,
     mgrVars, connVars, clientVars
<1>7. ASSUME NEW s \in Scheduler, NEW c \in work[s], candidate_races(s, c) PROVE FieldTypes'
  BY <1>7 DEF candidate_races, updateTrueRaceInfo, Cand,
     mgrVars, connVars, clientVars
<1>8. ASSUME NEW s \in Scheduler, NEW c \in work[s], candidate_no_race(s, c) PROVE FieldTypes'
  <2> DEFINE p == c.pair
  <2>1. p \in Pair
    BY DEF Cand
  <2> HIDE DEF p
  <2>2. /\ likelyRaceCorpus' \in SUBSET Pair
        /\ likelyRaceInputs' \in [Scheduler -> SUBSET Pair]
    <3>1. CASE UNCHANGED <<likelyRaceCorpus, likelyRaceInputs>>
      BY <3>1
    <3>2. CASE /\ likelyRaceCorpus' = likelyRaceCorpus \cup {p}
               /\ likelyRaceInputs' = [t \in Scheduler |->
                     IF t \in connected \ {s} THEN likelyRaceInputs[t] \cup {p}
                     ELSE likelyRaceInputs[t]]
      BY <2>1, <3>2
    <3> QED BY <1>8, <3>1, <3>2 DEF candidate_no_race, NewLikelyRaceInput, p
  <2>3. likelyCorpus' \in [Scheduler -> SUBSET Pair]
    BY <1>8, <2>1 DEF candidate_no_race, p
  <2>4. work' \in [Scheduler -> SUBSET Cand]
    BY <1>8 DEF candidate_no_race
  <2> QED BY <1>8, <2>2, <2>3, <2>4 DEF candidate_no_race
<1>9. ASSUME NEW s \in Scheduler, NEW p \in Pair, likely_races(s, p) PROVE FieldTypes'
  BY <1>9 DEF likely_races, updateTrueRaceInfo,
     mgrVars, connVars, clientVars
<1>10. ASSUME NEW s \in Scheduler, NEW p \in Pair, triageInput(s, p) PROVE FieldTypes'
  <2>1. raceCorpus' \in SUBSET Pair /\ raceInputs' \in [Scheduler -> SUBSET Pair]
    <3>1. CASE UNCHANGED <<raceCorpus, raceInputs>>
      BY <3>1
    <3>2. CASE /\ raceCorpus' = raceCorpus \cup {p}
               /\ raceInputs' = [t \in Scheduler |->
                     IF t \in connected \ {s} THEN raceInputs[t] \cup {p}
                     ELSE raceInputs[t]]
      BY <3>2
    <3> QED BY <1>10, <3>1, <3>2 DEF triageInput
  <2>2. corpus' \in [Scheduler -> SUBSET Pair]
    BY <1>10 DEF triageInput
  <2> QED BY <1>10, <2>1, <2>2 DEF triageInput
<1>11. ASSUME NEW s \in Scheduler, scheduler_crash(s) PROVE FieldTypes'
  BY <1>11 DEF scheduler_crash,
     mgrVars, connVars, clientVars
<1>12. ASSUME NEW p \in Pair, FuzzerPoll({p}) PROVE FieldTypes'
  BY <1>12 DEF FuzzerPoll,
     mgrVars, connVars, clientVars
<1> QED BY <1>1, <1>2, <1>3, <1>4, <1>5, <1>6, <1>7, <1>8, <1>9, <1>10, <1>11, <1>12
    DEF SyncNext, connectStep, pollStep, executeCandidate

\* The queue, the calls under way and the counters.
CallTypes ==
    /\ raceQueue \in Seq(Cand)
    /\ msg \in [Scheduler -> {NoMsg} \cup Connecting \cup PollArgs \cup PollRes]
    /\ cands \in 0..MaxCand /\ events \in 0..MaxEvents

QueueParts == CallTypes /\ Numbered /\ OnePlace /\ DBCandidatesFirst /\ DoneFollows

\* The invariant by parts, and the types the steps use most.
LEMMA QueueInvParts ==
    /\ QueueInv <=> FieldTypes /\ QueueParts
    /\ QueueInv => /\ raceQueue \in Seq(Cand) /\ ascending(raceQueue)
                   /\ cands \in Int /\ events \in Int /\ DBCands \in Int /\ MaxEvents \in Int
<1>1. QueueInv <=> FieldTypes /\ QueueParts
  BY DEF QueueInv, SyncTypeOK, FieldTypes, QueueParts, CallTypes
<1>2. QueueInv => /\ raceQueue \in Seq(Cand) /\ ascending(raceQueue)
                  /\ cands \in Int /\ events \in Int
  BY CandNumbers DEF QueueInv, SyncTypeOK, Numbered
<1> QED BY <1>1, <1>2, SyncAssumption

\* Nothing but work queues changes, and these lose candidates.
LEMMA WorkDone ==
    ASSUME QueueInv, UNCHANGED <<raceQueue, raceCorpusDBDone, dbDone, msg, cands, events>>,
           \A s \in Scheduler : work'[s] \subseteq work[s]
    PROVE  QueueParts'
<1>1. \A s \in Scheduler : inTransit(s)' = inTransit(s)
  BY DEF inTransit, inReply
<1>2. Numbered' /\ OnePlace'
  BY <1>1, Fewer, Unmoved, QueueInvParts
<1>3. CallTypes'
  BY QueueInvParts DEF QueueParts, CallTypes
<1>4. DBCandidatesFirst' /\ DoneFollows'
  BY DEF QueueInv, DBCandidatesFirst, DoneFollows
<1> QED BY <1>2, <1>3, <1>4 DEF QueueParts

\* No call is neither connecting nor a reply.
LEMMA NoMsgIsNone == NoMsg.kind = "none"
BY DEF NoMsg

\* A message that replaces the one of s.
LEMMA NewMessage ==
    ASSUME QueueInv, NEW s \in Scheduler, NEW m, msg' = [msg EXCEPT ![s] = m]
    PROVE  /\ msg'[s] = m
           /\ \A t \in Scheduler : t # s => msg'[t] = msg[t] /\ inTransit(t)' = inTransit(t)
           /\ inTransit(s)' = IF m.kind \in {"connecting", "reply"} THEN m.cands ELSE {}
<1>1. DOMAIN msg = Scheduler
  BY DEF QueueInv, SyncTypeOK
<1> QED BY <1>1 DEF inTransit, inReply

\* Both cleanups only take candidates out of the queue.
LEMMA SuppressionKeepsQueue ==
    ASSUME QueueInv, NEW new \in SUBSET Pair, updateSuppPairs(new)
    PROVE  QueueParts'
<1>1. partOf(raceQueue', raceQueue)
  BY QueueInvParts, CleanupKeepsOrder DEF updateSuppPairs
<1>2. /\ cands' = cands /\ events' \in 0..MaxEvents /\ events <= events'
      /\ UNCHANGED <<msg, work, dbDone, raceCorpusDBDone>>
  BY SyncAssumption DEF QueueInv, SyncTypeOK, updateSuppPairs, clientVars
<1>3. \A s \in Scheduler : inTransit(s)' = inTransit(s)
  BY <1>2 DEF inTransit, inReply
<1>4. Numbered' /\ OnePlace'
  BY <1>1, <1>2, <1>3, Fewer
<1>5. CallTypes'
  BY <1>1, <1>2 DEF QueueInv, SyncTypeOK, CallTypes, partOf
<1>6. DBCandidatesFirst' /\ DoneFollows'
  BY <1>1, <1>2 DEF QueueInv, DBCandidatesFirst, DoneFollows, partOf, FromDB
<1> QED BY <1>4, <1>5, <1>6 DEF QueueParts

\* After a pop that reports all candidates of the databases as sent, none of
\* them is left, since the queue ascends.
LEMMA SentAllIsTrue ==
    ASSUME QueueInv, NEW k \in 0..Len(raceQueue), NEW idx \in PopIndex(k),
           PopFromRaceQueue(idx, k)
    PROVE  /\ raceCorpusDBDone => raceCorpusDBDone'
           /\ raceCorpusDBDone' \in BOOLEAN
           /\ raceCorpusDBDone' => \A i \in DOMAIN raceQueue' : ~FromDB(raceQueue'[i])
<1>1. partOf(raceQueue', raceQueue)
  BY QueueInvParts, PopSplits DEF PopFromRaceQueue
<1>2. CASE raceCorpusDBDone
  BY <1>1, <1>2 DEF QueueInv, DBCandidatesFirst, PopFromRaceQueue, partOf, FromDB
<1>3. ASSUME ~raceCorpusDBDone, raceCorpusDBDone', NEW i \in DOMAIN raceQueue'
      PROVE  ~FromDB(raceQueue'[i])
  <2>1. sentAllFromDB(idx, k) /\ raceQueue' = restOfQueue(idx, k)
    BY <1>3 DEF PopFromRaceQueue
  <2>2. /\ raceQueue' \in Seq(Cand) /\ Len(raceQueue') \in Nat
        /\ DOMAIN raceQueue' = 1..Len(raceQueue')
    BY <1>1 DEF partOf
  <2>3. raceQueue' # <<>> /\ 1 \in DOMAIN raceQueue' /\ 1 <= i /\ i \in Int
    BY <1>3, <2>2
  <2>4. ~FromDB(raceQueue'[1])
    BY <2>1, <2>2, <2>3 DEF sentAllFromDB
  <2>5. raceQueue'[1].n \in Int /\ raceQueue'[i].n \in Int /\ raceQueue'[1] \in Cand
    BY <1>3, <2>2, <2>3, CandNumbers
  <2>6. raceQueue'[1].n <= raceQueue'[i].n
    BY <1>1, <1>3, <2>3, <2>5 DEF partOf, ascending
  <2> QED BY <2>4, <2>5, <2>6, SyncAssumption DEF FromDB
<1> QED BY <1>2, <1>3 DEF PopFromRaceQueue, sentAllFromDB

\* No more is popped than there is.
LEMMA PopCountBounded ==
    ASSUME QueueInv, NEW n \in Nat
    PROVE  PopCount(n) \in 0..Len(raceQueue)
BY QueueInvParts DEF PopCount

\* A connect call carries the candidate it popped.
LEMMA ConnectKeepsQueue ==
    ASSUME QueueInv, NEW s \in Scheduler, SchedulerConnect(s)
    PROVE  QueueParts'
<1> DEFINE k == PopCount(1)
<1>1. k \in 0..Len(raceQueue)
  BY PopCountBounded
<1>2. PICK idx \in PopIndex(k) :
         /\ PopFromRaceQueue(idx, k)
         /\ msg' = [msg EXCEPT ![s] = [kind |-> "connecting",
                                       cands |-> popedCandidates(idx, k)]]
  BY DEF SchedulerConnect
<1> DEFINE m == [kind |-> "connecting", cands |-> popedCandidates(idx, k)]
<1> HIDE DEF k
<1>3. popedCandidates(idx, k) \subseteq Cand
  BY <1>1, QueueInvParts, PopSplits
<1>4. m \in Connecting /\ m.kind = "connecting" /\ m.cands = popedCandidates(idx, k)
  BY <1>3 DEF Connecting
<1> HIDE DEF m
<1>5. /\ msg'[s] = m /\ inTransit(s)' = popedCandidates(idx, k)
      /\ \A t \in Scheduler : t # s => msg'[t] = msg[t] /\ inTransit(t)' = inTransit(t)
  BY <1>2, <1>4, NewMessage DEF m
<1>6. UNCHANGED <<work, dbDone, cands, events>>
  BY DEF SchedulerConnect, clientVars, bounds
<1>7. Numbered' /\ OnePlace' /\ raceQueue' \in Seq(Cand)
  BY <1>1, <1>2, <1>5, <1>6, Popped DEF PopFromRaceQueue
<1>8. msg' \in [Scheduler -> {NoMsg} \cup Connecting \cup PollArgs \cup PollRes]
  BY <1>2, <1>4 DEF QueueInv, SyncTypeOK, m
<1>9. CallTypes'
  BY <1>6, <1>7, <1>8 DEF QueueInv, SyncTypeOK, CallTypes
<1>10. DBCandidatesFirst' /\ DoneFollows'
  BY <1>1, <1>2, <1>4, <1>5, <1>6, SentAllIsTrue DEF QueueInv, DBCandidatesFirst, DoneFollows
<1> QED BY <1>7, <1>9, <1>10 DEF QueueParts

\* The answer to a poll carries the candidates it popped and the flag as it is
\* after the pop.
LEMMA PollKeepsQueue ==
    ASSUME QueueInv, NEW s \in Scheduler, SchedulerPoll(s)
    PROVE  QueueParts'
<1> DEFINE k == IF msg[s].qlen < QueueThold THEN PopCount(NumToPop) ELSE 0
<1>1. k \in 0..Len(raceQueue)
  BY PopCountBounded, QueueInvParts, SyncAssumption
<1>2. PICK idx \in PopIndex(k), inputs \in UpTo(raceInputs[s], PollMax),
           likely \in UpTo(likelyRaceInputs[s], PollMax) :
         /\ PopFromRaceQueue(idx, k)
         /\ msg' = [msg EXCEPT ![s] =
               [kind |-> "reply", add |-> suppPairsToAdd[s],
                del |-> suppPairsToDel[s], inputs |-> inputs,
                likely |-> likely, trues |-> newTrueRaces[s],
                cands |-> popedCandidates(idx, k),
                done |-> raceCorpusDBDone']]
  BY DEF SchedulerPoll
<1> DEFINE m == [kind |-> "reply", add |-> suppPairsToAdd[s],
                 del |-> suppPairsToDel[s], inputs |-> inputs,
                 likely |-> likely, trues |-> newTrueRaces[s],
                 cands |-> popedCandidates(idx, k),
                 done |-> raceCorpusDBDone']
<1> HIDE DEF k
<1>3. popedCandidates(idx, k) \subseteq Cand
  BY <1>1, QueueInvParts, PopSplits
<1>4. /\ m \in PollRes /\ m.kind = "reply" /\ m.cands = popedCandidates(idx, k)
      /\ m.done = raceCorpusDBDone'
  <2>1. inputs \in SUBSET Pair /\ likely \in SUBSET Pair
    BY DEF QueueInv, SyncTypeOK, UpTo
  <2>2. raceCorpusDBDone' \in BOOLEAN
    BY <1>1, <1>2, SentAllIsTrue
  <2>3. /\ suppPairsToAdd[s] \in SUBSET Pair /\ suppPairsToDel[s] \in SUBSET Pair
        /\ newTrueRaces[s] \in SUBSET Pair
    BY DEF QueueInv, SyncTypeOK
  <2> QED BY <1>3, <2>1, <2>2, <2>3 DEF PollRes
<1> HIDE DEF m
<1>5. /\ msg'[s] = m /\ inTransit(s)' = popedCandidates(idx, k)
      /\ \A t \in Scheduler : t # s => msg'[t] = msg[t] /\ inTransit(t)' = inTransit(t)
  BY <1>2, <1>4, NewMessage DEF m
<1>6. UNCHANGED <<work, dbDone, cands, events>>
  BY DEF SchedulerPoll, clientVars, bounds
<1>7. Numbered' /\ OnePlace' /\ raceQueue' \in Seq(Cand)
  BY <1>1, <1>2, <1>5, <1>6, Popped DEF PopFromRaceQueue
<1>8. msg' \in [Scheduler -> {NoMsg} \cup Connecting \cup PollArgs \cup PollRes]
  BY <1>2, <1>4 DEF QueueInv, SyncTypeOK, m
<1>9. CallTypes'
  BY <1>6, <1>7, <1>8 DEF QueueInv, SyncTypeOK, CallTypes
<1>10. DBCandidatesFirst' /\ DoneFollows'
  BY <1>1, <1>2, <1>4, <1>5, <1>6, SentAllIsTrue DEF QueueInv, DBCandidatesFirst, DoneFollows
<1> QED BY <1>7, <1>9, <1>10 DEF QueueParts

\* The scheduler takes over the reply to a connect call or a poll.
LEMMA CallEnds ==
    ASSUME QueueInv, NEW s \in Scheduler, schedulerInit(s) \/ finishPoll(s)
    PROVE  QueueParts'
<1>1. msg' = [msg EXCEPT ![s] = NoMsg] /\ msg[s].kind \in {"connecting", "reply"}
  BY DEF schedulerInit, finishPoll
<1>2. /\ msg'[s] = NoMsg /\ inTransit(s)' = {}
      /\ \A t \in Scheduler : t # s => msg'[t] = msg[t] /\ inTransit(t)' = inTransit(t)
  BY <1>1, NewMessage, NoMsgIsNone
<1>3. UNCHANGED <<raceQueue, raceCorpusDBDone, cands, events>>
  BY DEF schedulerInit, finishPoll, mgrVars, bounds
<1>4. inTransit(s) = msg[s].cands
  BY <1>1 DEF inTransit, inReply
<1>5. /\ work'[s] \subseteq work[s] \cup inTransit(s)
      /\ \A t \in Scheduler : t # s => work'[t] = work[t]
  BY <1>4 DEF QueueInv, SyncTypeOK, schedulerInit, finishPoll
<1>6. Numbered' /\ OnePlace'
  BY <1>2, <1>3, <1>5, Delivered
<1>7. CallTypes'
  BY <1>1, <1>3 DEF QueueInv, SyncTypeOK, CallTypes
<1>8. /\ dbDone'[s] => dbDone[s] \/ (msg[s].kind = "reply" /\ msg[s].done)
      /\ \A t \in Scheduler : t # s => dbDone'[t] = dbDone[t]
  <2>1. DOMAIN dbDone = Scheduler
    BY DEF QueueInv, SyncTypeOK
  <2>2. CASE schedulerInit(s)
    <3>1. dbDone' = dbDone
      BY <2>2 DEF schedulerInit
    <3> QED BY <3>1, Zenon
  <2>3. CASE finishPoll(s)
    BY <2>1, <2>3 DEF finishPoll
  <2> QED BY <2>2, <2>3
<1>9. DBCandidatesFirst' /\ DoneFollows'
  BY <1>2, <1>3, <1>8 DEF QueueInv, DBCandidatesFirst, DoneFollows, NoMsg
<1> QED BY <1>6, <1>7, <1>9 DEF QueueParts

\* A crash loses the candidates of the scheduler.
LEMMA CrashKeepsQueue ==
    ASSUME QueueInv, NEW s \in Scheduler, scheduler_crash(s)
    PROVE  QueueParts'
<1>1. /\ msg' = [msg EXCEPT ![s] = NoMsg] /\ work' = [work EXCEPT ![s] = {}]
      /\ dbDone' = [dbDone EXCEPT ![s] = FALSE]
      /\ UNCHANGED <<raceQueue, raceCorpusDBDone, cands>>
      /\ events' \in 0..MaxEvents /\ events <= events'
  BY SyncAssumption DEF QueueInv, SyncTypeOK, scheduler_crash, mgrVars
<1>2. /\ msg'[s] = NoMsg /\ inTransit(s)' = {}
      /\ \A t \in Scheduler : t # s => msg'[t] = msg[t] /\ inTransit(t)' = inTransit(t)
  BY <1>1, NewMessage, NoMsgIsNone
<1>3. \A t \in Scheduler : work'[t] \subseteq work[t]
  BY <1>1 DEF QueueInv, SyncTypeOK
<1>4. Numbered' /\ OnePlace'
  BY <1>1, <1>2, <1>3, Fewer, Unmoved
<1>5. CallTypes'
  BY <1>1 DEF QueueInv, SyncTypeOK, CallTypes
<1>6. \A t \in Scheduler : dbDone'[t] => t # s /\ dbDone[t]
  BY <1>1 DEF QueueInv, SyncTypeOK
<1>7. DBCandidatesFirst' /\ DoneFollows'
  BY <1>1, <1>2, <1>6 DEF QueueInv, DBCandidatesFirst, DoneFollows, NoMsg
<1> QED BY <1>4, <1>5, <1>7 DEF QueueParts

\* A poll reports the length of the work queue.
LEMMA RequestKeepsQueue ==
    ASSUME QueueInv, NEW s \in Scheduler, initPoll(s)
    PROVE  QueueParts'
<1> DEFINE m == [kind |-> "request", found |-> foundRaceToUpdate[s],
                 qlen |-> Cardinality(work[s])]
<1>1. /\ msg' = [msg EXCEPT ![s] = m]
      /\ UNCHANGED <<raceQueue, raceCorpusDBDone, work, dbDone, cands, events>>
  BY DEF initPoll, mgrVars, bounds
<1>2. m \in PollArgs /\ m.kind = "request"
  BY WorkBounded DEF QueueInv, SyncTypeOK, PollArgs
<1> HIDE DEF m
<1>3. /\ msg'[s] = m /\ inTransit(s)' = {}
      /\ \A t \in Scheduler : t # s => msg'[t] = msg[t] /\ inTransit(t)' = inTransit(t)
  BY <1>1, <1>2, NewMessage
<1>4. Numbered' /\ OnePlace'
  BY <1>1, <1>3, Fewer, Unmoved, QueueInvParts
<1>5. CallTypes'
  BY <1>1, <1>2 DEF QueueInv, SyncTypeOK, CallTypes
<1>6. DBCandidatesFirst' /\ DoneFollows'
  BY <1>1, <1>2, <1>3 DEF QueueInv, DBCandidatesFirst, DoneFollows
<1> QED BY <1>4, <1>5, <1>6 DEF QueueParts

\* A new candidate gets a new number, and goes to the end.
LEMMA PushKeepsQueue ==
    ASSUME QueueInv, NEW p \in Pair, FuzzerPoll({p})
    PROVE  QueueParts'
<1> DEFINE push == IF raceCorpusDBDone THEN {p} \ suppressedPairs ELSE {p}
           len == Cardinality(push)
           new == [i \in 1..len |-> [n |-> cands + i, pair |-> CHOOSE r \in push : TRUE]]
<1>1. push = {} \/ push = {p}
  OBVIOUS
<1>2. len \in {0, 1} /\ (len = 1 => push = {p})
  <2>1. CASE push = {}
    BY <2>1, FS_EmptySet
  <2>2. CASE push = {p}
    BY <2>2, FS_Singleton
  <2> QED BY <1>1, <2>1, <2>2
<1>3. /\ events + len <= MaxEvents /\ events' = events + len /\ cands' = cands + len
      /\ raceQueue' = raceQueue \o new
      /\ UNCHANGED <<raceCorpusDBDone, msg, work, dbDone>>
  BY DEF FuzzerPoll, clientVars
<1> HIDE DEF len
<1>4. /\ cands' \in 0..MaxCand /\ events' \in 0..MaxEvents /\ cands' \in Nat
      /\ cands' >= DBCands /\ cands' - DBCands <= events' /\ cands <= cands'
  BY <1>2, <1>3, SyncAssumption DEF QueueInv, SyncTypeOK, Numbered, MaxCand
<1>5. CASE len = 0
  <2>1. new = <<>>
    BY <1>5
  <2> HIDE DEF new
  <2>2. raceQueue' = raceQueue
    BY <1>3, <2>1, QueueInvParts
  <2>3. UNCHANGED <<cands, events>>
    BY <1>3, <1>5, QueueInvParts
  <2> QED BY <1>3, <2>2, <2>3, WorkDone
<1>6. CASE len = 1
  <2> DEFINE c == [n |-> cands + 1, pair |-> CHOOSE r \in push : TRUE]
  <2>1. c \in Cand /\ c.n = cands + 1 /\ c.n > DBCands
    <3>1. (CHOOSE r \in push : TRUE) \in Pair
      BY <1>2, <1>6
    <3>2. cands + 1 \in 1..MaxCand /\ cands + 1 > DBCands
      BY <1>3, <1>4, <1>6, QueueInvParts, CandNumbers, SyncAssumption
         DEF QueueInv, Numbered
    <3> HIDE DEF push
    <3> QED BY <3>1, <3>2 DEF Cand
  <2>2. new \in Seq(Cand) /\ Len(new) = 1 /\ new[1] = c
    <3>1. \A i \in 1..len : i = 1 /\ new[i] = c
      BY <1>6
    <3>2. DOMAIN new = 1..len /\ new = [i \in 1..len |-> new[i]] /\ len \in Nat /\ 1 \in 1..len
      BY <1>6
    <3> HIDE DEF new, c
    <3>3. new \in [1..len -> Cand]
      BY <2>1, <3>1, <3>2
    <3> QED BY <1>6, <3>1, <3>2, <3>3
  <2> HIDE DEF c, new
  <2>3. Len(raceQueue) \in Nat /\ DOMAIN raceQueue = 1..Len(raceQueue)
    BY QueueInvParts
  <2>4. /\ raceQueue' \in Seq(Cand) /\ DOMAIN raceQueue' = 1..(Len(raceQueue) + 1)
        /\ \A i \in 1..Len(raceQueue) : raceQueue'[i] = raceQueue[i]
        /\ raceQueue'[Len(raceQueue) + 1] = c
    <3>1. raceQueue' \in Seq(Cand) /\ Len(raceQueue') = Len(raceQueue) + 1
      <4>1. raceQueue \o new \in Seq(Cand) /\ Len(raceQueue \o new) = Len(raceQueue) + Len(new)
        BY <2>2, QueueInvParts, ConcatProperties, Zenon
      <4> QED BY <1>3, <2>2, <4>1
    <3>2. ASSUME NEW i \in 1..(Len(raceQueue) + 1)
          PROVE  raceQueue'[i] = IF i <= Len(raceQueue) THEN raceQueue[i]
                                 ELSE new[i - Len(raceQueue)]
      BY <1>3, <2>2, <2>3, <3>2, QueueInvParts, ConcatProperties
    <3>3. \A i \in 1..Len(raceQueue) : raceQueue'[i] = raceQueue[i]
      BY <2>3, <3>2
    <3>4. raceQueue'[Len(raceQueue) + 1] = c
      BY <2>2, <2>3, <3>2
    <3> QED BY <2>3, <3>1, <3>3, <3>4
  <2>5. ASSUME NEW i \in DOMAIN raceQueue'
        PROVE  \/ i \in DOMAIN raceQueue /\ raceQueue'[i] = raceQueue[i]
               \/ i = Len(raceQueue) + 1 /\ raceQueue'[i] = c
    BY <2>3, <2>4, <2>5
  <2>6. /\ cands' = cands + 1 /\ cands \in Int
        /\ \A d \in Cand : d.n \in Int
        /\ \A i \in DOMAIN raceQueue : raceQueue[i].n <= cands /\ raceQueue[i] \in Cand
        /\ \A s \in Scheduler : \A d \in work[s] \cup inTransit(s) : d.n <= cands
    BY <1>3, <1>6, <2>3, CandNumbers, QueueInvParts DEF QueueInv, Numbered
  <2>7. ascending(raceQueue')
    <3> SUFFICES ASSUME NEW i \in DOMAIN raceQueue', NEW j \in DOMAIN raceQueue', i < j
                 PROVE  raceQueue'[i].n < raceQueue'[j].n
      BY DEF ascending
    <3>1. i \in DOMAIN raceQueue /\ raceQueue'[i] = raceQueue[i]
      BY <2>3, <2>4
    <3>2. CASE j \in DOMAIN raceQueue /\ raceQueue'[j] = raceQueue[j]
      BY <3>1, <3>2, QueueInvParts DEF ascending
    <3>3. CASE raceQueue'[j] = c
      BY <2>1, <2>6, <3>1, <3>3
    <3> QED BY <2>5, <3>2, <3>3
  <2>8. \A s \in Scheduler : inTransit(s)' = inTransit(s)
    BY <1>3 DEF inTransit, inReply
  <2>9. \A s \in Scheduler : \A d \in work[s] \cup inTransit(s) : d.n \in Int
    <3>1. \A s \in Scheduler : work[s] \subseteq Cand /\ inTransit(s) \subseteq Cand
      BY NoMsgIsNone DEF QueueInv, SyncTypeOK, inTransit, inReply, Connecting, PollArgs, PollRes
    <3> QED BY <2>6, <3>1
  <2>10. Numbered'
    <3>1. \A i \in DOMAIN raceQueue' : raceQueue'[i].n <= cands'
      BY <2>1, <2>5, <2>6
    <3>2. \A s \in Scheduler : \A d \in work'[s] \cup inTransit(s)' : d.n <= cands'
      BY <1>3, <2>6, <2>8, <2>9
    <3> QED BY <1>4, <2>7, <3>1, <3>2 DEF Numbered
  <2>11. OnePlace'
    <3>1. \A s \in Scheduler, i \in DOMAIN raceQueue' :
             \A d \in work[s] \cup inTransit(s) : raceQueue'[i].n # d.n
      BY <2>1, <2>5, <2>6, <2>9 DEF QueueInv, OnePlace
    <3> QED BY <1>3, <2>8, <3>1 DEF QueueInv, OnePlace
  <2>12. CallTypes'
    BY <1>3, <1>4, <2>4 DEF QueueInv, SyncTypeOK, CallTypes
  <2>13. DBCandidatesFirst' /\ DoneFollows'
    <3>1. ~FromDB(c)
      BY <2>1, SyncAssumption, QueueInvParts DEF FromDB
    <3> QED BY <1>3, <2>5, <3>1 DEF QueueInv, DBCandidatesFirst, DoneFollows
  <2> QED BY <2>10, <2>11, <2>12, <2>13 DEF QueueParts
<1> QED BY <1>2, <1>5, <1>6

\* The candidates of the databases are numbered in the order of the queue.
LEMMA QueueInitInv == ASSUME SyncInit PROVE QueueInv
<1>1. PICK p \in [1..DBCands -> Pair] :
         raceQueue = [n \in 1..DBCands |-> [n |-> n, pair |-> p[n]]]
  BY DEF SyncInit
<1>2. DBCands \in Nat /\ MaxEvents \in Nat /\ MaxCand \in Nat /\ DBCands <= MaxCand
  BY SyncAssumption DEF MaxCand
<1>3. /\ DOMAIN raceQueue = 1..DBCands
      /\ \A i \in 1..DBCands : raceQueue[i] \in Cand /\ raceQueue[i].n = i
  BY <1>1, <1>2 DEF Cand
<1>4. raceQueue \in Seq(Cand)
  <2>1. raceQueue \in [1..DBCands -> Cand]
    BY <1>1, <1>3
  <2> QED BY <1>2, <2>1
<1>5. \A s \in Scheduler : msg[s] = NoMsg /\ inTransit(s) = {} /\ work[s] = {}
  BY NoMsgIsNone DEF SyncInit, inTransit, inReply
<1>6. FieldTypes
  BY DEF SyncInit, FieldTypes
<1>7. CallTypes
  BY <1>2, <1>4 DEF SyncInit, CallTypes
<1>8. Numbered
  BY <1>2, <1>3, <1>5 DEF SyncInit, Numbered, ascending
<1>9. OnePlace
  BY <1>5 DEF OnePlace
<1>10. DBCandidatesFirst /\ DoneFollows
  <2>1. raceCorpusDBDone => DOMAIN raceQueue = {}
    <3>1. raceCorpusDBDone => DBCands = 0
      BY DEF SyncInit
    <3> QED BY <1>3, <3>1
  <2>2. \A s \in Scheduler : ~dbDone[s] /\ msg[s].kind # "reply"
    BY <1>5, NoMsgIsNone DEF SyncInit
  <2> QED BY <2>1, <2>2 DEF DBCandidatesFirst, DoneFollows
<1> QED BY <1>6, <1>7, <1>8, <1>9, <1>10, QueueInvParts DEF QueueParts

\* Every step keeps the invariant of the candidates.
LEMMA QueueInvStep ==
    ASSUME QueueInv, SyncNext
    PROVE  QueueInv'
<1>1. ASSUME NEW s \in Scheduler, NEW c \in work[s],
             candidate_races(s, c) \/ candidate_no_race(s, c)
      PROVE  QueueParts'
  <2>1. /\ UNCHANGED <<raceQueue, raceCorpusDBDone, dbDone, msg, cands, events>>
        /\ work' = [work EXCEPT ![s] = @ \ {c}]
    BY <1>1 DEF candidate_races, candidate_no_race, mgrVars, bounds
  <2>2. \A t \in Scheduler : work'[t] \subseteq work[t]
    BY <2>1 DEF QueueInv, SyncTypeOK
  <2> QED BY <2>1, <2>2, WorkDone
<1>2. ASSUME NEW s \in Scheduler, NEW p \in Pair, likely_races(s, p) \/ triageInput(s, p)
      PROVE  QueueParts'
  <2>1. UNCHANGED <<raceQueue, raceCorpusDBDone, dbDone, msg, cands, events, work>>
    BY <1>2 DEF likely_races, triageInput, mgrVars, bounds
  <2> QED BY <2>1, WorkDone
<1>3. QueueParts'
  BY <1>1, <1>2, SuppressionKeepsQueue, ConnectKeepsQueue, CallEnds, RequestKeepsQueue,
     PollKeepsQueue, CrashKeepsQueue, PushKeepsQueue
     DEF SyncNext, connectStep, pollStep, executeCandidate
<1>4. FieldTypes'
  BY FieldTypesStep
<1> QED BY <1>3, <1>4, QueueInvParts, PTL

\* The candidates' invariant holds for any number of schedulers, whatever is
\* popped, cleaned up or lost in a crash.
THEOREM QueueInvHolds == SyncSpec => []QueueInv
<1>1. SyncInit => QueueInv
  BY QueueInitInv
<1>2. QueueInv /\ UNCHANGED vars => QueueInv'
  <2> SUFFICES ASSUME QueueInv, UNCHANGED vars PROVE QueueInv'
    OBVIOUS
  <2>1. UNCHANGED <<mgrVars, connVars, clientVars, msg, bounds>>
    BY DEF vars
  <2>2. QueueParts'
    BY <2>1, WorkDone DEF mgrVars, clientVars, bounds
  <2>3. FieldTypes'
    BY <2>1, QueueInvParts DEF FieldTypes, mgrVars, connVars, clientVars
  <2> QED BY <2>2, <2>3, QueueInvParts, PTL
<1> QED BY <1>1, <1>2, QueueInvStep, PTL DEF SyncSpec

\* SyncTypeOK: manager, schedulers and the calls between them keep their types;
\* in particular the length of a work queue in a poll is bounded by the number
\* of candidates.
THEOREM SyncTypeCorrect == SyncSpec => []SyncTypeOK
<1>1. QueueInv => SyncTypeOK
  BY DEF QueueInv
<1> QED BY <1>1, QueueInvHolds, PTL

\* DBCandidatesFirst: when the manager reports that all candidates of the
\* databases are sent, none is left in the queue, and no scheduler is told so
\* before.
THEOREM DBCandidatesGoFirst == SyncSpec => []DBCandidatesFirst
<1>1. QueueInv => DBCandidatesFirst
  BY DEF QueueInv
<1> QED BY <1>1, QueueInvHolds, PTL

\* A set in which any two members are the same.
LEMMA AtMostOne ==
    ASSUME NEW S, \A x, y \in S : x = y
    PROVE  Cardinality(S) \in {0, 1} /\ (S = {} => Cardinality(S) = 0)
<1>1. CASE S = {}
  BY <1>1, FS_EmptySet
<1>2. CASE S # {}
  <2>1. PICK x : x \in S
    BY <1>2
  <2>2. S = {x}
    BY <2>1
  <2> QED BY <1>2, <2>2, FS_Singleton
<1> QED BY <1>1, <1>2

\* CandidateHeldOnce: whatever is popped, cleaned up or lost, a candidate is
\* once in the queue, in one reply or with one scheduler.
THEOREM CandidatesAreHeldOnce == SyncSpec => []CandidateHeldOnce
<1>1. ASSUME QueueInv PROVE CandidateHeldOnce
  <2> SUFFICES
        ASSUME NEW n \in 1..MaxCand
        PROVE  LET queued == {i \in DOMAIN raceQueue : raceQueue[i].n = n}
                   sent == {s \in Scheduler :
                              /\ inReply(s, {"connecting", "reply"})
                              /\ \E c \in msg[s].cands : c.n = n}
                   held == {s \in Scheduler : \E c \in work[s] : c.n = n}
               IN  Cardinality(queued) + Cardinality(sent) + Cardinality(held) <= 1
    BY DEF CandidateHeldOnce
  <2> DEFINE queued == {i \in DOMAIN raceQueue : raceQueue[i].n = n}
             sent == {s \in Scheduler : /\ inReply(s, {"connecting", "reply"})
                                        /\ \E c \in msg[s].cands : c.n = n}
             held == {s \in Scheduler : \E c \in work[s] : c.n = n}
  <2>1. \A s \in sent : \E c \in inTransit(s) : c.n = n
    BY DEF inTransit
  <2>2. \A i, j \in queued : i = j
    <3>1. \A i \in DOMAIN raceQueue : i \in Int /\ raceQueue[i].n \in Int
      BY <1>1, QueueInvParts, CandNumbers
    <3> QED BY <1>1, <3>1, QueueInvParts DEF ascending
  <2>3. \A s, t \in sent : s = t
    BY <1>1, <2>1 DEF QueueInv, OnePlace
  <2>4. \A s, t \in held : s = t
    BY <1>1 DEF QueueInv, OnePlace
  <2>5. /\ queued = {} \/ (sent = {} /\ held = {})
        /\ sent = {} \/ held = {}
    <3>1. \A i \in queued, s \in sent : FALSE
      BY <1>1, <2>1 DEF QueueInv, OnePlace
    <3>2. \A i \in queued, s \in held : FALSE
      BY <1>1 DEF QueueInv, OnePlace
    <3>3. \A s \in held, t \in sent : FALSE
      BY <1>1, <2>1 DEF QueueInv, OnePlace
    <3> HIDE DEF queued, sent, held
    <3> QED BY <3>1, <3>2, <3>3, Zenon
  <2> HIDE DEF queued, sent, held
  <2>6. /\ Cardinality(queued) \in {0, 1} /\ (queued = {} => Cardinality(queued) = 0)
        /\ Cardinality(sent) \in {0, 1} /\ (sent = {} => Cardinality(sent) = 0)
        /\ Cardinality(held) \in {0, 1} /\ (held = {} => Cardinality(held) = 0)
    BY <2>2, <2>3, <2>4, AtMostOne
  <2>7. Cardinality(queued) + Cardinality(sent) + Cardinality(held) <= 1
    BY <2>5, <2>6
  <2> QED BY <2>7 DEF queued, sent, held
<1> QED BY <1>1, QueueInvHolds, PTL
=============================================================================
