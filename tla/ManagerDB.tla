----------------------------- MODULE ManagerDB ------------------------------
(***************************************************************************)
(* The corpora syz-manager keeps on disk.  A corpus of racy programs has   *)
(* two databases of pkg/db: the primary one with the programs and the      *)
(* auxiliary one with their RaceInfo, under the same key, the hash of      *)
(* both.  A handler holds mgr.mu throughout, but it flushes the databases  *)
(* one after the other, and the manager may be killed at any point; todo   *)
(* holds the writes that the handler under way still has to do.            *)
(*                                                                         *)
(* clearDB is not an action: its callers require that                      *)
(* time.Until(mgr.startTime), which is never positive, exceed 10 or 30     *)
(* minutes.                                                                *)
(***************************************************************************)
EXTENDS DBOps

CONSTANTS
    Prog,    \* programs
    Hash,    \* memory pairs, each with one RaceInfo
    MaxLog,  \* bound on the records in a file and its pending writes
    MaxInterrupts   \* bound on the handlers that are killed half way

\* computeSig: a key stands for the program and its RaceInfo.
ASSUME MgrAssumption ==
    /\ Key = [prog : Prog, hash : Hash]
    /\ Val = Prog \cup Hash
    /\ None \notin Key
    /\ MaxLog \in Nat /\ MaxInterrupts \in Nat

Name == {"racecorpus", "raceInfo", "likelycorpus", "likelyRaceInfo"}
RACECORPUSDB == [primary |-> "racecorpus", auxiliary |-> "raceInfo"]
LIKELYCORPUSDB == [primary |-> "likelycorpus", auxiliary |-> "likelyRaceInfo"]

VARIABLES
    dbs,                \* the databases
    mgr,                \* the manager, see MgrState
    todo,               \* writes left to the handler that holds mgr.mu
    raceCorpus,         \* the keys of mgr.raceCorpus
    likelyRaceCorpus,   \* the key of the input kept for a memory pair, or None
    trueRaceHashes,     \* the memory pairs known to race
    interrupted         \* history: how often a handler was killed half way

mgrVars == <<dbs, mgr, todo, raceCorpus, likelyRaceCorpus, trueRaceHashes,
             interrupted>>

\* loading: the race corpus is loaded, the likely corpus is not yet.
MgrState == {"down", "loading", "running", "panic", "fatal"}

MgrTypeOK ==
    /\ dbs \in [Name -> Database]
    /\ mgr \in MgrState
    /\ todo \in Seq([db : Name, key : Key, val : Val \cup {None}])
    /\ raceCorpus \in SUBSET Key
    /\ likelyRaceCorpus \in [Hash -> Key \cup {None}]
    /\ trueRaceHashes \in SUBSET Hash
    /\ interrupted \in 0..MaxInterrupts

no_input == [h \in Hash |-> None]

Init ==
    /\ dbs = [n \in Name |-> closed(<<>>)]
    /\ mgr = "down" /\ todo = <<>> /\ raceCorpus = {} /\ likelyRaceCorpus = no_input
    /\ trueRaceHashes = {} /\ interrupted = 0

----------------------------------------------------------------------------
(* Start. *)

\* Everything in memory is gone.
ends(files) ==
    /\ dbs' = [n \in Name |-> closed(files[n])]
    /\ todo' = <<>> /\ raceCorpus' = {} /\ likelyRaceCorpus' = no_input
    /\ trueRaceHashes' = {}

files == [n \in Name |-> dbs[n].file]

\* The keys of walk, which are all present, are deleted one after the other.
delete_all(db, walk) ==
    [db EXCEPT !.Records = [k \in Key |-> IF \E i \in DOMAIN walk : walk[i] = k
                                          THEN None ELSE @[k]],
               !.pending = @ \o [i \in DOMAIN walk |-> record(walk[i], None)],
               !.uncompacted = @ + Len(walk)]

\* d2 has its keys in the order in which d1 has them.
same_order(d1, d2) ==
    \A i, j \in DOMAIN d1, p, q \in DOMAIN d2 :
       d1[i] = d2[p] /\ d1[j] = d2[q] /\ i < j => p < q

\* Programs that cannot be deserialized (broken) are deleted from both
\* databases, to be flushed with the next write; programs with a disabled
\* call stay, but are not looked at; for all others there must be a RaceInfo.
loadDB(DB, next) ==
    \E broken, disabled \in SUBSET Key :
    \E o1 \in Orders(deserializeDB(dbs[DB.primary].file)),
       o2 \in Orders(deserializeDB(dbs[DB.auxiliary].file)) :
       LET primaryDB == Open(dbs[DB.primary].file, o1)
           auxiliaryDB == Open(dbs[DB.auxiliary].file, o2)
           keys == present(primaryDB.Records)
           deleted == keys \cap broken
           opened == [dbs EXCEPT ![DB.primary] = primaryDB,
                                 ![DB.auxiliary] = auxiliaryDB]
       IN \/ /\ \A k \in keys \ (broken \cup disabled) : auxiliaryDB.Records[k] # None
             /\ \E d1 \in walks(deleted),
                   d2 \in walks(deleted \cap present(auxiliaryDB.Records)) :
                   /\ same_order(d1, d2)
                   /\ dbs' = [opened EXCEPT ![DB.primary] = delete_all(@, d1),
                                            ![DB.auxiliary] = delete_all(@, d2)]
             /\ mgr' = next
             /\ UNCHANGED <<todo, raceCorpus, likelyRaceCorpus, trueRaceHashes>>
          \/ /\ \E k \in keys \ (broken \cup disabled) : auxiliaryDB.Records[k] = None
             /\ ends([n \in Name |-> opened[n].file])
             /\ mgr' = "panic"

load_race_corpus ==
    /\ mgr \in {"down", "panic"}
    /\ loadDB(RACECORPUSDB, "loading")
    /\ UNCHANGED interrupted

load_likely_corpus ==
    /\ mgr = "loading"
    /\ loadDB(LIKELYCORPUSDB, "running")
    /\ UNCHANGED interrupted

----------------------------------------------------------------------------
(* Handlers.  They return early without effect in the cases left out: the  *)
(* input has no new signal, or the random draw keeps the present input.    *)

SaveDB(DB, k) == << [db |-> DB.primary, key |-> k, val |-> k.prog],
                    [db |-> DB.auxiliary, key |-> k, val |-> k.hash] >>
\* Variant: the program stays.
Remove_info_only(DB, k) == << [db |-> DB.auxiliary, key |-> k, val |-> None] >>
Remove(DB, k) == << [db |-> DB.primary, key |-> k, val |-> None],
                    [db |-> DB.auxiliary, key |-> k, val |-> None] >>

idle == mgr = "running" /\ todo = <<>>
room(DB) == \A n \in {DB.primary, DB.auxiliary} :
               Len(dbs[n].file) + Len(dbs[n].pending) < MaxLog

NewRaceInput(k) ==
    /\ idle /\ room(RACECORPUSDB)
    /\ k \notin raceCorpus
    /\ raceCorpus' = raceCorpus \cup {k}
    /\ todo' = SaveDB(RACECORPUSDB, k)
    /\ UNCHANGED <<dbs, mgr, likelyRaceCorpus, trueRaceHashes, interrupted>>

\* Variant: the old input is removed after the new one was saved.
save_first(old, new) == SaveDB(LIKELYCORPUSDB, new) \o Remove(LIKELYCORPUSDB, old)
replace(old, new) == Remove(LIKELYCORPUSDB, old) \o SaveDB(LIKELYCORPUSDB, new)

NewLikelyRaceInput(k) ==
    /\ idle /\ room(LIKELYCORPUSDB)
    /\ k.hash \notin trueRaceHashes
    /\ todo' = IF likelyRaceCorpus[k.hash] = None THEN SaveDB(LIKELYCORPUSDB, k)
               ELSE replace(likelyRaceCorpus[k.hash], k)
    /\ likelyRaceCorpus' = [likelyRaceCorpus EXCEPT ![k.hash] = k]
    /\ UNCHANGED <<dbs, mgr, raceCorpus, trueRaceHashes, interrupted>>

\* SchedulerPoll reports a race: its likely input is dropped from memory, and
\* stays in the database.
updateNewTrueRace(h) ==
    /\ idle
    /\ h \notin trueRaceHashes
    /\ trueRaceHashes' = trueRaceHashes \cup {h}
    /\ likelyRaceCorpus' = [likelyRaceCorpus EXCEPT ![h] = None]
    /\ UNCHANGED <<dbs, mgr, todo, raceCorpus, interrupted>>

\* signal.Minimize keeps some inputs; known races have no likely input.
minimizeRaceCorpus ==
    /\ idle
    /\ raceCorpus' \in SUBSET raceCorpus
    /\ likelyRaceCorpus' = [h \in Hash |-> IF h \in trueRaceHashes THEN None
                                           ELSE likelyRaceCorpus[h]]
    /\ UNCHANGED <<dbs, mgr, todo, trueRaceHashes, interrupted>>

\* The write at the head of todo, in memory.
written(w) ==
    IF w.val = None THEN Delete(dbs[w.db], w.key) ELSE Save(dbs[w.db], w.key, w.val)

\* Variant: the write waits for a later Flush.
unflushed(db) == {db}
flushed(db) == {Flush(db, order) : order \in Orders(db.Records)}

\* The Fatalf of Remove, when a RaceInfo to be removed does not exist.
nothing_to_remove(w) ==
    /\ w.val = None /\ w.db \in {"raceInfo", "likelyRaceInfo"}
    /\ dbs[w.db].Records[w.key] = None

write_next ==
    /\ todo # <<>>
    /\ IF nothing_to_remove(Head(todo))
       THEN mgr' = "fatal" /\ ends(files)
       ELSE /\ \E db \in flushed(written(Head(todo))) :
                  dbs' = [dbs EXCEPT ![Head(todo).db] = db]
            /\ todo' = Tail(todo)
            /\ UNCHANGED <<mgr, raceCorpus, likelyRaceCorpus, trueRaceHashes>>
    /\ UNCHANGED interrupted

\* The manager is killed, between two writes of a handler or between handlers.
kill ==
    /\ mgr \in {"loading", "running"}
    /\ ends(files)
    /\ mgr' = "down"
    /\ IF todo = <<>> THEN UNCHANGED interrupted
       ELSE /\ interrupted < MaxInterrupts
            /\ interrupted' = interrupted + 1

\* The manager is killed, or the disk is full, in the middle of a write.
kill_in_write ==
    /\ todo # <<>> /\ ~nothing_to_remove(Head(todo))
    /\ LET w == Head(todo)
           db == written(w)
       IN /\ ~must_compact(db.uncompacted, db.Records)
          /\ \E whole \in 0..(Len(db.pending) - 1), torn \in BOOLEAN :
                ends([files EXCEPT ![w.db] = cut_off(db, whole, torn)])
    /\ mgr' = "down"
    /\ interrupted < MaxInterrupts
    /\ interrupted' = interrupted + 1

Next ==
    \/ load_race_corpus \/ load_likely_corpus
    \/ \E k \in Key : NewRaceInput(k) \/ NewLikelyRaceInput(k)
    \/ \E h \in Hash : updateNewTrueRace(h)
    \/ minimizeRaceCorpus \/ write_next \/ kill \/ kill_in_write

Spec == Init /\ [][Next]_mgrVars

----------------------------------------------------------------------------
(* Properties. *)

\* Remove always finds the RaceInfo ("Trying to remove the wrong raceinfo").
RemovalFindsInfo == mgr # "fatal"

\* Between two handlers every input of the corpora is in both databases, and,
\* unless a write was cut off earlier, on disk.
on_disk(n, k, v) ==
    /\ dbs[n].Records[k] = v
    /\ intact(dbs[n].file) => deserializeDB(dbs[n].file)[k] = v
CorporaOnDisk ==
    idle => /\ \A k \in raceCorpus : /\ on_disk("racecorpus", k, k.prog)
                                     /\ on_disk("raceInfo", k, k.hash)
            /\ \A h \in Hash : likelyRaceCorpus[h] # None =>
                 /\ on_disk("likelycorpus", likelyRaceCorpus[h], likelyRaceCorpus[h].prog)
                 /\ on_disk("likelyRaceInfo", likelyRaceCorpus[h], h)

\* A manager that is only ever killed between two handlers starts again.
CleanRestart == interrupted = 0 => mgr # "panic"

\* loadDB's assertion, without the proviso: every program has its RaceInfo.
NeverBrokenDB == mgr # "panic"
=============================================================================
