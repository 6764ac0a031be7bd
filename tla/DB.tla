--------------------------------- MODULE DB ---------------------------------
(***************************************************************************)
(* Databases of pkg/db in a process that may die at any point, a write of  *)
(* Flush included.                                                         *)
(***************************************************************************)
EXTENDS DBOps

CONSTANTS
    Name,    \* the databases (file names)
    MaxLog   \* bound on the records in a file and its pending writes

ASSUME MaxLogAssumption == MaxLog \in Nat

VARIABLES
    dbs,   \* dbs[n]: the database n, see Database
    past   \* history: past[n] is the set of contents n ever had

dbVars == <<dbs, past>>

DBTypeOK ==
    /\ dbs \in [Name -> Database]
    /\ past \in [Name -> SUBSET Content]

----------------------------------------------------------------------------
Init ==
    /\ dbs = [n \in Name |-> closed(<<>>)]
    /\ past = [n \in Name |-> {Absent}]

\* The database changes to db.
becomes(n, db) ==
    /\ dbs' = [dbs EXCEPT ![n] = db]
    /\ past' = [past EXCEPT ![n] = @ \cup {db.Records}]

db_open(n) ==
    /\ ~dbs[n].open
    /\ \E order \in Orders(deserializeDB(dbs[n].file)) :
          becomes(n, Open(dbs[n].file, order))

db_save(n, k, v) ==
    /\ dbs[n].open
    /\ Len(dbs[n].file) + Len(dbs[n].pending) < MaxLog
    /\ becomes(n, Save(dbs[n], k, v))

db_delete(n, k) ==
    /\ dbs[n].open
    /\ Len(dbs[n].file) + Len(dbs[n].pending) < MaxLog
    /\ becomes(n, Delete(dbs[n], k))

db_flush(n) ==
    /\ dbs[n].open
    /\ \E order \in Orders(dbs[n].Records) : becomes(n, Flush(dbs[n], order))

db_bump_version(n) ==
    /\ dbs[n].open
    /\ \E order \in Orders(dbs[n].Records), changes \in BOOLEAN :
          becomes(n, BumpVersion(dbs[n], changes, order))

\* The process ends; nothing else is written.
crash ==
    /\ dbs' = [n \in Name |-> closed(dbs[n].file)]
    /\ UNCHANGED past

\* The process dies in the write of Flush: killed, or ended by its caller when
\* the write fails half way.  Flush itself returns the error and keeps pending;
\* in syz-manager every caller makes it fatal.
crash_in_flush(n) ==
    /\ dbs[n].open
    /\ ~must_compact(dbs[n].uncompacted, dbs[n].Records)
    /\ \E whole \in 0..(Len(dbs[n].pending) - 1), torn \in BOOLEAN :
          dbs' = [m \in Name |-> closed(IF m = n THEN cut_off(dbs[n], whole, torn)
                                        ELSE dbs[m].file)]
    /\ UNCHANGED past

Next ==
    \/ crash
    \/ \E n \in Name : \/ db_open(n) \/ db_flush(n) \/ db_bump_version(n)
                       \/ crash_in_flush(n)
                       \/ \E k \in Key : db_delete(n, k)
                       \/ \E k \in Key, v \in Val : db_save(n, k, v)

Spec == Init /\ [][Next]_dbVars

----------------------------------------------------------------------------
(* Properties. *)

\* "The database is cached in memory and mirrored on disk": reading the file
\* and the pending writes back gives the Records, as long as the file has no
\* cut-off record.
MirroredIfIntact ==
    \A n \in Name : dbs[n].open /\ intact(dbs[n].file) =>
        deserializeDB(dbs[n].file \o dbs[n].pending) = dbs[n].Records

\* What a crash leaves is a content the database once had: writes are applied
\* in order, none twice, none without the ones before it.
OpensToPastContent ==
    \A n \in Name : deserializeDB(dbs[n].file) \in past[n]

\* A flushed file holds few obsolete records: the compaction rule is
\* re-established by every Open and Flush, so the file cannot grow for ever.
FileBounded ==
    \A n \in Name : dbs[n].open /\ intact(dbs[n].file) /\ dbs[n].pending = <<>> =>
        ~must_compact(Len(dbs[n].file), dbs[n].Records)
=============================================================================
