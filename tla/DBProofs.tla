------------------------------ MODULE DBProofs ------------------------------
(***************************************************************************)
(* Proofs for module DB: for any keys, values, number of databases and     *)
(* bounds, an intact file mirrors the Records, and a crash at any point    *)
(* leaves a content the database once had.                                 *)
(***************************************************************************)
EXTENDS DB, DBOpsProofs

DBInv ==
    /\ DBTypeOK
    /\ \A n \in Name : Good(dbs[n], past[n])

\* An operation on one database keeps the invariant if its result is good.
LEMMA BecomesGood ==
    ASSUME DBInv, NEW n \in Name, NEW db,
           Good(db, past[n] \cup {db.Records}), becomes(n, db)
    PROVE  DBInv'
<1>1. db \in Database /\ db.Records \in Content
  BY DEF Good, Database
<1>2. DBTypeOK'
  BY <1>1 DEF DBInv, DBTypeOK, becomes
<1>3. ASSUME NEW m \in Name
      PROVE  Good(dbs'[m], past'[m])
  <2>1. CASE m = n
    <3>1. dbs'[m] = db /\ past'[m] = past[n] \cup {db.Records}
      BY <2>1 DEF DBInv, DBTypeOK, becomes
    <3> QED BY <3>1
  <2>2. CASE m # n
    <3>1. dbs'[m] = dbs[m] /\ past'[m] = past[m]
      BY <2>2 DEF DBInv, DBTypeOK, becomes
    <3> QED BY <3>1 DEF DBInv
  <2> QED BY <2>1, <2>2
<1> QED BY <1>2, <1>3 DEF DBInv

\* All processes end; what is on disk is a past content of each database.
LEMMA AllClosedGood ==
    ASSUME DBInv, UNCHANGED past,
           NEW F \in [Name -> Seq(Entry)],
           \A m \in Name : deserializeDB(F[m]) \in past[m],
           dbs' = [m \in Name |-> closed(F[m])]
    PROVE  DBInv'
<1>1. ASSUME NEW m \in Name
      PROVE  dbs'[m] = closed(F[m]) /\ Good(closed(F[m]), past[m])
  BY ClosedIsGood
<1>2. \A m \in Name : closed(F[m]) \in Database
  BY <1>1 DEF Good
<1>3. DBTypeOK'
  BY <1>2 DEF DBInv, DBTypeOK
<1> QED BY <1>1, <1>3 DEF DBInv

\* The invariant of the databases: every step of pkg/db, and a crash at any
\* point, keeps it.
THEOREM DBInvHolds == Spec => []DBInv
<1>1. Init => DBInv
  <2> SUFFICES ASSUME Init PROVE DBInv
    OBVIOUS
  <2>1. <<>> \in Seq(Entry) /\ deserializeDB(<<>>) = Absent
    <3>1. \A k \in Key : hits(<<>>, k) = {}
      BY DEF hits, readable
    <3> QED BY <3>1 DEF deserializeDB, Absent
  <2>2. Good(closed(<<>>), {Absent})
    BY <2>1, ClosedIsGood
  <2>3. Absent \in Content
    BY DEF Absent, Content
  <2>4. closed(<<>>) \in Database
    BY <2>2 DEF Good
  <2>5. DBTypeOK
    BY <2>3, <2>4 DEF Init, DBTypeOK
  <2>6. \A n \in Name : dbs[n] = closed(<<>>) /\ past[n] = {Absent}
    BY DEF Init
  <2> QED BY <2>2, <2>5, <2>6 DEF DBInv
<1>2. DBInv /\ [Next]_dbVars => DBInv'
  <2> SUFFICES ASSUME DBInv, [Next]_dbVars PROVE DBInv'
    OBVIOUS
  <2>1. CASE crash
    <3> DEFINE F == [m \in Name |-> dbs[m].file]
    <3>1. /\ F \in [Name -> Seq(Entry)]
          /\ \A m \in Name : deserializeDB(F[m]) \in past[m]
      BY FileIsPast DEF DBInv
    <3>2. dbs' = [m \in Name |-> closed(F[m])] /\ UNCHANGED past
      BY <2>1 DEF crash
    <3> HIDE DEF F
    <3> QED BY <3>1, <3>2, AllClosedGood
  <2>2. ASSUME NEW n \in Name, db_open(n) PROVE DBInv'
    <3>1. dbs[n].file \in Seq(Entry) /\ deserializeDB(dbs[n].file) \in past[n]
      BY FileIsPast DEF DBInv
    <3>2. PICK order \in Orders(deserializeDB(dbs[n].file)) :
            becomes(n, Open(dbs[n].file, order))
      BY <2>2 DEF db_open
    <3> QED BY <3>1, <3>2, OpenIsGood, BecomesGood
  <2>3. ASSUME NEW n \in Name, db_flush(n) PROVE DBInv'
    <3>1. PICK order \in Orders(dbs[n].Records) : becomes(n, Flush(dbs[n], order))
      BY <2>3 DEF db_flush
    <3>2. dbs[n].open /\ Good(dbs[n], past[n])
      BY <2>3 DEF db_flush, DBInv
    <3> QED BY <3>1, <3>2, FlushIsGood, BecomesGood
  <2>4. ASSUME NEW n \in Name, db_bump_version(n) PROVE DBInv'
    <3>1. PICK order \in Orders(dbs[n].Records), changes \in BOOLEAN :
            becomes(n, BumpVersion(dbs[n], changes, order))
      BY <2>4 DEF db_bump_version
    <3>2. dbs[n].open /\ Good(dbs[n], past[n])
      BY <2>4 DEF db_bump_version, DBInv
    <3> QED BY <3>1, <3>2, BumpVersionIsGood, BecomesGood
  <2>5. ASSUME NEW n \in Name, crash_in_flush(n) PROVE DBInv'
    <3>1. PICK w \in 0..(Len(dbs[n].pending) - 1), torn \in BOOLEAN :
            dbs' = [m \in Name |-> closed(IF m = n THEN cut_off(dbs[n], w, torn)
                                          ELSE dbs[m].file)]
      BY <2>5 DEF crash_in_flush
    <3> DEFINE F == [m \in Name |-> IF m = n THEN cut_off(dbs[n], w, torn)
                                    ELSE dbs[m].file]
    <3>2. Good(dbs[n], past[n])
      BY DEF DBInv
    <3>3. /\ cut_off(dbs[n], w, torn) \in Seq(Entry)
          /\ deserializeDB(cut_off(dbs[n], w, torn)) \in past[n]
      BY <3>2, CutOffIsPast
    <3>4. /\ F \in [Name -> Seq(Entry)]
          /\ \A m \in Name : deserializeDB(F[m]) \in past[m]
      BY <3>3, FileIsPast DEF DBInv
    <3>5. dbs' = [m \in Name |-> closed(F[m])] /\ UNCHANGED past
      BY <2>5, <3>1 DEF crash_in_flush
    <3> HIDE DEF F
    <3> QED BY <3>4, <3>5, AllClosedGood
  <2>6. ASSUME NEW n \in Name, NEW k \in Key, NEW v \in Val \cup {None},
               dbs[n].open,
               becomes(n, dbs[n]) \/ becomes(n, write(dbs[n], k, v))
        PROVE  DBInv'
    <3>1. Good(dbs[n], past[n])
      BY DEF DBInv
    <3>2. CASE becomes(n, dbs[n])
      <4>1. Good(dbs[n], past[n] \cup {dbs[n].Records})
        BY <3>1, GoodWhenMoreIsPast
      <4> QED BY <3>2, <4>1, BecomesGood
    <3>3. CASE becomes(n, write(dbs[n], k, v))
      BY <2>6, <3>1, <3>3, WriteIsGood, BecomesGood
    <3> QED BY <2>6, <3>2, <3>3
  <2>7. ASSUME NEW n \in Name, NEW k \in Key, db_delete(n, k) PROVE DBInv'
    <3>1. dbs[n].open /\ (becomes(n, dbs[n]) \/ becomes(n, write(dbs[n], k, None)))
      BY <2>7 DEF db_delete, Delete
    <3> QED BY <2>6, <3>1
  <2>8. ASSUME NEW n \in Name, NEW k \in Key, NEW v \in Val, db_save(n, k, v)
        PROVE  DBInv'
    <3>1. dbs[n].open /\ (becomes(n, dbs[n]) \/ becomes(n, write(dbs[n], k, v)))
      BY <2>8 DEF db_save, Save
    <3> QED BY <2>6, <3>1
  <2>9. CASE UNCHANGED dbVars
    BY <2>9 DEF DBInv, DBTypeOK, dbVars
  <2> QED BY <2>1, <2>2, <2>3, <2>4, <2>5, <2>7, <2>8, <2>9 DEF Next
<1> QED BY <1>1, <1>2, PTL DEF Spec

\* Type correctness of the databases and of the files they read.
THEOREM DBTypeCorrect == Spec => []DBTypeOK
<1>1. DBInv => DBTypeOK
  BY DEF DBInv
<1> QED BY <1>1, DBInvHolds, PTL

\* An intact file with the pending writes mirrors the Records (the package
\* comment of db.go).
THEOREM IntactFileMirrors == Spec => []MirroredIfIntact
<1>1. DBInv => MirroredIfIntact
  BY DEF DBInv, Good, MirroredIfIntact
<1> QED BY <1>1, DBInvHolds, PTL

\* Whenever the process is killed, the next Open reads a content the database
\* once had.
THEOREM CrashLeavesPastContent == Spec => []OpensToPastContent
<1>1. DBInv => OpensToPastContent
  BY FileIsPast DEF DBInv, OpensToPastContent
<1> QED BY <1>1, DBInvHolds, PTL

\* Open and Flush leave no file that the compaction rule would rewrite.
THEOREM FlushedFileIsBounded == Spec => []FileBounded
<1>1. DBInv => FileBounded
  BY DEF DBInv, Good, FileBounded
<1> QED BY <1>1, DBInvHolds, PTL
=============================================================================
