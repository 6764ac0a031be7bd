-------------------------- MODULE ManagerDBProofs ---------------------------
(***************************************************************************)
(* The corpora on disk, for any programs, memory pairs and bounds: Remove  *)
(* always finds the RaceInfo, an input in memory is on disk between two    *)
(* handlers, and a manager that no kill caught inside a handler starts     *)
(* again.                                                                  *)
(*                                                                         *)
(* Each property speaks about the moments between two handlers.  The       *)
(* invariant follows the handler from one write to the next: which writes  *)
(* are left (Handler), and what holds for the keys that are not among them *)
(* (Stored, InStep).                                                       *)
(***************************************************************************)
EXTENDS ManagerDB, DBOpsProofs

Pairs == {RACECORPUSDB, LIKELYCORPUSDB}

\* The handler under way has still to write key k of database n.
among(n, k, ws) == \E i \in DOMAIN ws : ws[i].db = n /\ ws[i].key = k
outstanding(n, k) == among(n, k, todo)

\* What database n holds for the input with key k.
RaceNames == {"racecorpus", "raceInfo"}
LikelyNames == {"likelycorpus", "likelyRaceInfo"}
value(n, k) == IF n \in {"racecorpus", "likelycorpus"} THEN k.prog ELSE k.hash

content(n) == deserializeDB(dbs[n].file)

\* Which databases are open, and when the corpora are empty.
Running ==
    /\ mgr # "fatal"
    /\ todo # <<>> => mgr = "running"
    /\ mgr = "running" => \A n \in Name : dbs[n].open
    /\ mgr = "loading" => \A n \in RaceNames : dbs[n].open
    /\ mgr # "running" => raceCorpus = {} /\ likelyRaceCorpus = no_input
    /\ \A n \in Name : ~dbs[n].open => dbs[n].Records = Absent

\* How far the handler under way has come: before an auxiliary database is
\* written, the primary one has been flushed.
Handler ==
    \/ todo = <<>>
    \/ \E k \in raceCorpus :
          \/ todo = SaveDB(RACECORPUSDB, k)
          \/ /\ todo = Tail(SaveDB(RACECORPUSDB, k))
             /\ dbs["racecorpus"].pending = <<>>
    \/ \E k \in Key :
          /\ likelyRaceCorpus[k.hash] = k
          /\ \/ todo = SaveDB(LIKELYCORPUSDB, k)
             \/ /\ todo = Tail(SaveDB(LIKELYCORPUSDB, k))
                /\ dbs["likelycorpus"].pending = <<>>
             \/ \E old \in Key :
                   /\ old.hash = k.hash /\ dbs["likelyRaceInfo"].Records[old] # None
                   /\ \/ todo = replace(old, k)
                      \/ /\ todo = Tail(replace(old, k))
                         /\ dbs["likelycorpus"].pending = <<>>
                         /\ dbs["likelycorpus"].Records[old] = None

\* An input in memory is on disk unless the handler has still to write it.
Stored ==
    /\ \A k \in raceCorpus, n \in RaceNames :
          outstanding(n, k) \/ on_disk(n, k, value(n, k))
    /\ \A h \in Hash : likelyRaceCorpus[h] # None =>
          LET k == likelyRaceCorpus[h]
          IN /\ k.hash = h
             /\ \A n \in LikelyNames : outstanding(n, k) \/ on_disk(n, k, value(n, k))

\* As long as no handler was interrupted the files are intact, and a program
\* has its RaceInfo, unless the handler has still to write that.
InStep ==
    interrupted = 0 =>
       /\ \A n \in Name : intact(dbs[n].file)
       /\ \A DB \in Pairs, k \in Key :
             \/ outstanding(DB.auxiliary, k)
             \/ /\ content(DB.primary)[k] # None \/ dbs[DB.primary].Records[k] # None
                     => content(DB.auxiliary)[k] # None
                /\ dbs[DB.primary].Records[k] # None => dbs[DB.auxiliary].Records[k] # None

MgrInv ==
    /\ MgrTypeOK
    /\ \A n \in Name : Good(dbs[n], Content)
    /\ Running /\ Handler /\ Stored /\ InStep /\ CleanRestart

----------------------------------------------------------------------------
(* The deletions of loadDB. *)

\* The deletions of the keys of walk are whole records.
LEMMA DeletionsAreIntact ==
    ASSUME NEW walk \in Seq(Key)
    PROVE  LET dels == [i \in DOMAIN walk |-> record(walk[i], None)]
           IN dels \in Seq(Entry) /\ intact(dels) /\ Len(dels) = Len(walk)
<1> DEFINE dels == [i \in DOMAIN walk |-> record(walk[i], None)]
           W == Len(walk)
<1>1. W \in Nat /\ DOMAIN walk = 1..W
  OBVIOUS
<1>2. \A i \in 1..W : dels[i] \in Entry /\ dels[i].whole
  BY <1>1 DEF record, Entry
<1>3. dels \in [1..W -> Entry]
  BY <1>1, <1>2
<1>4. dels \in Seq(Entry) /\ Len(dels) = W /\ DOMAIN dels = 1..W
  BY <1>1, <1>3
<1>5. intact(dels)
  BY <1>2, <1>4 DEF intact
<1> QED BY <1>4, <1>5, Zenon

\* The deletions of the keys of walk, appended to an intact log.
LEMMA ReadDeletions ==
    ASSUME NEW log \in Seq(Entry), intact(log), NEW walk \in Seq(Key)
    PROVE  LET dels == [i \in DOMAIN walk |-> record(walk[i], None)]
           IN /\ dels \in Seq(Entry) /\ intact(dels) /\ Len(dels) = Len(walk)
              /\ deserializeDB(log \o dels)
                   = [k \in Key |-> IF \E i \in DOMAIN walk : walk[i] = k
                                    THEN None ELSE deserializeDB(log)[k]]
<1> DEFINE dels == [i \in DOMAIN walk |-> record(walk[i], None)]
           L == Len(log)
           W == Len(walk)
           new == log \o dels
<1>1. L \in Nat /\ DOMAIN log = 1..L /\ W \in Nat /\ DOMAIN walk = 1..W
  OBVIOUS
<1>2. \A i \in 1..W : /\ dels[i] = record(walk[i], None) /\ dels[i] \in Entry
                      /\ dels[i].whole /\ dels[i].key = walk[i] /\ dels[i].val = None
  BY <1>1 DEF record, Entry
<1>3. dels \in Seq(Entry) /\ intact(dels) /\ Len(dels) = W
  BY DeletionsAreIntact, Zenon
<1>4. dels \in Seq(Entry) /\ Len(dels) = W /\ DOMAIN dels = 1..W
  BY <1>1, <1>3
<1>5. intact(dels)
  BY <1>3
<1> HIDE DEF dels
<1>6. /\ new \in Seq(Entry) /\ DOMAIN new = 1..(L + W)
      /\ \A i \in 1..L : new[i] = log[i]
      /\ \A i \in 1..W : new[L + i] = dels[i]
  BY <1>1, <1>4
<1>7. intact(new)
  BY <1>4, <1>5, IntactConcat
<1> HIDE DEF new, L, W
<1>8. readable(new) = 1..(L + W) /\ readable(log) = 1..L
  <2>1. \A n \in Nat : \A i \in 1..n : \A j \in 1..i : j \in 1..n
    OBVIOUS
  <2>2. L + W \in Nat
    BY <1>1
  <2>3. readable(log) = 1..L
    BY <1>1, <2>1 DEF readable, intact
  <2>4. readable(new) = 1..(L + W)
    BY <1>6, <1>7, <2>1, <2>2 DEF readable, intact
  <2> QED BY <2>3, <2>4
<1>9. ASSUME NEW k \in Key, \A i \in 1..W : walk[i] # k
      PROVE  deserializeDB(new)[k] = deserializeDB(log)[k]
  <2>1. \A i \in 1..(L + W) : i \notin 1..L => i - L \in 1..W /\ new[i] = dels[i - L]
    <3> TAKE i \in 1..(L + W)
    <3> HAVE i \notin 1..L
    <3>1. i - L \in 1..W /\ L + (i - L) = i
      BY <1>1
    <3> QED BY <1>6, <3>1
  <2>2. hits(new, k) = hits(log, k)
    <3>1. hits(log, k) \subseteq hits(new, k)
      BY <1>1, <1>6, <1>8 DEF hits
    <3>2. \A i \in 1..(L + W) : i \notin 1..L => new[i].key # k
      BY <1>2, <1>9, <2>1
    <3>3. hits(new, k) \subseteq hits(log, k)
      BY <1>6, <1>8, <3>2 DEF hits
    <3> QED BY <3>1, <3>3
  <2>3. hits(log, k) # {} => latest(hits(log, k)) \in 1..L
    BY <1>1, HitsAreRead
  <2> QED BY <1>6, <2>2, <2>3 DEF deserializeDB
<1>10. ASSUME NEW k \in Key, NEW i \in 1..W, walk[i] = k
       PROVE  deserializeDB(new)[k] = None
  <2>1. L + i \in hits(new, k)
    <3>1. L + i \in 1..(L + W)
      BY <1>1
    <3>2. new[L + i].key = k
      BY <1>2, <1>6, <1>10
    <3> QED BY <1>8, <3>1, <3>2 DEF hits
  <2>2. hits(new, k) \in SUBSET (1..(L + W)) /\ L + W \in Nat
    BY <1>1, <1>8 DEF hits
  <2>3. /\ latest(hits(new, k)) \in hits(new, k)
        /\ \A j \in hits(new, k) : j <= latest(hits(new, k))
    BY <2>1, <2>2, LatestExists
  <2> DEFINE m == latest(hits(new, k))
  <2>4. m \in 1..(L + W) /\ L + i <= m
    BY <2>1, <2>2, <2>3
  <2> HIDE DEF m
  <2>5. m - L \in 1..W /\ L + (m - L) = m
    BY <1>1, <2>4
  <2>6. new[m].val = None
    BY <1>2, <1>6, <2>5
  <2> QED BY <2>1, <2>6 DEF deserializeDB, m
<1>11. deserializeDB(new) = [k \in Key |-> IF \E i \in 1..W : walk[i] = k
                                           THEN None ELSE deserializeDB(log)[k]]
  <2>1. deserializeDB(new) = [k \in Key |-> deserializeDB(new)[k]]
    BY DEF deserializeDB
  <2> QED BY <1>9, <1>10, <2>1
<1>12. deserializeDB(log \o dels) = [k \in Key |-> IF \E i \in DOMAIN walk : walk[i] = k
                                                  THEN None ELSE deserializeDB(log)[k]]
  BY <1>1, <1>11 DEF new
<1> QED BY <1>4, <1>5, <1>12, Zenon DEF dels, W

\* A database that was just opened stays good when keys are deleted from it.
LEMMA DeleteAllIsGood ==
    ASSUME NEW db, Good(db, Content), db.open, db.pending = <<>>,
           NEW S \in SUBSET Key, NEW walk \in walks(S)
    PROVE  LET new == delete_all(db, walk)
           IN /\ Good(new, Content) /\ new.open /\ new.file = db.file
              /\ new.Records = [k \in Key |-> IF k \in S THEN None ELSE db.Records[k]]
<1> DEFINE new == delete_all(db, walk)
           dels == [i \in DOMAIN walk |-> record(walk[i], None)]
           recs == [k \in Key |-> IF \E i \in DOMAIN walk : walk[i] = k
                                  THEN None ELSE db.Records[k]]
           n == Cardinality(S)
<1>1. /\ db \in Database /\ db.file \in Seq(Entry) /\ db.Records \in Content
      /\ db.uncompacted \in Nat
  BY DEF Good, Database
<1>2. n \in Nat
  BY FS_Subset, FS_CardinalityType, DBAssumption
<1>3. walk \in [1..n -> S] /\ \A k \in S : \E i \in 1..n : walk[i] = k
  BY DEF walks
<1> HIDE DEF n
<1>4. walk \in [1..n -> Key]
  BY <1>3
<1>5. walk \in Seq(Key) /\ Len(walk) = n /\ DOMAIN walk = 1..n
  BY <1>2, <1>4
<1>6. recs = [k \in Key |-> IF k \in S THEN None ELSE db.Records[k]]
  BY <1>3, <1>5
<1>7. recs \in Content
  BY <1>1 DEF Content
<1>8. dels \in Seq(Entry) /\ intact(dels) /\ Len(dels) = n
  <2>1. dels \in Seq(Entry) /\ intact(dels) /\ Len(dels) = Len(walk)
    BY <1>5, DeletionsAreIntact, Zenon
  <2> QED BY <1>5, <2>1
<1> HIDE DEF dels, recs
<1>9. db.pending \o dels = dels
  BY <1>8, ConcatEmptySeq
<1>10. new = [db EXCEPT !.Records = recs, !.pending = dels,
                        !.uncompacted = db.uncompacted + n]
  BY <1>5, <1>9 DEF delete_all, dels, recs
<1>11. db.uncompacted + n \in Nat
  BY <1>1, <1>2
<1>12. /\ new \in Database /\ new.file = db.file /\ new.open /\ new.Records = recs
       /\ new.pending = dels /\ new.uncompacted = db.uncompacted + n
  BY <1>1, <1>7, <1>8, <1>10, <1>11 DEF Database
<1> HIDE DEF new
<1>13. ASSUME intact(new.file)
       PROVE  /\ deserializeDB(new.file \o new.pending) = new.Records
              /\ new.uncompacted = Len(new.file) + Len(new.pending)
              /\ new.pending = <<>> => ~must_compact(Len(new.file), new.Records)
  <2>1. /\ deserializeDB(db.file) = db.Records /\ db.uncompacted = Len(db.file)
        /\ ~must_compact(Len(db.file), db.Records)
    <3>1. db.file \o <<>> = db.file /\ Len(db.file) + 0 = Len(db.file)
      BY <1>1, ConcatEmptySeq
    <3> QED BY <1>12, <1>13, <3>1, EmptyIsIntact DEF Good
  <2>2. deserializeDB(db.file \o dels) = recs
    <3>1. deserializeDB(db.file \o dels)
            = [k \in Key |-> IF \E i \in DOMAIN walk : walk[i] = k
                             THEN None ELSE deserializeDB(db.file)[k]]
      <4>1. db.file \in Seq(Entry) /\ intact(db.file) /\ walk \in Seq(Key)
        BY <1>1, <1>5, <1>12, <1>13
      <4> QED BY <4>1, ReadDeletions, Zenon DEF dels
    <3> QED BY <2>1, <3>1, Zenon DEF recs
  <2>3. dels = <<>> => recs = db.Records
    <3> HAVE dels = <<>>
    <3>1. n = 0
      BY <1>8, EmptyIsIntact
    <3>2. db.Records = [k \in Key |-> db.Records[k]]
      BY <1>1 DEF Content
    <3> QED BY <1>2, <1>3, <1>6, <3>1, <3>2
  <2> QED BY <1>8, <1>12, <2>1, <2>2, <2>3
<1>14. ASSUME NEW m \in 0..Len(new.pending)
       PROVE  deserializeDB(new.file \o first(new.pending, m)) \in Content
  <2>1. first(new.pending, m) \in Seq(Entry)
    BY <1>8, <1>12, First
  <2>2. new.file \o first(new.pending, m) \in Seq(Entry)
    BY <1>1, <1>12, <2>1
  <2> QED BY <2>2, ReadsContent
<1>15. Good(new, Content)
  BY <1>8, <1>12, <1>13, <1>14 DEF Good
<1> QED BY <1>6, <1>12, <1>15 DEF new

----------------------------------------------------------------------------
(* The write of a handler. *)

Write == [db : Name, key : Key, val : Val \cup {None}]

\* Save and Delete: the key gets the value, in memory.
LEMMA WrittenIsGood ==
    ASSUME NEW w \in Write, Good(dbs[w.db], Content), dbs[w.db].open
    PROVE  /\ Good(written(w), Content) /\ written(w).open
           /\ written(w).file = dbs[w.db].file
           /\ written(w).Records = [dbs[w.db].Records EXCEPT ![w.key] = w.val]
<1> DEFINE old == dbs[w.db]
           k == w.key
           v == w.val
<1>1. k \in Key /\ v \in Val \cup {None}
  BY DEF Write
<1>2. old \in Database /\ old.Records \in Content
  BY DEF Good, Database
<1>3. written(w) = IF old.Records[k] = v THEN old ELSE write(old, k, v)
  BY DEF written, Save, Delete
<1> HIDE DEF k, v
<1>4. CASE old.Records[k] = v
  <2>1. old.Records = [old.Records EXCEPT ![k] = v]
    BY <1>1, <1>2, <1>4 DEF Content
  <2> QED BY <1>3, <1>4, <2>1 DEF k, v
<1>5. CASE old.Records[k] # v
  <2>1. /\ write(old, k, v).open /\ write(old, k, v).file = old.file
        /\ write(old, k, v).Records = [old.Records EXCEPT ![k] = v]
    BY <1>2 DEF write, Database
  <2>2. write(old, k, v).Records \in Content
    BY <1>1, <1>2, <2>1 DEF Content
  <2>3. Content \cup {write(old, k, v).Records} = Content
    BY <2>2
  <2>4. Good(write(old, k, v), Content \cup {write(old, k, v).Records})
    BY <1>1, WriteIsGood
  <2>5. Good(write(old, k, v), Content)
    BY <2>3, <2>4
  <2> QED BY <1>3, <1>5, <2>1, <2>5 DEF k, v
<1> QED BY <1>4, <1>5

\* ... and, after the Flush, on disk.
LEMMA FlushedIsGood ==
    ASSUME NEW w \in Write, Good(dbs[w.db], Content), dbs[w.db].open,
           NEW db \in flushed(written(w))
    PROVE  /\ Good(db, Content) /\ db.open /\ db.pending = <<>>
           /\ db.Records = [dbs[w.db].Records EXCEPT ![w.key] = w.val]
           /\ intact(db.file) => deserializeDB(db.file) = db.Records
           /\ intact(dbs[w.db].file) => intact(db.file)
<1> DEFINE mem == written(w)
<1>1. /\ Good(mem, Content) /\ mem.open /\ mem.file = dbs[w.db].file
      /\ mem.Records = [dbs[w.db].Records EXCEPT ![w.key] = w.val]
  BY WrittenIsGood
<1>2. PICK order \in Orders(mem.Records) : db = Flush(mem, order)
  BY DEF flushed
<1> HIDE DEF mem
<1>3. /\ db.open /\ db.Records = mem.Records /\ db.pending = <<>>
      /\ intact(db.file) => deserializeDB(db.file) = mem.Records
      /\ intact(mem.file) => intact(db.file)
  BY <1>1, <1>2, FlushReads
<1>4. Good(db, Content)
  <2>1. Good(db, Content \cup {db.Records})
    BY <1>1, <1>2, FlushIsGood
  <2>2. db.Records \in Content
    BY <1>1, <1>3 DEF Good, Database
  <2>3. Content \cup {db.Records} = Content
    BY <2>2
  <2> QED BY <2>1, <2>3
<1> QED BY <1>1, <1>3, <1>4

\* The writes of a handler, one by one.
LEMMA Concat4 ==
    ASSUME NEW S, NEW a \in S, NEW b \in S, NEW c \in S, NEW d \in S
    PROVE  <<a, b>> \o <<c, d>> = <<a, b, c, d>>
<1> DEFINE l == <<a, b>> \o <<c, d>>
           r == <<a, b, c, d>>
<1>1. <<a, b>> \in Seq(S) /\ <<c, d>> \in Seq(S) /\ r \in Seq(S)
  OBVIOUS
<1>2. Len(<<a, b>>) = 2 /\ Len(<<c, d>>) = 2 /\ Len(r) = 4
  OBVIOUS
<1>3. l \in Seq(S) /\ Len(l) = 4
  BY <1>1, <1>2, ConcatProperties
<1>4. l[1] = a /\ l[2] = b /\ l[3] = c /\ l[4] = d
  BY <1>1, <1>2, ConcatProperties
<1>5. r[1] = a /\ r[2] = b /\ r[3] = c /\ r[4] = d
  OBVIOUS
<1> HIDE DEF l, r
<1>6. \A i \in 1..4 : l[i] = r[i]
  BY <1>4, <1>5
<1>7. l = r
  BY <1>1, <1>2, <1>3, <1>6, SeqEqual
<1> QED BY <1>7 DEF l, r

LEMMA WritesOf ==
    ASSUME NEW DB \in Pairs, NEW k \in Key, NEW old \in Key
    PROVE  LET p == [db |-> DB.primary, key |-> k, val |-> k.prog]
               a == [db |-> DB.auxiliary, key |-> k, val |-> k.hash]
               dp == [db |-> DB.primary, key |-> old, val |-> None]
               da == [db |-> DB.auxiliary, key |-> old, val |-> None]
           IN /\ SaveDB(DB, k) = <<p, a>> /\ Tail(SaveDB(DB, k)) = <<a>>
              /\ Remove(DB, old) \o SaveDB(DB, k) = <<dp, da, p, a>>
              /\ Tail(Remove(DB, old) \o SaveDB(DB, k)) = <<da, p, a>>
              /\ p \in Write /\ a \in Write /\ dp \in Write /\ da \in Write
<1> DEFINE p == [db |-> DB.primary, key |-> k, val |-> k.prog]
           a == [db |-> DB.auxiliary, key |-> k, val |-> k.hash]
           dp == [db |-> DB.primary, key |-> old, val |-> None]
           da == [db |-> DB.auxiliary, key |-> old, val |-> None]
<1>1. DB.primary \in Name /\ DB.auxiliary \in Name
  BY DEF Pairs, RACECORPUSDB, LIKELYCORPUSDB, Name
<1>2. k.prog \in Val /\ k.hash \in Val
  BY MgrAssumption
<1>3. p \in Write /\ a \in Write /\ dp \in Write /\ da \in Write
  BY <1>1, <1>2 DEF Write
<1>4. SaveDB(DB, k) = <<p, a>> /\ Remove(DB, old) = <<dp, da>>
  BY DEF SaveDB, Remove
<1> HIDE DEF p, a, dp, da
<1>5. Remove(DB, old) \o SaveDB(DB, k) = <<dp, da, p, a>>
  BY <1>3, <1>4, Concat4
<1>6. Tail(<<p, a>>) = <<a>> /\ Tail(<<dp, da, p, a>>) = <<da, p, a>>
  OBVIOUS
<1> QED BY <1>3, <1>4, <1>5, <1>6 DEF p, a, dp, da

\* What holds when the handler is about to do write w, with rest after it: the
\* value is the one the input is to have, or an input no longer in memory is
\* removed; a program is written before its RaceInfo and removed before it.
AboutTo(w, rest) ==
    /\ w \in Write /\ ~nothing_to_remove(w)
    /\ \/ w.val = value(w.db, w.key)
       \/ /\ w.val = None /\ w.db \in LikelyNames
          /\ likelyRaceCorpus[w.key.hash] = w.key => among(w.db, w.key, rest)
    /\ \A DB \in Pairs :
          /\ w.db = DB.primary => among(DB.auxiliary, w.key, rest)
          /\ w.db = DB.auxiliary =>
                /\ dbs[DB.primary].pending = <<>>
                /\ w.val = None => dbs[DB.primary].Records[w.key] = None

LEMMA HandlerIsAbout ==
    ASSUME Handler, todo # <<>>, raceCorpus \subseteq Key
    PROVE  AboutTo(Head(todo), Tail(todo))
<1> USE DEF RACECORPUSDB, LIKELYCORPUSDB, Pairs, AboutTo, among, value,
            nothing_to_remove, LikelyNames
<1>1. RACECORPUSDB \in Pairs /\ LIKELYCORPUSDB \in Pairs
  OBVIOUS
<1>2. \A k \in Key : k.prog # None /\ k.hash # None
  BY MgrAssumption, DBAssumption
<1>3. ASSUME NEW DB \in Pairs, NEW k \in Key, todo = SaveDB(DB, k)
      PROVE  AboutTo(Head(todo), Tail(todo))
  <2> DEFINE p == [db |-> DB.primary, key |-> k, val |-> k.prog]
             a == [db |-> DB.auxiliary, key |-> k, val |-> k.hash]
  <2>1. todo = <<p, a>> /\ p \in Write
    BY <1>3, WritesOf
  <2>2. Head(todo) = p /\ Tail(todo) = <<a>> /\ <<a>>[1] = a /\ 1 \in DOMAIN <<a>>
    BY <2>1
  <2> QED BY <1>2, <2>1, <2>2
<1>4. ASSUME NEW DB \in Pairs, NEW k \in Key, todo = Tail(SaveDB(DB, k)),
             dbs[DB.primary].pending = <<>>
      PROVE  AboutTo(Head(todo), Tail(todo))
  <2> DEFINE a == [db |-> DB.auxiliary, key |-> k, val |-> k.hash]
  <2>1. todo = <<a>> /\ a \in Write
    BY <1>4, WritesOf
  <2>2. Head(todo) = a
    BY <2>1
  <2> QED BY <1>2, <1>4, <2>1, <2>2
<1>5. ASSUME NEW k \in Key, NEW old \in Key, todo = replace(old, k),
             old.hash = k.hash, likelyRaceCorpus[k.hash] = k
      PROVE  AboutTo(Head(todo), Tail(todo))
  <2> DEFINE p == [db |-> "likelycorpus", key |-> k, val |-> k.prog]
             a == [db |-> "likelyRaceInfo", key |-> k, val |-> k.hash]
             dp == [db |-> "likelycorpus", key |-> old, val |-> None]
             da == [db |-> "likelyRaceInfo", key |-> old, val |-> None]
  <2>1. todo = <<dp, da, p, a>> /\ dp \in Write
    BY <1>1, <1>5, WritesOf DEF replace
  <2>2. /\ Head(todo) = dp /\ Tail(todo) = <<da, p, a>>
        /\ <<da, p, a>>[1] = da /\ <<da, p, a>>[2] = p
        /\ 1 \in DOMAIN <<da, p, a>> /\ 2 \in DOMAIN <<da, p, a>>
    BY <2>1
  <2> QED BY <1>5, <2>1, <2>2
<1>6. ASSUME NEW k \in Key, NEW old \in Key, todo = Tail(replace(old, k)),
             old.hash = k.hash, likelyRaceCorpus[k.hash] = k,
             dbs["likelyRaceInfo"].Records[old] # None,
             dbs["likelycorpus"].pending = <<>>,
             dbs["likelycorpus"].Records[old] = None
      PROVE  AboutTo(Head(todo), Tail(todo))
  <2> DEFINE p == [db |-> "likelycorpus", key |-> k, val |-> k.prog]
             a == [db |-> "likelyRaceInfo", key |-> k, val |-> k.hash]
             da == [db |-> "likelyRaceInfo", key |-> old, val |-> None]
  <2>1. todo = <<da, p, a>> /\ da \in Write
    BY <1>1, <1>6, WritesOf DEF replace
  <2>2. /\ Head(todo) = da /\ Tail(todo) = <<p, a>>
        /\ <<p, a>>[2] = a /\ 2 \in DOMAIN <<p, a>>
    BY <2>1
  <2> QED BY <1>6, <2>1, <2>2
<1> HIDE DEF AboutTo
<1> QED BY <1>1, <1>3, <1>4, <1>5, <1>6 DEF Handler

\* The handler does its next write.
Writes(db) ==
    /\ todo # <<>> /\ db \in flushed(written(Head(todo)))
    /\ dbs' = [dbs EXCEPT ![Head(todo).db] = db]
    /\ todo' = Tail(todo)
    /\ UNCHANGED <<mgr, raceCorpus, likelyRaceCorpus, trueRaceHashes, interrupted>>

LEMMA WriteEffect ==
    ASSUME MgrInv, NEW db, Writes(db)
    PROVE  LET w == Head(todo)
           IN /\ w \in Write /\ dbs' \in [Name -> Database]
              /\ \A n \in Name : dbs'[n] = IF n = w.db THEN db ELSE dbs[n]
              /\ \A n \in Name : Good(dbs'[n], Content) /\ dbs'[n].open
              /\ db.pending = <<>>
              /\ db.Records = [dbs[w.db].Records EXCEPT ![w.key] = w.val]
              /\ intact(db.file) => deserializeDB(db.file) = db.Records
              /\ intact(dbs[w.db].file) => intact(db.file)
<1> DEFINE w == Head(todo)
<1>1. w \in Write
  BY HandlerIsAbout DEF MgrInv, MgrTypeOK, Writes, AboutTo
<1>2. w.db \in Name /\ dbs[w.db].open /\ Good(dbs[w.db], Content)
  BY <1>1 DEF MgrInv, Running, Writes, Write
<1>3. db \in flushed(written(w)) /\ dbs' = [dbs EXCEPT ![w.db] = db]
  BY DEF Writes
<1> HIDE DEF w
<1>4. /\ Good(db, Content) /\ db.open /\ db.pending = <<>>
      /\ db.Records = [dbs[w.db].Records EXCEPT ![w.key] = w.val]
      /\ intact(db.file) => deserializeDB(db.file) = db.Records
      /\ intact(dbs[w.db].file) => intact(db.file)
  BY <1>1, <1>2, <1>3, FlushedIsGood
<1>5. dbs \in [Name -> Database] /\ db \in Database
  BY <1>4 DEF MgrInv, MgrTypeOK, Good
<1>6. /\ dbs' \in [Name -> Database]
      /\ \A n \in Name : dbs'[n] = IF n = w.db THEN db ELSE dbs[n]
  BY <1>2, <1>3, <1>5
<1>7. \A n \in Name : Good(dbs'[n], Content) /\ dbs'[n].open
  BY <1>4, <1>6 DEF MgrInv, Running, Writes
<1> QED BY <1>1, <1>4, <1>6, <1>7 DEF w

\* A key that is no longer to be written was written with this write, or has
\* been written before.
LEMMA Outstanding ==
    ASSUME NEW n, NEW k, todo \in Seq(Write), todo # <<>>, todo' = Tail(todo),
           ~outstanding(n, k)'
    PROVE  outstanding(n, k) => n = Head(todo).db /\ k = Head(todo).key
<1> SUFFICES ASSUME outstanding(n, k)
             PROVE  n = Head(todo).db /\ k = Head(todo).key
  OBVIOUS
<1>1. PICK i \in DOMAIN todo : todo[i].db = n /\ todo[i].key = k
  BY DEF outstanding, among
<1>2. CASE i = 1
  BY <1>1, <1>2
<1>3. CASE i # 1
  <2>1. i - 1 \in DOMAIN Tail(todo) /\ Tail(todo)[i - 1] = todo[i]
    BY <1>1, <1>3
  <2> QED BY <1>1, <2>1 DEF outstanding, among
<1> QED BY <1>2, <1>3

LEMMA WriteKeepsHandler ==
    ASSUME MgrInv, NEW db, Writes(db)
    PROVE  Handler'
<1> DEFINE w == Head(todo)
<1>1. /\ RACECORPUSDB \in Pairs /\ LIKELYCORPUSDB \in Pairs
      /\ RACECORPUSDB.primary = "racecorpus" /\ RACECORPUSDB.auxiliary = "raceInfo"
      /\ LIKELYCORPUSDB.primary = "likelycorpus"
      /\ LIKELYCORPUSDB.auxiliary = "likelyRaceInfo"
      /\ {"racecorpus", "raceInfo", "likelycorpus", "likelyRaceInfo"} \subseteq Name
  BY DEF Pairs, RACECORPUSDB, LIKELYCORPUSDB, Name
<1>2. /\ \A n \in Name : dbs'[n] = IF n = w.db THEN db ELSE dbs[n]
      /\ db.pending = <<>>
      /\ db.Records = [dbs[w.db].Records EXCEPT ![w.key] = w.val]
  BY WriteEffect
<1>3. /\ todo' = Tail(todo) /\ raceCorpus' = raceCorpus
      /\ likelyRaceCorpus' = likelyRaceCorpus /\ todo # <<>>
  BY DEF Writes
<1>4. raceCorpus \subseteq Key /\ \A n \in Name : dbs[n].Records \in Content
  BY DEF MgrInv, MgrTypeOK, Database
<1>5. ASSUME NEW DB \in Pairs, NEW k \in Key, todo = SaveDB(DB, k)
      PROVE  todo' = Tail(SaveDB(DB, k)) /\ w.db = DB.primary
  <2> DEFINE p == [db |-> DB.primary, key |-> k, val |-> k.prog]
             a == [db |-> DB.auxiliary, key |-> k, val |-> k.hash]
  <2>1. todo = <<p, a>> /\ Tail(SaveDB(DB, k)) = <<a>>
    BY <1>5, WritesOf
  <2> QED BY <1>3, <1>5, <2>1
<1>6. ASSUME NEW k \in raceCorpus, todo = SaveDB(RACECORPUSDB, k)
      PROVE  Handler'
  <2>1. /\ todo' = Tail(SaveDB(RACECORPUSDB, k))
        /\ dbs'["racecorpus"].pending = <<>>
    BY <1>1, <1>2, <1>4, <1>5, <1>6
  <2> QED BY <1>3, <2>1 DEF Handler, SaveDB
<1>7. ASSUME NEW DB \in Pairs, NEW k \in Key, todo = Tail(SaveDB(DB, k))
      PROVE  Handler'
  <2> DEFINE a == [db |-> DB.auxiliary, key |-> k, val |-> k.hash]
  <2>1. todo = <<a>>
    BY <1>7, WritesOf
  <2>2. todo' = <<>>
    BY <1>3, <2>1
  <2> QED BY <2>2 DEF Handler
<1>8. ASSUME NEW k \in Key, likelyRaceCorpus[k.hash] = k, todo = SaveDB(LIKELYCORPUSDB, k)
      PROVE  Handler'
  <2>1. /\ todo' = Tail(SaveDB(LIKELYCORPUSDB, k))
        /\ dbs'["likelycorpus"].pending = <<>>
    BY <1>1, <1>2, <1>5, <1>8
  <2> QED BY <1>3, <1>8, <2>1 DEF Handler, SaveDB
<1>9. ASSUME NEW k \in Key, likelyRaceCorpus[k.hash] = k, NEW old \in Key,
             old.hash = k.hash, dbs["likelyRaceInfo"].Records[old] # None,
             todo = replace(old, k)
      PROVE  Handler'
  <2> DEFINE p == [db |-> "likelycorpus", key |-> k, val |-> k.prog]
             a == [db |-> "likelyRaceInfo", key |-> k, val |-> k.hash]
             dp == [db |-> "likelycorpus", key |-> old, val |-> None]
             da == [db |-> "likelyRaceInfo", key |-> old, val |-> None]
  <2>1. todo = <<dp, da, p, a>>
    BY <1>1, <1>9, WritesOf DEF replace
  <2>2. w.db = "likelycorpus" /\ w.key = old /\ w.val = None
    BY <2>1
  <2>3. /\ dbs'["likelycorpus"].pending = <<>>
        /\ dbs'["likelycorpus"].Records[old] = None
        /\ dbs'["likelyRaceInfo"].Records[old] # None
    BY <1>1, <1>2, <1>4, <1>9, <2>2 DEF Content
  <2>4. todo' = Tail(replace(old, k))
    BY <1>3, <1>9
  <2> QED BY <1>3, <1>9, <2>3, <2>4 DEF Handler, replace, Remove, SaveDB
<1>10. ASSUME NEW k \in Key, likelyRaceCorpus[k.hash] = k, NEW old \in Key,
              todo = Tail(replace(old, k))
       PROVE  Handler'
  <2> DEFINE p == [db |-> "likelycorpus", key |-> k, val |-> k.prog]
             a == [db |-> "likelyRaceInfo", key |-> k, val |-> k.hash]
             da == [db |-> "likelyRaceInfo", key |-> old, val |-> None]
  <2>1. todo = <<da, p, a>> /\ SaveDB(LIKELYCORPUSDB, k) = <<p, a>>
    BY <1>1, <1>10, WritesOf DEF replace
  <2>2. todo' = SaveDB(LIKELYCORPUSDB, k)
    BY <1>3, <2>1
  <2> QED BY <1>3, <1>10, <2>2 DEF Handler, SaveDB
<1> QED BY <1>1, <1>3, <1>4, <1>6, <1>7, <1>8, <1>9, <1>10 DEF Handler, MgrInv

LEMMA WriteKeepsStored ==
    ASSUME MgrInv, NEW db, Writes(db)
    PROVE  Stored'
<1> DEFINE w == Head(todo)
<1>1. /\ w \in Write
      /\ \A n \in Name : dbs'[n] = IF n = w.db THEN db ELSE dbs[n]
      /\ db.Records = [dbs[w.db].Records EXCEPT ![w.key] = w.val]
      /\ intact(db.file) => deserializeDB(db.file) = db.Records
  BY WriteEffect
<1>2. /\ todo' = Tail(todo) /\ raceCorpus' = raceCorpus
      /\ likelyRaceCorpus' = likelyRaceCorpus /\ todo # <<>>
  BY DEF Writes
<1>3. /\ todo \in Seq(Write) /\ raceCorpus \subseteq Key
      /\ likelyRaceCorpus \in [Hash -> Key \cup {None}]
      /\ \A n \in Name : dbs[n].Records \in Content
  BY DEF MgrInv, MgrTypeOK, Write, Database
<1>4. AboutTo(w, todo')
  BY <1>2, <1>3, HandlerIsAbout DEF MgrInv
<1>5. RaceNames \subseteq Name /\ LikelyNames \subseteq Name /\ RaceNames \cap LikelyNames = {}
  BY DEF RaceNames, LikelyNames, Name
<1> HIDE DEF w
<1>6. ASSUME NEW n \in Name, NEW k \in Key, NEW v,
             on_disk(n, k, v), n # w.db \/ k # w.key
      PROVE  on_disk(n, k, v)'
  BY <1>1, <1>3, <1>6 DEF on_disk, Content
<1>7. ASSUME NEW n \in Name, NEW k \in Key, NEW v, n = w.db, k = w.key, v = w.val
      PROVE  on_disk(n, k, v)'
  <2>1. dbs'[n] = db
    BY <1>1, <1>7
  <2>2. db.Records[k] = v
    BY <1>1, <1>3, <1>7 DEF Content
  <2> QED BY <1>1, <2>1, <2>2 DEF on_disk
<1>8. ASSUME NEW n \in Name, NEW k \in Key,
             outstanding(n, k) \/ on_disk(n, k, value(n, k)),
             n \in RaceNames \/ likelyRaceCorpus[k.hash] = k,
             ~outstanding(n, k)'
      PROVE  on_disk(n, k, value(n, k))'
  <2>1. CASE n = w.db /\ k = w.key
    <3>1. w.val = value(n, k)
      BY <1>4, <1>5, <1>8, <2>1 DEF AboutTo, outstanding
    <3> DEFINE v == value(n, k)
    <3>2. v' = v
      BY DEF value
    <3> HIDE DEF v
    <3>3. on_disk(n, k, v)'
      BY <1>7, <2>1, <3>1, <3>2 DEF v
    <3> QED BY <3>3 DEF v
  <2>2. CASE n # w.db \/ k # w.key
    <3>1. on_disk(n, k, value(n, k))
      BY <1>2, <1>3, <1>8, <2>2, Outstanding DEF w
    <3>2. on_disk(n, k, value(n, k)) => on_disk(n, k, value(n, k))'
      <4> DEFINE v == value(n, k)
      <4>1. v' = v
        BY DEF value
      <4> HIDE DEF v
      <4>2. on_disk(n, k, v) => on_disk(n, k, v)'
        BY <1>6, <2>2, <4>1
      <4> QED BY <4>2 DEF v
    <3> QED BY <3>1, <3>2
  <2> QED BY <2>1, <2>2
<1> QED BY <1>2, <1>3, <1>5, <1>8 DEF Stored, MgrInv

LEMMA WriteKeepsInStep ==
    ASSUME MgrInv, NEW db, Writes(db)
    PROVE  InStep'
<1> DEFINE w == Head(todo)
<1>1. /\ w \in Write
      /\ \A n \in Name : dbs'[n] = IF n = w.db THEN db ELSE dbs[n]
      /\ db.Records = [dbs[w.db].Records EXCEPT ![w.key] = w.val]
      /\ intact(db.file) => deserializeDB(db.file) = db.Records
      /\ intact(dbs[w.db].file) => intact(db.file)
  BY WriteEffect
<1>2. todo' = Tail(todo) /\ interrupted' = interrupted /\ todo # <<>>
  BY DEF Writes
<1>3. /\ todo \in Seq(Write) /\ raceCorpus \subseteq Key
      /\ \A n \in Name : dbs[n].Records \in Content /\ dbs[n].open
  BY <1>2 DEF MgrInv, MgrTypeOK, Write, Database, Running
<1>4. AboutTo(w, todo')
  BY <1>2, <1>3, HandlerIsAbout DEF MgrInv
<1> HIDE DEF w
<1> SUFFICES ASSUME interrupted = 0
             PROVE  /\ \A n \in Name : intact(dbs'[n].file)
                    /\ \A DB \in Pairs, k \in Key :
                         ~outstanding(DB.auxiliary, k)' =>
                           /\ content(DB.primary)'[k] # None
                                \/ dbs'[DB.primary].Records[k] # None
                                => content(DB.auxiliary)'[k] # None
                           /\ dbs'[DB.primary].Records[k] # None
                                => dbs'[DB.auxiliary].Records[k] # None
  BY <1>2 DEF InStep
<1>5. \A n \in Name : intact(dbs[n].file)
  BY DEF MgrInv, InStep
<1>6. \A n \in Name : intact(dbs'[n].file)
  BY <1>1, <1>5
<1>7. ASSUME NEW DB \in Pairs, NEW k \in Key, ~outstanding(DB.auxiliary, k)'
      PROVE  /\ content(DB.primary)'[k] # None \/ dbs'[DB.primary].Records[k] # None
                  => content(DB.auxiliary)'[k] # None
             /\ dbs'[DB.primary].Records[k] # None
                  => dbs'[DB.auxiliary].Records[k] # None
  <2>1. /\ DB.primary \in Name /\ DB.auxiliary \in Name /\ DB.primary # DB.auxiliary
    BY DEF Pairs, RACECORPUSDB, LIKELYCORPUSDB, Name
  <2>2. ~outstanding(DB.auxiliary, k) =>
          /\ content(DB.primary)[k] # None \/ dbs[DB.primary].Records[k] # None
               => content(DB.auxiliary)[k] # None
          /\ dbs[DB.primary].Records[k] # None => dbs[DB.auxiliary].Records[k] # None
    BY DEF MgrInv, InStep
  <2>3. outstanding(DB.auxiliary, k) => DB.auxiliary = w.db /\ k = w.key
    BY <1>2, <1>3, <1>7, Outstanding DEF w
  <2>4. w.key \in Key /\ w.db \in Name /\ w.val \in Val \cup {None}
    BY <1>1 DEF Write
  <2>5. CASE w.db = DB.primary
    <3>1. k # w.key
      BY <1>4, <1>7, <2>5 DEF AboutTo, outstanding
    <3>2. db.Records[k] = dbs[DB.primary].Records[k]
      BY <1>1, <1>3, <2>1, <2>5, <3>1 DEF Content
    <3>3. deserializeDB(db.file) = db.Records
      BY <1>1, <1>5, <2>4
    <3> QED BY <1>1, <2>1, <2>2, <2>3, <2>5, <3>2, <3>3 DEF content
  <2>6. CASE w.db = DB.auxiliary
    <3>1. /\ dbs[DB.primary].pending = <<>>
          /\ w.val = None => dbs[DB.primary].Records[w.key] = None
      BY <1>4, <2>6 DEF AboutTo
    <3>2. deserializeDB(dbs[DB.primary].file) = dbs[DB.primary].Records
      <4> DEFINE old == dbs[DB.primary]
      <4>1. Good(old, Content) /\ old.open /\ intact(old.file) /\ old.pending = <<>>
        BY <1>3, <1>5, <2>1, <3>1 DEF MgrInv
      <4> HIDE DEF old
      <4>2. old.file \o <<>> = old.file
        BY <4>1, ConcatEmptySeq DEF Good, Database
      <4>3. deserializeDB(old.file) = old.Records
        BY <4>1, <4>2 DEF Good
      <4> QED BY <4>3 DEF old
    <3>3. deserializeDB(db.file) = db.Records
      BY <1>1, <1>5, <2>4
    <3>4. dbs[DB.primary].Records[k] # None => db.Records[k] # None
      <4>1. CASE k = w.key
        BY <1>1, <1>3, <2>1, <2>6, <3>1, <4>1 DEF Content
      <4>2. CASE k # w.key
        <5>1. db.Records[k] = dbs[DB.auxiliary].Records[k]
          BY <1>1, <1>3, <2>1, <2>6, <4>2 DEF Content
        <5> QED BY <2>2, <2>3, <4>2, <5>1
      <4> QED BY <4>1, <4>2
    <3> QED BY <1>1, <2>1, <2>6, <3>2, <3>3, <3>4 DEF content
  <2>7. CASE w.db # DB.primary /\ w.db # DB.auxiliary
    BY <1>1, <2>1, <2>2, <2>3, <2>7 DEF content
  <2> QED BY <2>5, <2>6, <2>7
<1> QED BY <1>6, <1>7

----------------------------------------------------------------------------
(* The other steps. *)

\* The manager ends, leaving the files F.  If no handler was ever interrupted
\* they are intact and every program in them has its RaceInfo.
LEMMA EndKeepsInv ==
    ASSUME MgrInv, NEW F \in [Name -> Seq(Entry)], ends(F),
           mgr' \in {"down", "panic"}, interrupted' \in 0..MaxInterrupts,
           interrupted' = 0 =>
             /\ mgr' = "down" /\ \A n \in Name : intact(F[n])
             /\ \A DB \in Pairs, k \in Key :
                  deserializeDB(F[DB.primary])[k] # None
                    => deserializeDB(F[DB.auxiliary])[k] # None
    PROVE  MgrInv'
<1>1. \A n \in Name : dbs'[n] = closed(F[n])
  BY DEF ends
<1>2. \A n \in Name : Good(closed(F[n]), Content)
  BY ReadsContent, ClosedIsGood
<1>3. \A n \in Name : /\ dbs'[n].file = F[n] /\ ~dbs'[n].open
                      /\ dbs'[n].Records = Absent
  <2> TAKE n \in Name
  <2>1. dbs'[n] = [file |-> F[n], open |-> FALSE, Records |-> Absent,
                   uncompacted |-> 0, pending |-> <<>>]
    BY <1>1 DEF closed
  <2> QED BY <2>1
<1>4. /\ todo' = <<>> /\ raceCorpus' = {} /\ likelyRaceCorpus' = no_input
      /\ trueRaceHashes' = {}
  BY DEF ends
<1>5. \A n \in Name : Good(dbs'[n], Content)
  BY <1>1, <1>2
<1>6. MgrTypeOK'
  <2>1. \A n \in Name : closed(F[n]) \in Database
    BY <1>2 DEF Good
  <2>2. dbs' \in [Name -> Database]
    BY <2>1 DEF ends
  <2> QED BY <1>4, <2>2 DEF MgrTypeOK, MgrState, no_input
<1>7. Running' /\ Handler'
  BY <1>3, <1>4 DEF Running, Handler, no_input
<1>8. Stored'
  BY <1>4 DEF Stored, no_input
<1>9. InStep'
  <2>1. \A DB \in Pairs : DB.primary \in Name /\ DB.auxiliary \in Name
    BY DEF Pairs, RACECORPUSDB, LIKELYCORPUSDB, Name
  <2>2. \A k \in Key : Absent[k] = None
    BY DEF Absent
  <2> QED BY <1>3, <2>1, <2>2 DEF InStep, content
<1>10. CleanRestart'
  BY DEF CleanRestart
<1> QED BY <1>5, <1>6, <1>7, <1>8, <1>9, <1>10 DEF MgrInv

LEMMA FilesAreLogs ==
    ASSUME MgrInv
    PROVE  files \in [Name -> Seq(Entry)] /\ \A n \in Name : files[n] = dbs[n].file
BY DEF MgrInv, MgrTypeOK, Database, files

\* The manager loads a corpus.
LEMMA LoadKeepsInv ==
    ASSUME MgrInv, UNCHANGED interrupted, NEW DB \in Pairs, NEW next,
           loadDB(DB, next), mgr \in {"down", "panic", "loading"},
           \/ DB = RACECORPUSDB /\ next = "loading"
           \/ DB = LIKELYCORPUSDB /\ next = "running" /\ mgr = "loading"
    PROVE  MgrInv'
<1> DEFINE f1 == dbs[DB.primary].file
           f2 == dbs[DB.auxiliary].file
<1>1. /\ DB.primary \in Name /\ DB.auxiliary \in Name /\ DB.primary # DB.auxiliary
  BY DEF Pairs, RACECORPUSDB, LIKELYCORPUSDB, Name
<1>2. f1 \in Seq(Entry) /\ f2 \in Seq(Entry) /\ dbs \in [Name -> Database]
  BY <1>1 DEF MgrInv, MgrTypeOK, Database
<1>3. todo = <<>> /\ raceCorpus = {} /\ likelyRaceCorpus = no_input
  BY DEF MgrInv, Running
<1>4. interrupted = 0 =>
        /\ \A n \in Name : intact(dbs[n].file)
        /\ \A D \in Pairs, k \in Key :
             /\ content(D.primary)[k] # None \/ dbs[D.primary].Records[k] # None
                  => content(D.auxiliary)[k] # None
             /\ dbs[D.primary].Records[k] # None => dbs[D.auxiliary].Records[k] # None
  BY <1>3 DEF MgrInv, InStep, outstanding, among
<1>5. PICK broken \in SUBSET Key, disabled \in SUBSET Key,
           o1 \in Orders(deserializeDB(f1)), o2 \in Orders(deserializeDB(f2)) :
        LET primaryDB == Open(f1, o1)
            auxiliaryDB == Open(f2, o2)
            keys == present(primaryDB.Records)
            deleted == keys \cap broken
            opened == [dbs EXCEPT ![DB.primary] = primaryDB,
                                  ![DB.auxiliary] = auxiliaryDB]
        IN \/ /\ \A k \in keys \ (broken \cup disabled) : auxiliaryDB.Records[k] # None
              /\ \E d1 \in walks(deleted),
                    d2 \in walks(deleted \cap present(auxiliaryDB.Records)) :
                    /\ same_order(d1, d2)
                    /\ dbs' = [opened EXCEPT ![DB.primary] = delete_all(@, d1),
                                             ![DB.auxiliary] = delete_all(@, d2)]
              /\ mgr' = next
              /\ UNCHANGED <<todo, raceCorpus, likelyRaceCorpus, trueRaceHashes>>
           \/ /\ \E k \in keys \ (broken \cup disabled) : auxiliaryDB.Records[k] = None
              /\ ends([n \in Name |-> opened[n].file])
              /\ mgr' = "panic"
  BY DEF loadDB
<1> DEFINE primaryDB == Open(f1, o1)
           auxiliaryDB == Open(f2, o2)
           keys == present(primaryDB.Records)
           deleted == keys \cap broken
           opened == [dbs EXCEPT ![DB.primary] = primaryDB, ![DB.auxiliary] = auxiliaryDB]
<1>6. /\ primaryDB.open /\ primaryDB.Records = deserializeDB(f1)
      /\ primaryDB.pending = <<>> /\ deserializeDB(primaryDB.file) = deserializeDB(f1)
      /\ intact(f1) => intact(primaryDB.file)
  BY <1>2, OpenReads
<1>7. /\ auxiliaryDB.open /\ auxiliaryDB.Records = deserializeDB(f2)
      /\ auxiliaryDB.pending = <<>> /\ deserializeDB(auxiliaryDB.file) = deserializeDB(f2)
      /\ intact(f2) => intact(auxiliaryDB.file)
  BY <1>2, OpenReads
<1>8. deserializeDB(f1) \in Content /\ deserializeDB(f2) \in Content
  BY <1>2, ReadsContent
<1>9. Good(primaryDB, Content) /\ Good(auxiliaryDB, Content)
  <2>1. Good(primaryDB, Content \cup {primaryDB.Records})
    BY <1>2, <1>8, OpenIsGood
  <2>2. Good(auxiliaryDB, Content \cup {auxiliaryDB.Records})
    BY <1>2, <1>8, OpenIsGood
  <2>3. Content \cup {primaryDB.Records} = Content /\ Content \cup {auxiliaryDB.Records} = Content
    BY <1>6, <1>7, <1>8
  <2> QED BY <2>1, <2>2, <2>3
<1> HIDE DEF primaryDB, auxiliaryDB
<1>10. primaryDB \in Database /\ auxiliaryDB \in Database
  BY <1>9 DEF Good
<1>11. /\ opened \in [Name -> Database]
       /\ opened[DB.primary] = primaryDB /\ opened[DB.auxiliary] = auxiliaryDB
       /\ \A n \in Name \ {DB.primary, DB.auxiliary} : opened[n] = dbs[n]
  BY <1>1, <1>2, <1>10
<1> HIDE DEF opened
<1>12. ASSUME NEW k \in keys \ (broken \cup disabled), auxiliaryDB.Records[k] = None,
              ends([n \in Name |-> opened[n].file]), mgr' = "panic"
       PROVE  MgrInv'
  <2> DEFINE F == [n \in Name |-> opened[n].file]
  <2>1. F \in [Name -> Seq(Entry)]
    BY <1>11 DEF Database
  <2>2. content(DB.primary)[k] # None /\ content(DB.auxiliary)[k] = None /\ k \in Key
    BY <1>6, <1>7, <1>12 DEF content, present
  <2>3. interrupted # 0
    BY <1>4, <2>2
  <2>4. interrupted' \in 0..MaxInterrupts /\ interrupted' # 0
    BY <2>3 DEF MgrInv, MgrTypeOK
  <2> HIDE DEF F
  <2>5. ends(F)
    BY <1>12 DEF F
  <2> QED BY <1>12, <2>1, <2>4, <2>5, EndKeepsInv
<1>13. ASSUME \A k \in keys \ (broken \cup disabled) : auxiliaryDB.Records[k] # None,
              NEW d1 \in walks(deleted),
              NEW d2 \in walks(deleted \cap present(auxiliaryDB.Records)),
              dbs' = [opened EXCEPT ![DB.primary] = delete_all(@, d1),
                                    ![DB.auxiliary] = delete_all(@, d2)],
              mgr' = next,
              UNCHANGED <<todo, raceCorpus, likelyRaceCorpus, trueRaceHashes>>
       PROVE  MgrInv'
  <2> DEFINE p == delete_all(primaryDB, d1)
             a == delete_all(auxiliaryDB, d2)
  <2>1. deleted \in SUBSET Key
    OBVIOUS
  <2>2. /\ Good(p, Content) /\ p.open /\ p.file = primaryDB.file
        /\ p.Records = [k \in Key |-> IF k \in deleted THEN None ELSE primaryDB.Records[k]]
    BY <1>6, <1>9, <2>1, DeleteAllIsGood
  <2>3. /\ Good(a, Content) /\ a.open /\ a.file = auxiliaryDB.file
        /\ a.Records = [k \in Key |-> IF k \in deleted \cap present(auxiliaryDB.Records)
                                      THEN None ELSE auxiliaryDB.Records[k]]
    BY <1>7, <1>9, <2>1, DeleteAllIsGood
  <2>4. p \in Database /\ a \in Database
    BY <2>2, <2>3 DEF Good
  <2> HIDE DEF p, a
  <2>5. /\ dbs' \in [Name -> Database]
        /\ dbs'[DB.primary] = p /\ dbs'[DB.auxiliary] = a
        /\ \A n \in Name \ {DB.primary, DB.auxiliary} : dbs'[n] = dbs[n]
    BY <1>1, <1>11, <1>13, <2>4 DEF p, a
  <2>6. MgrTypeOK'
    BY <1>13, <2>5 DEF MgrInv, MgrTypeOK, MgrState
  <2>7. \A n \in Name : Good(dbs'[n], Content)
    BY <1>1, <2>2, <2>3, <2>5 DEF MgrInv
  <2>8. Running'
    <3>1. mgr' # "fatal" /\ todo' = <<>> /\ raceCorpus' = {} /\ likelyRaceCorpus' = no_input
      BY <1>3, <1>13
    <3>2. \A n \in Name : ~dbs'[n].open => dbs'[n].Records = Absent
      BY <1>1, <2>2, <2>3, <2>5 DEF MgrInv, Running
    <3>3. mgr' = "loading" => \A n \in RaceNames : dbs'[n].open
      <4> SUFFICES ASSUME next = "loading" PROVE \A n \in RaceNames : dbs'[n].open
        BY <1>13
      <4>1. DB.primary = "racecorpus" /\ DB.auxiliary = "raceInfo"
        BY DEF RACECORPUSDB
      <4> QED BY <2>2, <2>3, <2>5, <4>1 DEF RaceNames
    <3>4. mgr' = "running" => \A n \in Name : dbs'[n].open
      BY <1>13, <2>2, <2>3, <2>5 DEF MgrInv, Running, RaceNames, LIKELYCORPUSDB, Name
    <3> QED BY <3>1, <3>2, <3>3, <3>4 DEF Running, no_input
  <2>9. Handler' /\ Stored'
    BY <1>3, <1>13 DEF Handler, Stored, no_input
  <2>10. InStep'
    <3> SUFFICES ASSUME interrupted = 0
                 PROVE  /\ \A n \in Name : intact(dbs'[n].file)
                        /\ \A D \in Pairs, k \in Key :
                             /\ content(D.primary)'[k] # None
                                  \/ dbs'[D.primary].Records[k] # None
                                  => content(D.auxiliary)'[k] # None
                             /\ dbs'[D.primary].Records[k] # None
                                  => dbs'[D.auxiliary].Records[k] # None
      BY DEF InStep
    <3>1. \A n \in Name : intact(dbs'[n].file)
      BY <1>1, <1>4, <1>6, <1>7, <2>2, <2>3, <2>5
    <3>2. ASSUME NEW k \in Key
          PROVE  /\ content(DB.primary)'[k] = deserializeDB(f1)[k]
                 /\ content(DB.auxiliary)'[k] = deserializeDB(f2)[k]
                 /\ deserializeDB(f1)[k] # None => deserializeDB(f2)[k] # None
                 /\ p.Records[k] # None => deserializeDB(f1)[k] # None
                 /\ p.Records[k] # None => a.Records[k] # None
      BY <1>4, <1>6, <1>7, <2>2, <2>3, <2>5 DEF content
    <3>3. ASSUME NEW D \in Pairs, D # DB, NEW k \in Key
          PROVE  /\ content(D.primary)'[k] # None \/ dbs'[D.primary].Records[k] # None
                      => content(D.auxiliary)'[k] # None
                 /\ dbs'[D.primary].Records[k] # None => dbs'[D.auxiliary].Records[k] # None
      <4>1. /\ D.primary \in Name \ {DB.primary, DB.auxiliary}
            /\ D.auxiliary \in Name \ {DB.primary, DB.auxiliary}
        BY <3>3 DEF Pairs, RACECORPUSDB, LIKELYCORPUSDB, Name
      <4> QED BY <1>4, <2>5, <4>1 DEF content
    <3> QED BY <2>5, <3>1, <3>2, <3>3
  <2>11. CleanRestart'
    BY <1>13 DEF CleanRestart
  <2> QED BY <2>6, <2>7, <2>8, <2>9, <2>10, <2>11 DEF MgrInv
<1> QED BY <1>5, <1>12, <1>13 DEF primaryDB, auxiliaryDB, opened

\* A handler starts, or changes only what is in memory.
LEMMA HandlersKeepInv ==
    ASSUME MgrInv, idle, UNCHANGED <<dbs, mgr, interrupted>>,
           raceCorpus' \in SUBSET Key,
           likelyRaceCorpus' \in [Hash -> Key \cup {None}],
           trueRaceHashes' \in SUBSET Hash, todo' \in Seq(Write), Handler',
           \A k \in raceCorpus' \ raceCorpus, n \in RaceNames : outstanding(n, k)',
           \A h \in Hash, k \in Key :
              likelyRaceCorpus'[h] = k /\ likelyRaceCorpus[h] # k =>
                 k.hash = h /\ \A n \in LikelyNames : outstanding(n, k)'
    PROVE  MgrInv'
<1>1. mgr' = "running" /\ ~(todo # <<>>)
  BY DEF idle
<1>2. \A n, k : ~outstanding(n, k)
  BY <1>1 DEF outstanding, among
<1>3. MgrTypeOK'
  BY DEF MgrInv, MgrTypeOK, Write
<1>4. \A n \in Name : Good(dbs'[n], Content)
  BY DEF MgrInv
<1>5. Running'
  BY <1>1 DEF MgrInv, Running
<1>6. Stored'
  <2>1. ASSUME NEW n, NEW k, on_disk(n, k, value(n, k))
        PROVE  on_disk(n, k, value(n, k))'
    BY <2>1 DEF on_disk, value
  <2>2. ASSUME NEW k \in raceCorpus', NEW n \in RaceNames
        PROVE  outstanding(n, k)' \/ on_disk(n, k, value(n, k))'
    BY <1>2, <2>1, <2>2 DEF MgrInv, Stored
  <2>3. ASSUME NEW h \in Hash, NEW k \in Key, likelyRaceCorpus'[h] = k
        PROVE  /\ k.hash = h
               /\ \A n \in LikelyNames : outstanding(n, k)' \/ on_disk(n, k, value(n, k))'
    <3>1. CASE likelyRaceCorpus[h] # k
      BY <2>3, <3>1
    <3>2. CASE likelyRaceCorpus[h] = k
      <4>1. k # None
        BY MgrAssumption
      <4>2. k.hash = h /\ \A n \in LikelyNames : on_disk(n, k, value(n, k))
        BY <1>2, <3>2, <4>1 DEF MgrInv, Stored
      <4> QED BY <2>1, <4>2
    <3> QED BY <3>1, <3>2
  <2>4. ASSUME NEW h \in Hash, likelyRaceCorpus'[h] # None
        PROVE  likelyRaceCorpus'[h] \in Key
    BY <2>4
  <2> QED BY <2>2, <2>3, <2>4 DEF Stored
<1>7. InStep'
  BY <1>2 DEF MgrInv, InStep, content
<1>8. CleanRestart'
  BY DEF MgrInv, CleanRestart
<1> QED BY <1>3, <1>4, <1>5, <1>6, <1>7, <1>8 DEF MgrInv

LEMMA MgrInvStep ==
    ASSUME MgrInv, Next
    PROVE  MgrInv'
<1>1. /\ raceCorpus \in SUBSET Key /\ likelyRaceCorpus \in [Hash -> Key \cup {None}]
      /\ trueRaceHashes \in SUBSET Hash /\ interrupted \in 0..MaxInterrupts
      /\ todo \in Seq(Write)
  BY DEF MgrInv, MgrTypeOK, Write
<1>2. RACECORPUSDB \in Pairs /\ LIKELYCORPUSDB \in Pairs
  BY DEF Pairs
<1>3. ASSUME NEW k \in Key
      PROVE  k.hash \in Hash /\ k # None
  BY MgrAssumption
<1>4. CASE load_race_corpus
  BY <1>2, <1>4, LoadKeepsInv DEF load_race_corpus
<1>5. CASE load_likely_corpus
  BY <1>2, <1>5, LoadKeepsInv DEF load_likely_corpus
<1>6. ASSUME NEW k \in Key, NewRaceInput(k) PROVE MgrInv'
  <2> DEFINE p == [db |-> "racecorpus", key |-> k, val |-> k.prog]
             a == [db |-> "raceInfo", key |-> k, val |-> k.hash]
  <2>1. todo' = <<p, a>> /\ p \in Write /\ a \in Write
    BY <1>2, <1>6, WritesOf DEF NewRaceInput, RACECORPUSDB
  <2>2. \A n \in RaceNames : outstanding(n, k)'
    <3>1. <<p, a>>[1] = p /\ <<p, a>>[2] = a /\ {1, 2} \subseteq DOMAIN <<p, a>>
      OBVIOUS
    <3> QED BY <2>1, <3>1 DEF outstanding, among, RaceNames
  <2>3. todo' \in Seq(Write)
    BY <2>1
  <2>4. Handler'
    BY <1>6 DEF NewRaceInput, Handler, SaveDB
  <2> QED BY <1>1, <1>6, <2>2, <2>3, <2>4, HandlersKeepInv DEF NewRaceInput
<1>7. ASSUME NEW k \in Key, NewLikelyRaceInput(k) PROVE MgrInv'
  <2> DEFINE old == likelyRaceCorpus[k.hash]
             p == [db |-> "likelycorpus", key |-> k, val |-> k.prog]
             a == [db |-> "likelyRaceInfo", key |-> k, val |-> k.hash]
             dp == [db |-> "likelycorpus", key |-> old, val |-> None]
             da == [db |-> "likelyRaceInfo", key |-> old, val |-> None]
  <2>1. /\ likelyRaceCorpus' = [likelyRaceCorpus EXCEPT ![k.hash] = k]
        /\ likelyRaceCorpus' \in [Hash -> Key \cup {None}]
        /\ likelyRaceCorpus'[k.hash] = k
        /\ \A h \in Hash : h # k.hash => likelyRaceCorpus'[h] = likelyRaceCorpus[h]
    BY <1>1, <1>3, <1>7 DEF NewLikelyRaceInput
  <2> DEFINE reported == \A n \in LikelyNames : outstanding(n, k)'
  <2>2. ASSUME reported
        PROVE  \A h \in Hash, q \in Key :
                  likelyRaceCorpus'[h] = q /\ likelyRaceCorpus[h] # q =>
                     q.hash = h /\ \A n \in LikelyNames : outstanding(n, q)'
    <3>1. ASSUME NEW h \in Hash, NEW q \in Key,
                 likelyRaceCorpus'[h] = q, likelyRaceCorpus[h] # q
          PROVE  h = k.hash /\ q = k
      BY <2>1, <3>1
    <3> QED BY <2>2, <3>1
  <2>3. idle /\ UNCHANGED <<dbs, mgr, interrupted>> /\ UNCHANGED <<raceCorpus, trueRaceHashes>>
    BY <1>7 DEF NewLikelyRaceInput
  <2>4. CASE old = None
    <3>1. todo' = <<p, a>> /\ p \in Write /\ a \in Write
      BY <1>2, <1>7, <2>4, WritesOf DEF NewLikelyRaceInput, LIKELYCORPUSDB
    <3>2. \A n \in LikelyNames : outstanding(n, k)'
      <4>1. <<p, a>>[1] = p /\ <<p, a>>[2] = a /\ {1, 2} \subseteq DOMAIN <<p, a>>
        OBVIOUS
      <4> QED BY <3>1, <4>1 DEF outstanding, among, LikelyNames
    <3>3. todo' \in Seq(Write)
      BY <3>1
    <3>4. Handler'
      <4>1. todo' = SaveDB(LIKELYCORPUSDB, k)
        BY <1>7, <2>4 DEF NewLikelyRaceInput
      <4> QED BY <2>1, <4>1 DEF Handler, SaveDB
    <3> QED BY <1>1, <2>1, <2>2, <2>3, <3>2, <3>3, <3>4, HandlersKeepInv
  <2>5. CASE old # None
    <3>1. old \in Key
      BY <1>1, <1>3, <2>5
    <3>2. todo' = <<dp, da, p, a>> /\ {dp, da, p, a} \subseteq Write
      BY <1>2, <1>7, <2>5, <3>1, WritesOf DEF NewLikelyRaceInput, replace, LIKELYCORPUSDB
    <3>3. \A n \in LikelyNames : outstanding(n, k)'
      <4>1. /\ <<dp, da, p, a>>[3] = p /\ <<dp, da, p, a>>[4] = a
            /\ {3, 4} \subseteq DOMAIN <<dp, da, p, a>>
        OBVIOUS
      <4> QED BY <3>2, <4>1 DEF outstanding, among, LikelyNames
    <3>4. todo' \in Seq(Write)
      BY <3>2
    <3>5. old.hash = k.hash /\ dbs["likelyRaceInfo"].Records[old] # None
      <4>1. todo = <<>> /\ k.hash \in Hash
        BY <1>3, <1>7 DEF NewLikelyRaceInput, idle
      <4>2. ~outstanding("likelyRaceInfo", old)
        BY <4>1 DEF outstanding, among
      <4>3. old.hash = k.hash /\ on_disk("likelyRaceInfo", old, old.hash)
        BY <2>5, <4>1, <4>2 DEF MgrInv, Stored, LikelyNames, value
      <4>4. old.hash \in Val
        BY <3>1, MgrAssumption
      <4> QED BY <4>3, <4>4, DBAssumption DEF on_disk
    <3>6. Handler'
      <4>1. todo' = replace(old, k)
        BY <1>7, <2>5 DEF NewLikelyRaceInput
      <4>2. dbs' = dbs
        BY <1>7 DEF NewLikelyRaceInput
      <4> HIDE DEF old
      <4>3. \E o \in Key : /\ o.hash = k.hash /\ dbs'["likelyRaceInfo"].Records[o] # None
                           /\ todo' = replace(o, k)
        BY <3>1, <3>5, <4>1, <4>2
      <4> QED BY <2>1, <4>3 DEF Handler, replace, Remove, SaveDB
    <3> QED BY <1>1, <2>1, <2>2, <2>3, <3>3, <3>4, <3>6, HandlersKeepInv
  <2> QED BY <2>4, <2>5
<1>8. ASSUME NEW h \in Hash, updateNewTrueRace(h) PROVE MgrInv'
  <2>1. todo' = <<>> /\ Handler'
    BY <1>8 DEF updateNewTrueRace, idle, Handler
  <2>2. /\ idle /\ UNCHANGED <<dbs, mgr, interrupted>>
        /\ raceCorpus' \subseteq raceCorpus /\ trueRaceHashes' \in SUBSET Hash
    BY <1>1, <1>8 DEF updateNewTrueRace
  <2>3. /\ likelyRaceCorpus' \in [Hash -> Key \cup {None}]
        /\ \A g \in Hash : likelyRaceCorpus'[g] \in {None, likelyRaceCorpus[g]}
    BY <1>1, <1>8 DEF updateNewTrueRace
  <2>4. \A g \in Hash, k \in Key : likelyRaceCorpus'[g] = k => likelyRaceCorpus[g] = k
    BY <1>3, <2>3
  <2>5. todo' \in Seq(Write) /\ raceCorpus' \in SUBSET Key
    BY <1>1, <2>1, <2>2
  <2> QED BY <2>1, <2>2, <2>3, <2>4, <2>5, HandlersKeepInv
<1>9. CASE minimizeRaceCorpus
  <2>1. todo' = <<>> /\ Handler'
    BY <1>9 DEF minimizeRaceCorpus, idle, Handler
  <2>2. /\ idle /\ UNCHANGED <<dbs, mgr, interrupted>>
        /\ raceCorpus' \subseteq raceCorpus /\ trueRaceHashes' \in SUBSET Hash
    BY <1>1, <1>9 DEF minimizeRaceCorpus
  <2>3. /\ likelyRaceCorpus' \in [Hash -> Key \cup {None}]
        /\ \A g \in Hash : likelyRaceCorpus'[g] \in {None, likelyRaceCorpus[g]}
    BY <1>1, <1>9 DEF minimizeRaceCorpus
  <2>4. \A g \in Hash, k \in Key : likelyRaceCorpus'[g] = k => likelyRaceCorpus[g] = k
    BY <1>3, <2>3
  <2>5. todo' \in Seq(Write) /\ raceCorpus' \in SUBSET Key
    BY <1>1, <2>1, <2>2
  <2> QED BY <2>1, <2>2, <2>3, <2>4, <2>5, HandlersKeepInv
<1>10. CASE write_next
  <2>1. todo # <<>> /\ ~nothing_to_remove(Head(todo))
    BY <1>10, HandlerIsAbout DEF write_next, AboutTo, MgrInv, MgrTypeOK
  <2>2. PICK db : Writes(db)
    BY <1>10, <2>1 DEF write_next, Writes
  <2>3. MgrTypeOK' /\ \A n \in Name : Good(dbs'[n], Content)
    <3>1. Tail(todo) \in Seq(Write)
      BY <1>1, <2>1
    <3> QED BY <2>2, <3>1, WriteEffect DEF MgrInv, MgrTypeOK, Writes, Write
  <2>4. Running'
    BY <2>2, WriteEffect DEF MgrInv, Running, Writes
  <2>5. CleanRestart'
    BY <2>2 DEF MgrInv, CleanRestart, Writes
  <2> QED BY <2>2, <2>3, <2>4, <2>5, WriteKeepsHandler, WriteKeepsStored,
             WriteKeepsInStep DEF MgrInv
<1>11. CASE kill
  <2>1. interrupted' \in 0..MaxInterrupts
    BY <1>1, <1>11, MgrAssumption DEF kill
  <2>2. interrupted' = 0 => todo = <<>> /\ interrupted = 0
    BY <1>1, <1>11 DEF kill
  <2>3. todo = <<>> /\ interrupted = 0 =>
          /\ \A n \in Name : intact(files[n])
          /\ \A DB \in Pairs, k \in Key :
               deserializeDB(files[DB.primary])[k] # None
                 => deserializeDB(files[DB.auxiliary])[k] # None
    <3>1. \A DB \in Pairs : DB.primary \in Name /\ DB.auxiliary \in Name
      BY DEF Pairs, RACECORPUSDB, LIKELYCORPUSDB, Name
    <3> QED BY <3>1, FilesAreLogs DEF MgrInv, InStep, outstanding, among, content
  <2>4. ends(files) /\ mgr' = "down"
    BY <1>11 DEF kill
  <2> QED BY <2>1, <2>2, <2>3, <2>4, FilesAreLogs, EndKeepsInv
<1>12. CASE kill_in_write
  <2> DEFINE w == Head(todo)
             db == written(w)
  <2>1. w \in Write /\ w.db \in Name /\ dbs[w.db].open /\ Good(dbs[w.db], Content)
    BY <1>12, HandlerIsAbout DEF kill_in_write, AboutTo, MgrInv, MgrTypeOK, Running, Write
  <2>2. PICK m \in 0..(Len(db.pending) - 1), torn \in BOOLEAN :
          ends([files EXCEPT ![w.db] = cut_off(db, m, torn)])
    BY <1>12 DEF kill_in_write
  <2> DEFINE F == [files EXCEPT ![w.db] = cut_off(db, m, torn)]
  <2>3. cut_off(db, m, torn) \in Seq(Entry)
    BY <2>1, WrittenIsGood, CutOffIsPast
  <2>4. F \in [Name -> Seq(Entry)]
    BY <2>1, <2>3, FilesAreLogs
  <2>5. interrupted' \in 0..MaxInterrupts /\ interrupted' # 0 /\ mgr' = "down"
    BY <1>1, <1>12, MgrAssumption DEF kill_in_write
  <2>6. ends(F)
    BY <2>2
  <2> HIDE DEF F
  <2> QED BY <2>4, <2>5, <2>6, EndKeepsInv
<1> QED BY <1>4, <1>5, <1>6, <1>7, <1>8, <1>9, <1>10, <1>11, <1>12 DEF Next

----------------------------------------------------------------------------
(* The theorems. *)

\* The invariant holds whatever the handlers do and whenever the manager is
\* killed.
THEOREM MgrInvHolds == Spec => []MgrInv
<1>1. Init => MgrInv
  <2> SUFFICES ASSUME Init PROVE MgrInv
    OBVIOUS
  <2>1. Good(closed(<<>>), Content) /\ closed(<<>>) \in Database
    BY EmptyIsIntact, ReadsContent, ClosedIsGood DEF Good
  <2>2. /\ closed(<<>>).file = <<>> /\ ~closed(<<>>).open
        /\ closed(<<>>).Records = Absent
    BY DEF closed
  <2>3. \A n \in Name : dbs[n] = closed(<<>>)
    BY DEF Init
  <2>4. MgrTypeOK
    BY <2>1, MgrAssumption DEF Init, MgrTypeOK, MgrState, no_input
  <2>5. Running /\ Handler /\ Stored /\ CleanRestart
    BY <2>2, <2>3 DEF Init, Running, Handler, Stored, CleanRestart, no_input
  <2>6. InStep
    <3>1. \A DB \in Pairs : DB.primary \in Name /\ DB.auxiliary \in Name
      BY DEF Pairs, RACECORPUSDB, LIKELYCORPUSDB, Name
    <3>2. \A k \in Key : deserializeDB(<<>>)[k] = None /\ Absent[k] = None
      BY DEF deserializeDB, hits, readable, Absent
    <3>3. \A n \in Name : dbs[n].file = <<>> /\ dbs[n].Records = Absent
      BY <2>2, <2>3
    <3> QED BY <3>1, <3>2, <3>3, EmptyIsIntact DEF InStep, content
  <2> QED BY <2>1, <2>3, <2>4, <2>5, <2>6 DEF MgrInv
<1>2. MgrInv /\ UNCHANGED mgrVars => MgrInv'
  BY DEF mgrVars, MgrInv, MgrTypeOK, Running, Handler, Stored, InStep, CleanRestart,
         on_disk, outstanding, content
<1>3. MgrInv /\ [Next]_mgrVars => MgrInv'
  BY <1>2, MgrInvStep
<1> QED BY <1>1, <1>3, PTL DEF Spec

\* The databases, the corpora in memory and the writes under way keep their
\* types.
THEOREM MgrTypeCorrect == Spec => []MgrTypeOK
<1>1. MgrInv => MgrTypeOK
  BY DEF MgrInv
<1> QED BY <1>1, MgrInvHolds, PTL

\* The Fatalf of DBTy.Remove is never reached, kills and restarts included.
THEOREM RemovalAlwaysFindsInfo == Spec => []RemovalFindsInfo
<1>1. MgrInv => RemovalFindsInfo
  BY DEF MgrInv, Running, RemovalFindsInfo
<1> QED BY <1>1, MgrInvHolds, PTL

\* Between two handlers every input in memory is in both databases and, if the
\* files are intact, in both files.
THEOREM CorporaAreOnDisk == Spec => []CorporaOnDisk
<1>1. MgrInv => CorporaOnDisk
  <2> SUFFICES ASSUME MgrInv, idle PROVE CorporaOnDisk
    BY DEF CorporaOnDisk
  <2>1. \A n, k : ~outstanding(n, k)
    BY DEF idle, outstanding, among
  <2>2. \A k \in raceCorpus : /\ on_disk("racecorpus", k, k.prog)
                              /\ on_disk("raceInfo", k, k.hash)
    BY <2>1 DEF MgrInv, Stored, RaceNames, value
  <2>3. \A h \in Hash : likelyRaceCorpus[h] # None =>
          /\ on_disk("likelycorpus", likelyRaceCorpus[h], likelyRaceCorpus[h].prog)
          /\ on_disk("likelyRaceInfo", likelyRaceCorpus[h], h)
    BY <2>1 DEF MgrInv, Stored, LikelyNames, value
  <2> QED BY <2>2, <2>3 DEF CorporaOnDisk
<1> QED BY <1>1, MgrInvHolds, PTL

\* A manager that was never killed inside a handler finds a RaceInfo for every
\* program: loadDB does not panic.
THEOREM CleanRestarts == Spec => []CleanRestart
<1>1. MgrInv => CleanRestart
  BY DEF MgrInv
<1> QED BY <1>1, MgrInvHolds, PTL
=============================================================================
