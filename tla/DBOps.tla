------------------------------- MODULE DBOps --------------------------------
(***************************************************************************)
(* The operations of the key-value database of pkg/db, in which            *)
(* syz-manager keeps its corpora: an in-memory map, mirrored by an         *)
(* append-only file that is rewritten (compacted) when too many of its     *)
(* records are obsolete.                                                   *)
(*                                                                         *)
(* A database is a record; Save, Delete, Flush, Open and compact are       *)
(* functions from databases to databases, named as in the code.  A record  *)
(* on disk is a key with a value (Val and Seq of the code), or with None   *)
(* for seqDeleted; whole is FALSE for the record at which an interrupted   *)
(* write was cut off.                                                      *)
(***************************************************************************)
EXTENDS Integers, Sequences, FiniteSets

CONSTANTS
    Key,
    Val,
    None,    \* no value: the key is absent
    Batch    \* 10 in the code: the divisor of the compaction rule

ASSUME DBAssumption ==
    /\ IsFiniteSet(Key)
    /\ None \notin Val
    /\ Batch \in Nat \ {0}

Content == [Key -> Val \cup {None}]
Entry == [key : Key, val : Val \cup {None}, whole : BOOLEAN]

\* file is on disk; the rest is the DB object of the running process.
Database == [file : Seq(Entry), open : BOOLEAN, Records : Content,
             uncompacted : Nat, pending : Seq(Entry)]

Absent == [k \in Key |-> None]
present(recs) == {k \in Key : recs[k] # None}
record(k, v) == [key |-> k, val |-> v, whole |-> TRUE]

----------------------------------------------------------------------------
(* Reading. *)

\* deserializeDB stops at the first record it cannot decode, ...
readable(log) == {i \in DOMAIN log : \A j \in 1..i : log[j].whole}
hits(log, k) == {i \in readable(log) : log[i].key = k}
latest(S) == CHOOSE i \in S : \A j \in S : j <= i
\* ... and for each key the last record decoded wins.
deserializeDB(log) ==
    [k \in Key |-> IF hits(log, k) = {} THEN None
                   ELSE log[latest(hits(log, k))].val]

----------------------------------------------------------------------------
(* Operations on one database. *)

\* The orders in which Go may walk a map with the keys S: each key once.
walks(S) ==
    {s \in [1..Cardinality(S) -> S] :
        /\ \A k \in S : \E i \in DOMAIN s : s[i] = k
        /\ \A i, j \in DOMAIN s : s[i] = s[j] => i = j}
Orders(recs) == walks(present(recs))

\* Variant: the pending writes stay pending.
compact_keeps_pending(db, order) ==
    [db EXCEPT !.file = [i \in DOMAIN order |-> record(order[i], db.Records[order[i]])],
               !.uncompacted = Cardinality(present(db.Records))]
\* Variant: the pending records are taken off the count a second time.
compact_discounts_pending(db, order) ==
    [db EXCEPT !.file = [i \in DOMAIN order |-> record(order[i], db.Records[order[i]])],
               !.uncompacted = Cardinality(present(db.Records)) - Len(db.pending),
               !.pending = <<>>]
\* A new file with the present records replaces the old one (os.Rename).
compact(db, order) ==
    [db EXCEPT !.file = [i \in DOMAIN order |-> record(order[i], db.Records[order[i]])],
               !.uncompacted = Cardinality(present(db.Records)),
               !.pending = <<>>]

must_compact(uncompacted, recs) ==
    (uncompacted \div Batch) * (Batch - 1) > Cardinality(present(recs))

\* The process has not opened the database.
closed(log) == [file |-> log, open |-> FALSE, Records |-> Absent,
                uncompacted |-> 0, pending |-> <<>>]

\* Variant: an opened database is not checked for obsolete records.
Open_uncompacted(log, order) ==
    [file |-> log, open |-> TRUE, Records |-> deserializeDB(log),
     uncompacted |-> Cardinality(readable(log)), pending |-> <<>>]
Open(log, order) ==
    LET db == [file |-> log, open |-> TRUE, Records |-> deserializeDB(log),
               uncompacted |-> Cardinality(readable(log)), pending |-> <<>>]
    IN IF \/ present(db.Records) = {}
          \/ must_compact(db.uncompacted, db.Records)
       THEN compact(db, order)
       ELSE db

write(db, k, v) ==
    [db EXCEPT !.Records = [@ EXCEPT ![k] = v],
               !.pending = Append(@, record(k, v)),
               !.uncompacted = @ + 1]

Save(db, k, v) == IF db.Records[k] = v THEN db ELSE write(db, k, v)
\* Variant: the deletion is not logged.
Delete_unlogged(db, k) == [db EXCEPT !.Records = [@ EXCEPT ![k] = None]]
Delete(db, k) == IF db.Records[k] = None THEN db ELSE write(db, k, None)

append(db) == [db EXCEPT !.file = @ \o db.pending, !.pending = <<>>]

Flush(db, order) ==
    IF must_compact(db.uncompacted, db.Records) THEN compact(db, order)
    ELSE append(db)

\* BumpVersion rewrites the file when the version changes (Version itself is
\* left out) and is a Flush otherwise.
BumpVersion(db, changes, order) ==
    IF changes THEN compact(db, order) ELSE Flush(db, order)

\* The write of Flush is cut off: n whole records are in the file, followed,
\* if torn, by part of the next one.
cut_off(db, n, torn) ==
    db.file \o [i \in 1..(IF torn THEN n + 1 ELSE n) |->
                  [db.pending[i] EXCEPT !.whole = i <= n]]

intact(log) == \A i \in DOMAIN log : log[i].whole
=============================================================================
