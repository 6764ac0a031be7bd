---------------------------- MODULE DBOpsProofs -----------------------------
(***************************************************************************)
(* Facts about the operations of pkg/db, for any keys and values: what     *)
(* reading a file returns after a write, a cut-off write or a compaction,  *)
(* and that every operation leaves a database Good.                        *)
(***************************************************************************)
EXTENDS DBOps, FiniteSetTheorems, SequenceTheorems, WellFoundedInduction, TLAPS

----------------------------------------------------------------------------
(* What reading a file returns. *)

\* A non-empty set of positions has a last one.
LEMMA LatestExists ==
    ASSUME NEW n \in Nat, NEW S \in SUBSET (1..n), S # {}
    PROVE  latest(S) \in S /\ \A j \in S : j <= latest(S)
<1> DEFINE T == {n - i : i \in S}
           R == {p \in Nat \X Nat : p[1] < p[2]}
<1>1. \A i \in S : n - i \in Nat
  OBVIOUS
<1>2. T \subseteq Nat /\ T # {}
  BY <1>1, Zenon
<1>3. IsWellFoundedOn(R, Nat)
  BY NatLessThanWellFounded, Zenon DEF OpToRel
<1>4. PICK x \in T : \A y \in T : ~(<<y, x>> \in R)
  <2> HIDE DEF R, T
  <2> QED BY <1>2, <1>3, WFMin
<1>5. PICK i \in S : x = n - i
  OBVIOUS
<1>6. \A j \in S : j <= i
  <2> TAKE j \in S
  <2>1. n - j \in T /\ n - j \in Nat /\ x \in Nat
    BY <1>1, <1>5
  <2>2. ~(n - j < x)
    BY <1>4, <2>1
  <2> QED BY <2>2, <1>5
<1> QED BY <1>6 DEF latest

LEMMA HitsAreRead ==
    ASSUME NEW log \in Seq(Entry), NEW k \in Key, hits(log, k) # {}
    PROVE  /\ latest(hits(log, k)) \in hits(log, k)
           /\ hits(log, k) \subseteq DOMAIN log
<1>1. /\ Len(log) \in Nat /\ DOMAIN log = 1..Len(log)
      /\ hits(log, k) \in SUBSET (1..Len(log))
  BY DEF hits, readable
<1>2. latest(hits(log, k)) \in hits(log, k)
  <2> DEFINE S == hits(log, k)
             n == Len(log)
  <2>1. n \in Nat /\ S \in SUBSET (1..n) /\ S # {}
    BY <1>1
  <2> HIDE DEF S, n
  <2>2. latest(S) \in S
    BY <2>1, LatestExists
  <2> QED BY <2>2 DEF S
<1> QED BY <1>1, <1>2

LEMMA ReadsContent ==
    ASSUME NEW log \in Seq(Entry)
    PROVE  deserializeDB(log) \in Content
<1>1. ASSUME NEW k \in Key
      PROVE  (IF hits(log, k) = {} THEN None
              ELSE log[latest(hits(log, k))].val) \in Val \cup {None}
  <2>1. CASE hits(log, k) = {}
    BY <2>1
  <2>2. CASE hits(log, k) # {}
    <3>1. latest(hits(log, k)) \in DOMAIN log
      BY <2>2, HitsAreRead
    <3>2. log[latest(hits(log, k))] \in Entry
      BY <3>1
    <3> QED BY <2>2, <3>2 DEF Entry
  <2> QED BY <2>1, <2>2
<1> QED BY <1>1 DEF deserializeDB, Content

\* Logs with the same readable records are read alike.
LEMMA SameReading ==
    ASSUME NEW a \in Seq(Entry), NEW b \in Seq(Entry),
           readable(a) = readable(b), \A i \in readable(a) : a[i] = b[i]
    PROVE  deserializeDB(a) = deserializeDB(b)
<1>1. ASSUME NEW k \in Key
      PROVE  /\ hits(a, k) = hits(b, k)
             /\ hits(a, k) # {} =>
                  a[latest(hits(a, k))] = b[latest(hits(a, k))]
  <2>1. hits(a, k) = hits(b, k)
    BY DEF hits
  <2>2. hits(a, k) # {} => latest(hits(a, k)) \in readable(a)
    BY HitsAreRead DEF hits
  <2> QED BY <2>1, <2>2
<1> QED BY <1>1 DEF deserializeDB

\* Appending a whole record to an intact log is an update of the content.
LEMMA ReadAppended ==
    ASSUME NEW log \in Seq(Entry), intact(log), NEW e \in Entry, e.whole
    PROVE  /\ deserializeDB(Append(log, e))
                = [deserializeDB(log) EXCEPT ![e.key] = e.val]
           /\ intact(Append(log, e))
<1> DEFINE new == Append(log, e)
           N == Len(log) + 1
<1>1. /\ new \in Seq(Entry) /\ DOMAIN new = 1..N /\ DOMAIN log = 1..Len(log)
      /\ new[N] = e /\ Len(log) \in Nat
      /\ \A i \in 1..Len(log) : new[i] = log[i]
  OBVIOUS
<1> HIDE DEF new
<1>2. \A i \in 1..N : new[i].whole
  BY <1>1 DEF intact
<1>3. readable(new) = 1..N /\ readable(log) = 1..Len(log)
  BY <1>1, <1>2 DEF readable, intact
<1>4. ASSUME NEW k \in Key, k # e.key
      PROVE  deserializeDB(new)[k] = deserializeDB(log)[k]
  <2>1. hits(new, k) = hits(log, k)
    BY <1>1, <1>3, <1>4 DEF hits
  <2>2. hits(log, k) # {} => latest(hits(log, k)) \in 1..Len(log)
    BY <1>1, HitsAreRead
  <2> QED BY <1>1, <2>1, <2>2 DEF deserializeDB
<1>5. e.key \in Key
  BY DEF Entry
<1>6. deserializeDB(new)[e.key] = e.val
  <2>1. N \in hits(new, e.key) /\ hits(new, e.key) \subseteq 1..N
    BY <1>1, <1>3 DEF hits
  <2>2. latest(hits(new, e.key)) = N
    BY <1>1, <2>1 DEF latest
  <2> QED BY <1>1, <1>5, <2>1, <2>2 DEF deserializeDB
<1>7. intact(new)
  BY <1>1, <1>2 DEF intact
<1>8. deserializeDB(new) = [k \in Key |-> deserializeDB(new)[k]]
  BY DEF deserializeDB
<1>9. deserializeDB(log) = [k \in Key |-> deserializeDB(log)[k]]
  BY DEF deserializeDB
<1>10. deserializeDB(new) = [deserializeDB(log) EXCEPT ![e.key] = e.val]
  <2> DEFINE f == deserializeDB(new)
             g == deserializeDB(log)
  <2>1. /\ f = [k \in Key |-> f[k]] /\ g = [k \in Key |-> g[k]]
        /\ f[e.key] = e.val /\ \A k \in Key : k # e.key => f[k] = g[k]
    BY <1>4, <1>6, <1>8, <1>9
  <2> HIDE DEF f, g
  <2>2. f = [g EXCEPT ![e.key] = e.val]
    BY <2>1, <1>5
  <2> QED BY <2>2 DEF f, g
<1> QED BY <1>7, <1>10 DEF new

\* Nothing that follows a cut-off record is read.
LEMMA NothingAfterCutOff ==
    ASSUME NEW log \in Seq(Entry), NEW more \in Seq(Entry), ~intact(log)
    PROVE  deserializeDB(log \o more) = deserializeDB(log) /\ ~intact(log \o more)
<1>1. /\ log \o more \in Seq(Entry)
      /\ DOMAIN (log \o more) = 1..(Len(log) + Len(more))
      /\ DOMAIN log = 1..Len(log) /\ Len(log) \in Nat /\ Len(more) \in Nat
      /\ \A i \in DOMAIN log : (log \o more)[i] = log[i]
  OBVIOUS
<1>2. PICK c \in DOMAIN log : ~log[c].whole
  BY DEF intact
<1>3. readable(log \o more) = readable(log)
  <2>1. readable(log \o more) \subseteq DOMAIN log
    BY <1>1, <1>2 DEF readable
  <2>2. \A i \in DOMAIN log : \A j \in 1..i : j \in DOMAIN log
    BY <1>1
  <2> QED BY <1>1, <2>1, <2>2 DEF readable
<1>4. \A i \in readable(log) : (log \o more)[i] = log[i]
  BY <1>1 DEF readable
<1>5. ~intact(log \o more)
  BY <1>1, <1>2 DEF intact
<1> QED BY <1>1, <1>3, <1>4, <1>5, SameReading

\* A cut-off record at the end is not read.
LEMMA CutOffIsNotRead ==
    ASSUME NEW log \in Seq(Entry), NEW e \in Entry, ~e.whole
    PROVE  deserializeDB(Append(log, e)) = deserializeDB(log)
<1>1. /\ Append(log, e) \in Seq(Entry)
      /\ DOMAIN Append(log, e) = 1..(Len(log) + 1)
      /\ DOMAIN log = 1..Len(log) /\ Len(log) \in Nat
      /\ Append(log, e)[Len(log) + 1] = e
      /\ \A i \in DOMAIN log : Append(log, e)[i] = log[i]
  OBVIOUS
<1>2. readable(Append(log, e)) = readable(log)
  <2>1. Len(log) + 1 \notin readable(Append(log, e))
    BY <1>1 DEF readable
  <2>2. readable(Append(log, e)) \subseteq DOMAIN log
    BY <1>1, <2>1 DEF readable
  <2>3. \A i \in DOMAIN log : \A j \in 1..i : j \in DOMAIN log
    BY <1>1
  <2> QED BY <1>1, <2>2, <2>3 DEF readable
<1>3. \A i \in readable(log) : Append(log, e)[i] = log[i]
  BY <1>1 DEF readable
<1> QED BY <1>1, <1>2, <1>3, SameReading

\* A compacted file is read back as the Records, in whatever order they were
\* written.
LEMMA ReadCompacted ==
    ASSUME NEW recs \in Content, NEW order \in Orders(recs)
    PROVE  LET log == [i \in DOMAIN order |-> record(order[i], recs[order[i]])]
           IN /\ log \in Seq(Entry) /\ intact(log)
              /\ Len(log) = Cardinality(present(recs))
              /\ deserializeDB(log) = recs
<1> DEFINE log == [i \in DOMAIN order |-> record(order[i], recs[order[i]])]
           n == Cardinality(present(recs))
<1>1. n \in Nat
  <2>1. present(recs) \subseteq Key
    BY DEF present
  <2> QED BY <2>1, FS_Subset, FS_CardinalityType, DBAssumption
<1>2. /\ order \in [1..n -> present(recs)]
      /\ \A k \in present(recs) : \E i \in 1..n : order[i] = k
      /\ \A i, j \in 1..n : order[i] = order[j] => i = j
  BY DEF Orders, walks
<1> HIDE DEF n
<1>3. \A i \in 1..n : /\ order[i] \in Key
                      /\ recs[order[i]] \in Val \cup {None}
                      /\ log[i] = record(order[i], recs[order[i]])
                      /\ log[i] \in Entry
  BY <1>2 DEF present, Content, record, Entry
<1>4. DOMAIN log = 1..n
  BY <1>2
<1> HIDE DEF log
<1>5. log \in Seq(Entry) /\ Len(log) = n
  <2>1. log = [i \in 1..n |-> log[i]]
    BY <1>2 DEF log
  <2>2. log \in [1..n -> Entry]
    BY <1>3, <2>1
  <2> QED BY <1>1, <2>2
<1>6. \A i \in 1..n : /\ log[i].whole
                      /\ log[i].key = order[i]
                      /\ log[i].val = recs[order[i]]
  <2> TAKE i \in 1..n
  <2>1. log[i] = [key |-> order[i], val |-> recs[order[i]], whole |-> TRUE]
    BY <1>3 DEF record
  <2> QED BY <2>1
<1>7. intact(log) /\ readable(log) = 1..n
  BY <1>1, <1>4, <1>6 DEF intact, readable
<1>8. ASSUME NEW k \in Key
      PROVE  deserializeDB(log)[k] = recs[k]
  <2>1. CASE k \in present(recs)
    <3>1. PICK i \in 1..n : order[i] = k
      BY <1>2, <2>1
    <3>2. hits(log, k) = {i}
      BY <1>2, <1>6, <1>7, <3>1 DEF hits
    <3>3. latest(hits(log, k)) = i
      BY <3>2, <1>1 DEF latest
    <3> QED BY <1>6, <3>1, <3>2, <3>3 DEF deserializeDB
  <2>2. CASE k \notin present(recs)
    <3>1. hits(log, k) = {}
      BY <1>2, <1>6, <1>7, <2>2 DEF hits
    <3>2. recs[k] = None
      BY <2>2 DEF present
    <3> QED BY <3>1, <3>2 DEF deserializeDB
  <2> QED BY <2>1, <2>2
<1>9. deserializeDB(log) = recs
  <2>1. deserializeDB(log) = [k \in Key |-> deserializeDB(log)[k]]
    BY DEF deserializeDB
  <2>2. recs = [k \in Key |-> recs[k]]
    BY DEF Content
  <2> QED BY <1>8, <2>1, <2>2
<1> QED BY <1>5, <1>7, <1>9 DEF log, n

----------------------------------------------------------------------------
(* What every database satisfies. *)

\* The first m pending writes: what a Flush cut off after m records wrote.
first(s, m) == [i \in 1..m |-> s[i]]

\* A database as the operations leave it, P being the contents it ever had.
Good(db, P) ==
    /\ db \in Database
    /\ intact(db.pending)
    /\ ~db.open => db.pending = <<>>
    /\ db.open /\ intact(db.file) =>
         /\ deserializeDB(db.file \o db.pending) = db.Records
         /\ db.uncompacted = Len(db.file) + Len(db.pending)
         /\ db.pending = <<>> => ~must_compact(Len(db.file), db.Records)
    /\ \A m \in 0..Len(db.pending) :
         deserializeDB(db.file \o first(db.pending, m)) \in P

LEMMA First ==
    ASSUME NEW s \in Seq(Entry), NEW m \in 0..Len(s)
    PROVE  /\ first(s, m) \in Seq(Entry) /\ Len(first(s, m)) = m
           /\ \A i \in 1..m : first(s, m)[i] = s[i]
           /\ first(s, Len(s)) = s
           /\ first(s, 0) = <<>>
<1>1. first(s, m) \in [1..m -> Entry] /\ m \in Nat
  BY DEF first
<1>2. first(s, m) \in Seq(Entry) /\ Len(first(s, m)) = m
  BY <1>1
<1>3. \A i \in 1..m : first(s, m)[i] = s[i]
  BY DEF first
<1>4. first(s, Len(s)) = s
  BY DEF first
<1>5. first(s, 0) = <<>>
  BY DEF first
<1> QED BY <1>2, <1>3, <1>4, <1>5

LEMMA FirstOfAppend ==
    ASSUME NEW s \in Seq(Entry), NEW e \in Entry, NEW m \in 0..Len(s)
    PROVE  first(Append(s, e), m) = first(s, m)
<1>1. \A i \in 1..m : Append(s, e)[i] = s[i]
  OBVIOUS
<1> QED BY <1>1 DEF first

LEMMA AppendConcat ==
    ASSUME NEW a \in Seq(Entry), NEW b \in Seq(Entry), NEW e \in Entry
    PROVE  a \o Append(b, e) = Append(a \o b, e)
<1> DEFINE l == a \o Append(b, e)
           r == Append(a \o b, e)
<1>1. l \in Seq(Entry) /\ r \in Seq(Entry) /\ Len(l) = Len(r)
  OBVIOUS
<1>2. \A i \in 1..Len(l) : l[i] = r[i]
  OBVIOUS
<1> HIDE DEF l, r
<1>3. l = r
  BY <1>1, <1>2, SeqEqual
<1> QED BY <1>3 DEF l, r

LEMMA IntactConcat ==
    ASSUME NEW a \in Seq(Entry), NEW b \in Seq(Entry), intact(a), intact(b)
    PROVE  intact(a \o b)
BY DEF intact

LEMMA EmptyIsIntact == intact(<<>>) /\ <<>> \in Seq(Entry) /\ Len(<<>>) = 0
BY DEF intact

LEMMA ContentIsFinite ==
    ASSUME NEW recs \in Content
    PROVE  Cardinality(present(recs)) \in Nat
<1>1. present(recs) \subseteq Key
  BY DEF present
<1> QED BY <1>1, FS_Subset, FS_CardinalityType, DBAssumption

\* Right after a compaction the rule asks for no other one.
LEMMA CompactedEnough ==
    ASSUME NEW recs \in Content
    PROVE  ~must_compact(Cardinality(present(recs)), recs)
<1> DEFINE c == Cardinality(present(recs))
           q == c \div Batch
<1>1. c \in Nat /\ Batch \in Nat /\ Batch > 0
  BY ContentIsFinite, DBAssumption
<1> HIDE DEF c
<1>2. q \in Nat /\ q * Batch <= c
  BY <1>1
<1> HIDE DEF q
<1>3. q * (Batch - 1) = q * Batch - q
  BY <1>1, <1>2
<1>4. q * Batch \in Int
  BY <1>1, <1>2
<1>5. ~(q * (Batch - 1) > c)
  BY <1>1, <1>2, <1>3, <1>4
<1> QED BY <1>5 DEF must_compact, c, q

----------------------------------------------------------------------------
(* Every operation leaves a good database. *)

LEMMA CompactIsGood ==
    ASSUME NEW db \in Database, db.open, NEW order \in Orders(db.Records),
           NEW P, db.Records \in P
    PROVE  Good(compact(db, order), P) /\ compact(db, order).Records = db.Records
<1> DEFINE new == compact(db, order)
           recs == db.Records
           log == [i \in DOMAIN order |-> record(order[i], recs[order[i]])]
<1>1. recs \in Content
  BY DEF Database
<1>2. /\ log \in Seq(Entry) /\ intact(log)
      /\ Len(log) = Cardinality(present(recs))
      /\ deserializeDB(log) = recs
  BY <1>1, ReadCompacted
<1>3. /\ new \in Database /\ new.file = log /\ new.open /\ new.Records = recs
      /\ new.uncompacted = Cardinality(present(recs)) /\ new.pending = <<>>
  BY <1>1, <1>2, ContentIsFinite, EmptyIsIntact DEF compact, Database
<1>4. log \o <<>> = log
  BY <1>2, ConcatEmptySeq
<1>5. ~must_compact(Len(log), recs)
  BY <1>1, <1>2, CompactedEnough
<1>6. Len(log) \in Nat
  BY <1>2
<1>7. \A m \in 0..Len(new.pending) :
        deserializeDB(new.file \o first(new.pending, m)) \in P
  <2> TAKE m \in 0..Len(new.pending)
  <2>1. m = 0
    BY <1>3, EmptyIsIntact
  <2>2. first(new.pending, m) = <<>>
    BY <1>3, <2>1, First, EmptyIsIntact
  <2> QED BY <1>2, <1>3, <1>4, <2>2
<1> HIDE DEF new, log, recs
<1>8. Good(new, P)
  BY <1>2, <1>3, <1>4, <1>5, <1>6, <1>7, EmptyIsIntact DEF Good
<1> QED BY <1>3, <1>8 DEF new, recs

LEMMA GoodWhenMoreIsPast ==
    ASSUME NEW db, NEW P, NEW Q, Good(db, P), P \subseteq Q
    PROVE  Good(db, Q)
BY DEF Good

LEMMA WriteIsGood ==
    ASSUME NEW db, NEW P, Good(db, P), db.open,
           NEW k \in Key, NEW v \in Val \cup {None}
    PROVE  Good(write(db, k, v), P \cup {write(db, k, v).Records})
<1> DEFINE new == write(db, k, v)
           e == record(k, v)
           Q == P \cup {new.Records}
<1>1. /\ db \in Database /\ db.file \in Seq(Entry) /\ db.pending \in Seq(Entry)
      /\ db.Records \in Content /\ db.uncompacted \in Nat
  BY DEF Good, Database
<1>2. e \in Entry /\ e.whole /\ e.key = k /\ e.val = v
  BY DEF record, Entry
<1> HIDE DEF e
<1>3. /\ new.file = db.file /\ new.open /\ new.pending = Append(db.pending, e)
      /\ new.Records = [db.Records EXCEPT ![k] = v]
      /\ new.uncompacted = db.uncompacted + 1
  BY <1>1 DEF write, Database, e
<1>4. new.Records \in Content
  BY <1>1, <1>3 DEF Content
<1>5. new \in Database
  <2>1. Append(db.pending, e) \in Seq(Entry)
    BY <1>1, <1>2
  <2>2. db.uncompacted + 1 \in Nat /\ [db.Records EXCEPT ![k] = v] \in Content
    BY <1>1, <1>3, <1>4
  <2> DEFINE pnd == Append(db.pending, e)
             rcs == [db.Records EXCEPT ![k] = v]
             unc == db.uncompacted + 1
  <2>3. new = [db EXCEPT !.Records = rcs, !.pending = pnd, !.uncompacted = unc]
    BY DEF write, e
  <2>4. pnd \in Seq(Entry) /\ rcs \in Content /\ unc \in Nat
    BY <2>1, <2>2
  <2> HIDE DEF new, pnd, rcs, unc
  <2> QED BY <1>1, <2>3, <2>4 DEF Database
<1> HIDE DEF new
<1>6. intact(new.pending)
  BY <1>1, <1>2, <1>3, ReadAppended DEF Good
<1>7. ASSUME intact(db.file)
      PROVE  /\ deserializeDB(new.file \o new.pending) = new.Records
             /\ new.uncompacted = Len(new.file) + Len(new.pending)
  <2> DEFINE log == db.file \o db.pending
  <2>1. log \in Seq(Entry) /\ intact(log)
    BY <1>1, <1>7, IntactConcat DEF Good
  <2>2. new.file \o new.pending = Append(log, e)
    <3>1. db.file \o Append(db.pending, e) = Append(log, e)
      BY <1>1, <1>2, AppendConcat
    <3> QED BY <1>3, <3>1
  <2>3. deserializeDB(log) = db.Records
    BY <1>7 DEF Good
  <2> HIDE DEF log
  <2>4. deserializeDB(Append(log, e)) = [db.Records EXCEPT ![k] = v]
    BY <1>2, <2>1, <2>3, ReadAppended
  <2>5. db.uncompacted = Len(db.file) + Len(db.pending)
    BY <1>7 DEF Good
  <2>6. Len(Append(db.pending, e)) = Len(db.pending) + 1
    BY <1>1, <1>2
  <2>7. Len(db.file) \in Nat /\ Len(db.pending) \in Nat
    BY <1>1
  <2>8. deserializeDB(new.file \o new.pending) = new.Records
    BY <1>3, <2>2, <2>4
  <2>9. new.uncompacted = Len(new.file) + Len(new.pending)
    <3>1. db.uncompacted + 1 = Len(db.file) + Len(Append(db.pending, e))
      <4> DEFINE a == Len(db.file)
                 b == Len(db.pending)
                 c == Len(Append(db.pending, e))
                 u == db.uncompacted
      <4>1. a \in Nat /\ b \in Nat /\ c = b + 1 /\ u = a + b
        BY <2>5, <2>6, <2>7, Zenon
      <4> HIDE DEF a, b, c, u
      <4>2. u + 1 = a + c
        BY <4>1
      <4> QED BY <4>2, Zenon DEF a, c, u
    <3> QED BY <1>3, <3>1, Zenon
  <2> QED BY <2>8, <2>9
<1>8. ASSUME NEW m \in 0..Len(new.pending)
      PROVE  deserializeDB(new.file \o first(new.pending, m)) \in Q
  <2>1. /\ Len(new.pending) = Len(db.pending) + 1 /\ Len(db.pending) \in Nat
        /\ new.pending \in Seq(Entry)
    BY <1>1, <1>2, <1>3
  <2>2. CASE m \in 0..Len(db.pending)
    <3>1. first(new.pending, m) = first(db.pending, m)
      BY <1>1, <1>2, <1>3, <2>2, FirstOfAppend
    <3>2. deserializeDB(db.file \o first(db.pending, m)) \in P
      BY <2>2 DEF Good
    <3> QED BY <1>3, <3>1, <3>2
  <2>3. CASE m = Len(new.pending)
    <3>1. first(new.pending, m) = new.pending
      BY <2>1, <2>3, First
    <3>2. CASE intact(db.file)
      BY <1>7, <3>1, <3>2
    <3>3. CASE ~intact(db.file)
      <4>1. deserializeDB(new.file \o new.pending) = deserializeDB(db.file)
        BY <1>1, <1>3, <2>1, <3>3, NothingAfterCutOff
      <4>2. deserializeDB(db.file \o db.pending) = deserializeDB(db.file)
        BY <1>1, <3>3, NothingAfterCutOff
      <4>3. deserializeDB(db.file \o first(db.pending, Len(db.pending))) \in P
        BY <2>1 DEF Good
      <4>4. first(db.pending, Len(db.pending)) = db.pending
        BY <1>1, <2>1, First
      <4> QED BY <3>1, <4>1, <4>2, <4>3, <4>4
    <3> QED BY <3>2, <3>3
  <2> QED BY <2>1, <2>2, <2>3
<1>9. new.pending # <<>>
  <2>1. Len(Append(db.pending, e)) = Len(db.pending) + 1 /\ Len(db.pending) \in Nat
    BY <1>1, <1>2
  <2>2. Len(Append(db.pending, e)) # Len(<<>>)
    BY <2>1
  <2> QED BY <1>3, <2>2, Zenon
<1>10. Good(new, Q)
  BY <1>3, <1>5, <1>6, <1>7, <1>8, <1>9 DEF Good
<1> QED BY <1>10 DEF new

LEMMA AppendIsGood ==
    ASSUME NEW db, NEW P, Good(db, P), db.open,
           ~must_compact(db.uncompacted, db.Records)
    PROVE  Good(append(db), P) /\ append(db).Records = db.Records
<1> DEFINE new == append(db)
           log == db.file \o db.pending
<1>1. /\ db \in Database /\ db.file \in Seq(Entry) /\ db.pending \in Seq(Entry)
      /\ db.Records \in Content
  BY DEF Good, Database
<1>2. log \in Seq(Entry) /\ Len(log) = Len(db.file) + Len(db.pending)
  BY <1>1
<1> HIDE DEF log
<1>3. new = [db EXCEPT !.file = log, !.pending = <<>>]
  BY DEF append, log
<1>4. /\ new \in Database /\ new.file = log /\ new.open /\ new.pending = <<>>
      /\ new.Records = db.Records /\ new.uncompacted = db.uncompacted
  BY <1>1, <1>2, <1>3, EmptyIsIntact DEF Database
<1> HIDE DEF new
<1>5. log \o <<>> = log
  BY <1>2, ConcatEmptySeq
<1>6. intact(log) => intact(db.file)
  BY <1>1, NothingAfterCutOff DEF log
<1>7. ASSUME intact(log)
      PROVE  /\ deserializeDB(log) = db.Records
             /\ db.uncompacted = Len(log)
             /\ ~must_compact(Len(log), db.Records)
  <2>1. deserializeDB(log) = db.Records
    BY <1>6, <1>7 DEF Good, log
  <2>2. db.uncompacted = Len(log)
    BY <1>2, <1>6, <1>7 DEF Good
  <2> QED BY <2>1, <2>2
<1>8. deserializeDB(log) \in P
  <2>1. Len(db.pending) \in 0..Len(db.pending)
    BY <1>1
  <2>2. deserializeDB(db.file \o first(db.pending, Len(db.pending))) \in P
    BY <2>1 DEF Good
  <2> QED BY <1>1, <2>1, <2>2, First DEF log
<1>9. \A m \in 0..Len(new.pending) :
        deserializeDB(new.file \o first(new.pending, m)) \in P
  <2> TAKE m \in 0..Len(new.pending)
  <2>1. m = 0
    BY <1>4, EmptyIsIntact
  <2>2. first(new.pending, m) = <<>>
    BY <1>4, <2>1, First, EmptyIsIntact
  <2> QED BY <1>4, <1>5, <1>8, <2>2
<1>10. Len(log) \in Nat /\ Len(log) + 0 = Len(log)
  <2>1. Len(log) \in Nat
    BY <1>2, LenProperties
  <2> QED BY <2>1
<1>11. Good(new, P)
  BY <1>4, <1>5, <1>7, <1>9, <1>10, EmptyIsIntact DEF Good
<1> QED BY <1>4, <1>11 DEF new

LEMMA FlushIsGood ==
    ASSUME NEW db, NEW P, Good(db, P), db.open, NEW order \in Orders(db.Records)
    PROVE  Good(Flush(db, order), P \cup {Flush(db, order).Records})
<1> DEFINE Q == P \cup {db.Records}
<1>1. db \in Database /\ Good(db, Q) /\ db.Records \in Q
  BY DEF Good
<1>2. CASE must_compact(db.uncompacted, db.Records)
  BY <1>1, <1>2, CompactIsGood DEF Flush
<1>3. CASE ~must_compact(db.uncompacted, db.Records)
  BY <1>1, <1>3, AppendIsGood DEF Flush
<1> QED BY <1>2, <1>3

LEMMA BumpVersionIsGood ==
    ASSUME NEW db, NEW P, Good(db, P), db.open, NEW order \in Orders(db.Records),
           NEW changes \in BOOLEAN
    PROVE  Good(BumpVersion(db, changes, order),
                P \cup {BumpVersion(db, changes, order).Records})
<1>1. CASE changes
  <2> DEFINE Q == P \cup {db.Records}
  <2>1. db \in Database /\ db.Records \in Q
    BY DEF Good
  <2> QED BY <1>1, <2>1, CompactIsGood DEF BumpVersion
<1>2. CASE ~changes
  BY <1>2, FlushIsGood DEF BumpVersion
<1> QED BY <1>1, <1>2

\* What the next process may find: a file whose content is a past one.
LEMMA ClosedIsGood ==
    ASSUME NEW log \in Seq(Entry), NEW P, deserializeDB(log) \in P
    PROVE  Good(closed(log), P)
<1> DEFINE db == closed(log)
<1>1. Absent \in Content
  BY DEF Absent, Content
<1>2. db \in Database /\ db.file = log /\ ~db.open /\ db.pending = <<>>
  BY <1>1, EmptyIsIntact DEF closed, Database
<1> HIDE DEF db
<1>3. \A m \in 0..Len(db.pending) :
        deserializeDB(db.file \o first(db.pending, m)) \in P
  <2> TAKE m \in 0..Len(db.pending)
  <2>1. m = 0
    BY <1>2, EmptyIsIntact
  <2>2. first(db.pending, m) = <<>>
    BY <1>2, <2>1, First, EmptyIsIntact
  <2>3. log \o <<>> = log
    BY ConcatEmptySeq
  <2> QED BY <1>2, <2>2, <2>3
<1>4. Good(db, P)
  BY <1>2, <1>3, EmptyIsIntact DEF Good
<1> QED BY <1>4 DEF db

LEMMA FileIsPast ==
    ASSUME NEW db, NEW P, Good(db, P)
    PROVE  db.file \in Seq(Entry) /\ deserializeDB(db.file) \in P
<1>1. db.file \in Seq(Entry) /\ db.pending \in Seq(Entry)
  BY DEF Good, Database
<1>2. 0 \in 0..Len(db.pending)
  BY <1>1
<1>3. deserializeDB(db.file \o first(db.pending, 0)) \in P
  BY <1>2 DEF Good
<1>4. first(db.pending, 0) = <<>> /\ db.file \o <<>> = db.file
  BY <1>1, <1>2, First, ConcatEmptySeq
<1> QED BY <1>1, <1>3, <1>4

LEMMA OpenIsGood ==
    ASSUME NEW log \in Seq(Entry), NEW P, deserializeDB(log) \in P,
           NEW order \in Orders(deserializeDB(log))
    PROVE  Good(Open(log, order), P \cup {Open(log, order).Records})
<1> DEFINE recs == deserializeDB(log)
           c == Cardinality(readable(log))
           db == [file |-> log, open |-> TRUE, Records |-> recs,
                  uncompacted |-> c, pending |-> <<>>]
           must == present(db.Records) = {} \/ must_compact(db.uncompacted, db.Records)
<1>1. Open(log, order) = IF must THEN compact(db, order) ELSE db
  BY DEF Open
<1>2. recs \in Content
  BY ReadsContent
<1>3. c \in Nat
  <2>1. readable(log) \subseteq 1..Len(log) /\ Len(log) \in Int /\ 1 \in Int
    BY DEF readable
  <2>2. IsFiniteSet(1..Len(log))
    BY <2>1, FS_Interval
  <2> QED BY <2>1, <2>2, FS_Subset, FS_CardinalityType
<1>4. intact(log) => c = Len(log)
  <2> HAVE intact(log)
  <2>1. readable(log) = 1..Len(log) /\ Len(log) \in Nat
    BY DEF intact, readable
  <2>2. \A n \in Nat : Cardinality(1..n) = n
    <3> TAKE n \in Nat
    <3>1. 1 \in Int /\ n \in Int
      OBVIOUS
    <3>2. Cardinality(1..n) = IF 1 > n THEN 0 ELSE n - 1 + 1
      BY <3>1, FS_Interval, Zenon
    <3> QED BY <3>2
  <2> QED BY <2>1, <2>2
<1> HIDE DEF c, recs
<1>5. /\ db \in Database /\ db.open /\ db.Records = recs /\ db.file = log
      /\ db.pending = <<>> /\ db.uncompacted = c
  BY <1>2, <1>3, EmptyIsIntact DEF Database
<1>6. log \o <<>> = log /\ Len(log) \in Nat
  BY ConcatEmptySeq
<1> HIDE DEF db
<1>7. CASE must
  <2>1. order \in Orders(db.Records) /\ db.Records \in P \cup {db.Records}
    BY <1>5 DEF recs
  <2>2. Good(compact(db, order), P \cup {db.Records})
        /\ compact(db, order).Records = db.Records
    BY <1>5, <2>1, CompactIsGood
  <2> QED BY <1>1, <1>7, <2>2
<1>8. CASE ~must
  <2>1. \A m \in 0..Len(db.pending) :
          deserializeDB(db.file \o first(db.pending, m)) \in P
    <3> TAKE m \in 0..Len(db.pending)
    <3>1. m = 0
      BY <1>5, EmptyIsIntact
    <3>2. first(db.pending, m) = <<>>
      BY <1>5, <3>1, First, EmptyIsIntact
    <3> QED BY <1>5, <1>6, <3>2
  <2>2. ~must_compact(c, recs)
    BY <1>5, <1>8
  <2>3. Len(log) + 0 = Len(log)
    BY <1>6
  <2>4. Good(db, P)
    BY <1>4, <1>5, <1>6, <2>1, <2>2, <2>3, EmptyIsIntact DEF Good, recs
  <2> QED BY <1>1, <1>8, <2>4, GoodWhenMoreIsPast
<1> QED BY <1>7, <1>8

\* A Flush that was cut off has written a prefix of the pending records, of
\* which the last is perhaps not whole.
LEMMA CutOffIsPast ==
    ASSUME NEW db, NEW P, Good(db, P), NEW m \in 0..(Len(db.pending) - 1),
           NEW torn \in BOOLEAN
    PROVE  /\ cut_off(db, m, torn) \in Seq(Entry)
           /\ deserializeDB(cut_off(db, m, torn)) \in P
<1> DEFINE prefix == first(db.pending, m)
           base == db.file \o prefix
           e == [db.pending[m + 1] EXCEPT !.whole = FALSE]
           written == [i \in 1..(IF torn THEN m + 1 ELSE m) |->
                         [db.pending[i] EXCEPT !.whole = i <= m]]
<1>1. /\ db.file \in Seq(Entry) /\ db.pending \in Seq(Entry)
      /\ intact(db.pending)
  BY DEF Good, Database
<1>2. /\ Len(db.pending) \in Nat /\ m \in Nat /\ m + 1 \in 1..Len(db.pending)
      /\ m \in 0..Len(db.pending)
  BY <1>1
<1>3. /\ prefix \in Seq(Entry) /\ Len(prefix) = m
      /\ \A i \in 1..m : prefix[i] = db.pending[i]
  BY <1>1, <1>2, First
<1>4. base \in Seq(Entry) /\ deserializeDB(base) \in P
  <2>1. base \in Seq(Entry)
    BY <1>1, <1>3
  <2> QED BY <1>2, <2>1 DEF Good
<1>5. e \in Entry /\ ~e.whole
  <2>1. db.pending[m + 1] \in Entry
    BY <1>1, <1>2
  <2> QED BY <2>1 DEF Entry
<1>6. \A i \in 1..m : [db.pending[i] EXCEPT !.whole = i <= m] = db.pending[i]
  <2> TAKE i \in 1..m
  <2>1. i \in DOMAIN db.pending /\ i <= m
    BY <1>1, <1>2
  <2>2. db.pending[i] \in Entry /\ db.pending[i].whole
    BY <1>1, <2>1 DEF intact
  <2>3. db.pending[i].whole = TRUE
    BY <2>2 DEF Entry
  <2>4. (i <= m) = TRUE
    BY <2>1, <1>2
  <2> QED BY <2>2, <2>3, <2>4 DEF Entry
<1>7. CASE ~torn
  <2>1. written = prefix
    BY <1>6, <1>7 DEF first
  <2> QED BY <1>4, <2>1 DEF cut_off
<1>8. CASE torn
  <2>1. written = Append(prefix, e)
    <3>1. written = [i \in 1..(m + 1) |->
                       [db.pending[i] EXCEPT !.whole = i <= m]]
      BY <1>8
    <3>2. Append(prefix, e) \in [1..(m + 1) -> Entry] /\ Append(prefix, e)[m + 1] = e
          /\ \A i \in 1..m : Append(prefix, e)[i] = prefix[i]
      <4> HIDE DEF prefix, e
      <4>1. Append(prefix, e) \in Seq(Entry) /\ Len(Append(prefix, e)) = Len(prefix) + 1
            /\ Append(prefix, e)[Len(prefix) + 1] = e
            /\ \A i \in 1..Len(prefix) : Append(prefix, e)[i] = prefix[i]
        BY <1>3, <1>5
      <4> DEFINE ap == Append(prefix, e)
      <4>2. ap \in [1..Len(ap) -> Entry]
        BY <4>1, LenProperties, Zenon
      <4> HIDE DEF ap
      <4>3. Len(ap) = m + 1 /\ ap[m + 1] = e
            /\ \A i \in 1..m : ap[i] = prefix[i]
        BY <1>3, <4>1, Zenon DEF ap
      <4>4. ap \in [1..(m + 1) -> Entry]
        BY <4>2, <4>3, Zenon
      <4> QED BY <4>3, <4>4, Zenon DEF ap
    <3>3. [db.pending[m + 1] EXCEPT !.whole = m + 1 <= m] = e
      <4>1. (m + 1 <= m) = FALSE
        BY <1>2
      <4> QED BY <4>1
    <3>4. \A i \in 1..(m + 1) : [db.pending[i] EXCEPT !.whole = i <= m]
                                   = Append(prefix, e)[i]
      <4> TAKE i \in 1..(m + 1)
      <4>1. CASE i = m + 1
        BY <3>2, <3>3, <4>1
      <4>2. CASE i \in 1..m
        BY <1>3, <1>6, <3>2, <4>2
      <4>3. i = m + 1 \/ i \in 1..m
        BY <1>2
      <4> QED BY <4>1, <4>2, <4>3
    <3> HIDE DEF prefix, e, written
    <3> QED BY <3>1, <3>2, <3>4
  <2>2. db.file \o written = Append(base, e)
    <3>1. db.file \o Append(prefix, e) = Append(db.file \o prefix, e)
      <4> HIDE DEF prefix, e
      <4> QED BY <1>1, <1>3, <1>5, AppendConcat
    <3> QED BY <2>1, <3>1, Zenon
  <2>3. cut_off(db, m, torn) = Append(base, e)
    BY <2>2 DEF cut_off
  <2> HIDE DEF base, e
  <2>4. Append(base, e) \in Seq(Entry) /\ deserializeDB(Append(base, e)) \in P
    BY <1>4, <1>5, CutOffIsNotRead
  <2> QED BY <2>3, <2>4
<1> QED BY <1>7, <1>8

----------------------------------------------------------------------------
(* What the operations leave in memory and on disk. *)

LEMMA CompactReads ==
    ASSUME NEW db \in Database, NEW order \in Orders(db.Records)
    PROVE  LET new == compact(db, order)
           IN /\ new.open = db.open /\ new.Records = db.Records /\ new.pending = <<>>
              /\ intact(new.file) /\ deserializeDB(new.file) = db.Records
<1> DEFINE recs == db.Records
           log == [i \in DOMAIN order |-> record(order[i], recs[order[i]])]
<1>1. recs \in Content
  BY DEF Database
<1>2. intact(log) /\ deserializeDB(log) = recs
  BY <1>1, ReadCompacted
<1>3. LET new == compact(db, order)
      IN /\ new.file = log /\ new.open = db.open /\ new.Records = recs
         /\ new.pending = <<>>
  BY DEF compact, Database
<1> QED BY <1>2, <1>3

\* Open takes the content of the file into memory, and keeps it on disk.
LEMMA OpenReads ==
    ASSUME NEW log \in Seq(Entry), NEW order \in Orders(deserializeDB(log))
    PROVE  LET new == Open(log, order)
           IN /\ new.open /\ new.Records = deserializeDB(log) /\ new.pending = <<>>
              /\ deserializeDB(new.file) = deserializeDB(log)
              /\ intact(log) => intact(new.file)
<1> DEFINE recs == deserializeDB(log)
           c == Cardinality(readable(log))
           db == [file |-> log, open |-> TRUE, Records |-> recs,
                  uncompacted |-> c, pending |-> <<>>]
           must == present(db.Records) = {} \/ must_compact(db.uncompacted, db.Records)
<1>1. Open(log, order) = IF must THEN compact(db, order) ELSE db
  BY DEF Open
<1>2. recs \in Content
  BY ReadsContent
<1>3. c \in Nat
  <2>1. readable(log) \subseteq 1..Len(log) /\ Len(log) \in Int /\ 1 \in Int
    BY DEF readable
  <2>2. IsFiniteSet(1..Len(log))
    BY <2>1, FS_Interval
  <2> QED BY <2>1, <2>2, FS_Subset, FS_CardinalityType
<1> HIDE DEF c, recs
<1>4. /\ db \in Database /\ db.open = TRUE /\ db.Records = recs /\ db.file = log
      /\ db.pending = <<>>
  BY <1>2, <1>3, EmptyIsIntact DEF Database
<1> HIDE DEF db
<1>5. CASE must
  <2>1. order \in Orders(db.Records)
    BY <1>4 DEF recs
  <2> QED BY <1>1, <1>4, <1>5, <2>1, CompactReads DEF recs
<1>6. CASE ~must
  BY <1>1, <1>4, <1>6 DEF recs
<1> QED BY <1>5, <1>6

\* After a Flush an intact file holds the Records.
LEMMA FlushReads ==
    ASSUME NEW db, NEW P, Good(db, P), db.open, NEW order \in Orders(db.Records)
    PROVE  LET new == Flush(db, order)
           IN /\ new.open /\ new.Records = db.Records /\ new.pending = <<>>
              /\ intact(new.file) => deserializeDB(new.file) = db.Records
              /\ intact(db.file) => intact(new.file)
<1>1. /\ db \in Database /\ db.file \in Seq(Entry) /\ db.pending \in Seq(Entry)
      /\ intact(db.pending)
  BY DEF Good, Database
<1>2. CASE must_compact(db.uncompacted, db.Records)
  BY <1>1, <1>2, CompactReads DEF Flush
<1>3. CASE ~must_compact(db.uncompacted, db.Records)
  <2> DEFINE log == db.file \o db.pending
  <2>1. /\ append(db).file = log /\ append(db).open /\ append(db).pending = <<>>
        /\ append(db).Records = db.Records
    BY <1>1 DEF append, Database
  <2>2. intact(log) => intact(db.file) /\ deserializeDB(log) = db.Records
    BY <1>1, NothingAfterCutOff DEF Good
  <2>3. intact(db.file) => intact(log)
    BY <1>1, IntactConcat
  <2> QED BY <1>3, <2>1, <2>2, <2>3 DEF Flush
<1> QED BY <1>2, <1>3
=============================================================================
