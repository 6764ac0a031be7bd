----------------------------- MODULE GateProofs -----------------------------
(***************************************************************************)
(* Proofs for module Gate: for any processes and any number of slots no    *)
(* "broken gate" panic is reached, the window is bounded, and f is called  *)
(* once per batch.                                                         *)
(***************************************************************************)
EXTENDS Gate, FiniteSetTheorems, TLAPS

Leaving == {p \in Proc : pc[p] \in {"leave_wait", "leave_woken"}}

\* How many activities ago slot i was handed out, when slot at is the next.
behind(at, i) == IF i < at THEN at - i ELSE at - i + C

TicketsHeld ==
    /\ \A p, q \in Inside : ticket[p] = ticket[q] => p = q
    /\ \A i \in Slot : busy[i] <=> \E p \in Inside : ticket[p] = i
    /\ running = Cardinality(Inside)

\* The number of an activity follows from its slot.
Numbered == \A p \in Inside : number[p] = entered - behind(pos, ticket[p])

OneStops ==
    /\ stop <=> \E p \in Proc : p \in Leaving
    /\ \A p, q \in Leaving : p = q
    /\ stop => ~busy[0] /\ with_f

\* f has been called once per batch, except for the batch whose slot 0 is
\* still held or whose call is under way.
due == busy[0] \/ stop
CallsCounted ==
    with_f => entered = C * called + (IF pos = 0 THEN (IF due THEN C ELSE 0)
                                      ELSE (IF due THEN pos ELSE pos - C))

GateInv == GateTypeOK /\ TicketsHeld /\ Numbered /\ OneStops /\ CallsCounted

----------------------------------------------------------------------------
LEMMA SlotsCounted ==
    /\ IsFiniteSet(Slot) /\ Cardinality(Slot) = C
    /\ C \in Nat /\ C >= 1 /\ 0 \in Slot
<1>1. C \in Nat /\ C >= 1 /\ 0 \in Int /\ C - 1 \in Int
  BY GateAssumption
<1>2. IsFiniteSet(0..(C - 1))
      /\ Cardinality(0..(C - 1)) = IF 0 > C - 1 THEN 0 ELSE C - 1 - 0 + 1
  BY <1>1, FS_Interval, Zenon
<1> QED BY <1>1, <1>2 DEF Slot

\* Processes with different slots are at most C.
LEMMA AtMostC ==
    ASSUME NEW S \in SUBSET Proc, NEW f \in [Proc -> Slot],
           \A p, q \in S : f[p] = f[q] => p = q
    PROVE  Cardinality(S) \in 0..C
<1> DEFINE g == [p \in S |-> f[p]]
<1>1. IsFiniteSet(S) /\ Cardinality(S) \in Nat
  BY FS_Subset, FS_CardinalityType, GateAssumption
<1>2. g \in [S -> Slot]
  OBVIOUS
<1>3. ASSUME C < Cardinality(S) PROVE FALSE
  <2>1. \E x, y \in S : x # y /\ g[x] = g[y]
    <3> HIDE DEF g
    <3> QED BY <1>1, <1>2, <1>3, SlotsCounted, FS_PigeonHole
  <2> QED BY <2>1
<1> QED BY <1>1, <1>3, SlotsCounted

\* What changes when p starts or ends an activity.
LEMMA InsideCounted ==
    ASSUME GateTypeOK, NEW p \in Proc
    PROVE  /\ p \notin Inside => Cardinality(Inside \cup {p}) = Cardinality(Inside) + 1
           /\ p \in Inside => Cardinality(Inside \ {p}) = Cardinality(Inside) - 1
           /\ Cardinality(Inside) \in Nat
           /\ Cardinality(Inside) = 0 => Inside = {}
<1>1. IsFiniteSet(Inside)
  BY FS_Subset, GateAssumption DEF Inside
<1> QED BY <1>1, FS_AddElement, FS_RemoveElement, FS_CardinalityType, FS_EmptySet

LEMMA EnterPreserves ==
    ASSUME GateInv, NEW p \in Proc, Enter(p)
    PROVE  GateInv'
<1> USE DEF GateInv
<1>0. pc[p] # "running" /\ p \notin Leaving /\ p \notin Inside
  BY DEF Enter, Leaving, Inside
<1>1. CASE must_wait
  <2>1. /\ pc' = [pc EXCEPT ![p] = "enter_wait"]
        /\ UNCHANGED <<busy, pos, running, ticket, number, entered, rounds,
                       with_f, stop, called>>
    BY <1>1 DEF Enter
  <2>2. Inside' = Inside /\ Leaving' = Leaving
    BY <1>0, <2>1 DEF Inside, Leaving, GateTypeOK
  <2>3. GateTypeOK'
    BY <2>1 DEF GateTypeOK, PC
  <2>4. TicketsHeld' /\ Numbered'
    BY <2>1, <2>2 DEF TicketsHeld, Numbered, behind
  <2>5. OneStops' /\ CallsCounted'
    BY <2>1, <2>2 DEF OneStops, CallsCounted, due
  <2> QED BY <2>3, <2>4, <2>5
<1>2. CASE ~must_wait
  <2>1. /\ ticket' = [ticket EXCEPT ![p] = pos] /\ pos' = next_slot(pos)
        /\ busy' = [busy EXCEPT ![pos] = TRUE] /\ running' = running + 1
        /\ pc' = [pc EXCEPT ![p] = "running"]
        /\ number' = [number EXCEPT ![p] = entered] /\ entered' = entered + 1
        /\ rounds' = [rounds EXCEPT ![p] = @ + 1]
        /\ UNCHANGED <<with_f, stop, called>>
    BY <1>2 DEF Enter
  <2>2. ~busy[pos] /\ ~stop /\ pos \in Slot /\ pc \in [Proc -> PC]
    BY <1>2 DEF must_wait, GateTypeOK
  <2>3. Inside' = Inside \cup {p} /\ Leaving' = Leaving
    BY <1>0, <2>1, <2>2 DEF Inside, Leaving
  <2>4. \A q \in Inside : q # p /\ ticket[q] # pos /\ ticket'[q] = ticket[q]
                          /\ number'[q] = number[q]
    BY <1>0, <2>1, <2>2 DEF TicketsHeld, GateTypeOK, Inside
  <2>5. ticket'[p] = pos /\ number'[p] = entered
    BY <2>1 DEF GateTypeOK
  <2>6. TicketsHeld'
    <3>1. \A q, r \in Inside' : ticket'[q] = ticket'[r] => q = r
      BY <2>3, <2>4, <2>5 DEF TicketsHeld
    <3>2. \A i \in Slot : busy'[i] <=> \E q \in Inside' : ticket'[q] = i
      BY <2>1, <2>2, <2>3, <2>4, <2>5 DEF TicketsHeld, GateTypeOK
    <3>3. running' = Cardinality(Inside')
      BY <1>0, <2>1, <2>3, InsideCounted DEF TicketsHeld
    <3> QED BY <3>1, <3>2, <3>3 DEF TicketsHeld
  <2>7. pos' \in Slot /\ pos' = (IF pos + 1 >= C THEN 0 ELSE pos + 1)
    BY <2>1, <2>2, SlotsCounted DEF next_slot, Slot
  <2>8. GateTypeOK'
    <3>1. ticket' \in [Proc -> Slot]
      BY <2>1, <2>2 DEF GateTypeOK
    <3>2. running' \in 0..C
      <4>1. Inside' \in SUBSET Proc
        BY DEF Inside
      <4>2. \A q, r \in Inside' : ticket'[q] = ticket'[r] => q = r
        BY <2>6 DEF TicketsHeld
      <4>3. Cardinality(Inside') \in 0..C
        BY <3>1, <4>1, <4>2, AtMostC
      <4> QED BY <2>6, <4>3 DEF TicketsHeld
    <3>3. rounds' \in [Proc -> 0..MaxRounds]
      <4>1. rounds[p] < MaxRounds
        BY DEF Enter
      <4> QED BY <2>1, <4>1, GateAssumption DEF GateTypeOK
    <3> QED BY <2>1, <2>2, <2>7, <3>1, <3>2, <3>3 DEF GateTypeOK, PC
  <2>9. Numbered'
    <3>1. ASSUME NEW q \in Inside, ticket[q] \in Slot, ticket[q] # pos,
                 number[q] = entered - behind(pos, ticket[q])
          PROVE  number[q] = entered' - behind(pos', ticket[q])
      <4>1. \A i \in Slot : i # pos => /\ behind(pos', i) = behind(pos, i) + 1
                                       /\ behind(pos, i) \in Int
        <5> HIDE DEF GateInv
        <5> QED BY <2>2, <2>7, SlotsCounted DEF behind, Slot
      <4>2. entered \in Nat /\ entered' = entered + 1
        BY <2>1 DEF GateTypeOK
      <4> HIDE DEF GateInv
      <4> QED BY <3>1, <4>1, <4>2
    <3>2. entered = entered' - behind(pos', pos)
      <4>1. behind(pos', pos) = 1
        <5> HIDE DEF GateInv
        <5> QED BY <2>2, <2>7, SlotsCounted DEF behind, Slot
      <4>2. entered \in Nat /\ entered' = entered + 1
        BY <2>1 DEF GateTypeOK
      <4> HIDE DEF GateInv
      <4> QED BY <4>1, <4>2
    <3> QED BY <2>3, <2>4, <2>5, <3>1, <3>2 DEF Numbered, GateTypeOK, Inside
  <2>10. OneStops'
    BY <2>1, <2>2, <2>3 DEF OneStops
  <2>11. CallsCounted'
    <3> SUFFICES ASSUME with_f
                 PROVE  entered' = C * called + (IF pos' = 0 THEN (IF due' THEN C ELSE 0)
                                                 ELSE (IF due' THEN pos' ELSE pos' - C))
      BY <2>1 DEF CallsCounted
    <3> DEFINE X == C * called
    <3>1. X \in Int
      BY SlotsCounted DEF GateTypeOK
    <3>2. entered = X + (IF pos = 0 THEN (IF due THEN C ELSE 0)
                         ELSE (IF due THEN pos ELSE pos - C))
      BY DEF CallsCounted
    <3>3. due' <=> due \/ pos = 0
      BY <2>1, <2>2, SlotsCounted DEF due, GateTypeOK
    <3>4. pos = 0 => ~due
      BY <2>2 DEF due
    <3> HIDE DEF X
    <3>5. entered' = entered + 1 /\ pos \in Slot
      BY <2>1, <2>2
    <3> HIDE DEF GateInv
    <3>6. entered' = X + (IF pos' = 0 THEN (IF due' THEN C ELSE 0)
                          ELSE (IF due' THEN pos' ELSE pos' - C))
      BY <2>7, <3>1, <3>2, <3>3, <3>4, <3>5, SlotsCounted DEF Slot
    <3> QED BY <3>6 DEF X
  <2> QED BY <2>6, <2>8, <2>9, <2>10, <2>11
<1> QED BY <1>1, <1>2

\* What is common to all ends of an activity.
LEMMA LeavePreservesTickets ==
    ASSUME GateInv, NEW p \in Proc, Leave(p), pc' \in [Proc -> PC],
           \A q \in Proc : pc'[q] = "running" <=> pc[q] = "running" /\ q # p
    PROVE  TicketsHeld' /\ Numbered' /\ running' \in 0..C /\ Inside' = Inside \ {p}
<1>1. /\ pc[p] = "running" /\ busy' = [busy EXCEPT ![ticket[p]] = FALSE]
      /\ running' = running - 1
      /\ UNCHANGED <<with_f, pos, ticket, number, entered, rounds>>
  BY DEF Leave
<1>2. Inside' = Inside \ {p} /\ p \in Inside
  BY <1>1 DEF Inside
<1>3. ticket[p] \in Slot /\ busy \in [Slot -> BOOLEAN]
  BY DEF GateInv, GateTypeOK
<1>4. \A i \in Slot : busy'[i] <=> \E q \in Inside' : ticket'[q] = i
  BY <1>1, <1>2, <1>3 DEF GateInv, TicketsHeld
<1>5. running' = Cardinality(Inside')
  BY <1>1, <1>2, InsideCounted DEF GateInv, TicketsHeld
<1>6. TicketsHeld'
  BY <1>1, <1>2, <1>4, <1>5 DEF GateInv, TicketsHeld
<1>7. Numbered'
  BY <1>1, <1>2 DEF GateInv, Numbered
<1>8. running' \in 0..C
  <2>1. ticket \in [Proc -> Slot] /\ Inside \ {p} \in SUBSET Proc
    BY DEF GateInv, GateTypeOK, Inside
  <2>2. \A q, r \in Inside \ {p} : ticket[q] = ticket[r] => q = r
    BY DEF GateInv, TicketsHeld
  <2>3. Cardinality(Inside \ {p}) \in 0..C
    BY <2>1, <2>2, AtMostC
  <2> QED BY <1>2, <1>5, <2>3
<1> QED BY <1>2, <1>6, <1>7, <1>8

\* Broadcast moves sleepers only.
LEMMA BroadcastWakes ==
    ASSUME GateTypeOK, NEW p \in Proc, Broadcast(p, "outside")
    PROVE  /\ pc' \in [Proc -> PC]
           /\ \A q \in Proc : pc'[q] = "running" <=> pc[q] = "running" /\ q # p
           /\ Leaving' = Leaving \ {p}
<1>1. \A q \in Proc :
        pc'[q] = IF q = p THEN "outside"
                 ELSE IF pc[q] = "enter_wait" THEN "enter_woken"
                 ELSE IF pc[q] = "leave_wait" THEN "leave_woken" ELSE pc[q]
  BY DEF Broadcast
<1>2. \A q \in Proc : pc[q] \in PC
  BY DEF GateTypeOK
<1>3. pc' \in [Proc -> PC]
  BY <1>2 DEF Broadcast, PC
<1>4. \A q \in Proc : pc'[q] = "running" <=> pc[q] = "running" /\ q # p
  BY <1>1
<1>5. Leaving' = Leaving \ {p}
  BY <1>1 DEF Leaving
<1> QED BY <1>3, <1>4, <1>5

\* The call of f ends a batch.
LEMMA CallCounts ==
    ASSUME GateInv, with_f, due, called' = called + 1, ~due',
           UNCHANGED <<with_f, pos, entered>>
    PROVE  CallsCounted'
<1> DEFINE X == C * called
<1>1. X \in Int /\ C * (called + 1) = X + C
  BY SlotsCounted DEF GateInv, GateTypeOK
<1>2. entered = X + (IF pos = 0 THEN C ELSE pos)
  BY DEF GateInv, CallsCounted
<1>3. pos \in Int
  BY SlotsCounted DEF GateInv, GateTypeOK, Slot
<1> HIDE DEF X
<1>4. entered = (X + C) + (IF pos = 0 THEN 0 ELSE pos - C)
  BY <1>1, <1>2, <1>3, SlotsCounted
<1>5. entered' = C * called' + (IF pos' = 0 THEN 0 ELSE pos' - C)
  BY <1>1, <1>4
<1> QED BY <1>5 DEF CallsCounted

LEMMA LeavePreserves ==
    ASSUME GateInv, NEW p \in Proc, Leave(p)
    PROVE  GateInv'
<1>1. /\ pc[p] = "running" /\ busy' = [busy EXCEPT ![ticket[p]] = FALSE]
      /\ running' = running - 1
      /\ UNCHANGED <<with_f, pos, ticket, number, entered, rounds>>
  BY DEF Leave
<1>2. p \in Inside /\ p \notin Leaving
  BY <1>1 DEF Inside, Leaving
<1>3. /\ ticket[p] \in Slot /\ busy \in [Slot -> BOOLEAN] /\ busy[ticket[p]]
      /\ GateTypeOK /\ pc \in [Proc -> PC] /\ 0 \in Slot /\ busy' \in [Slot -> BOOLEAN]
  BY <1>1, <1>2, SlotsCounted DEF GateInv, GateTypeOK, TicketsHeld
<1>4. CASE ~(ticket[p] = 0 /\ with_f)
  <2>1. UNCHANGED <<stop, called>>
    BY <1>4 DEF Leave
  <2>2. /\ pc' \in [Proc -> PC]
        /\ \A q \in Proc : pc'[q] = "running" <=> pc[q] = "running" /\ q # p
        /\ Leaving' = Leaving
    <3>1. CASE must_wake(ticket[p])
      <4>1. Broadcast(p, "outside")
        BY <1>4, <3>1 DEF Leave
      <4> QED BY <1>2, <1>3, <4>1, BroadcastWakes
    <3>2. CASE ~must_wake(ticket[p])
      <4>1. pc' = [pc EXCEPT ![p] = "outside"]
        BY <1>4, <3>2 DEF Leave
      <4> QED BY <1>2, <1>3, <4>1 DEF Leaving, PC
    <3> QED BY <3>1, <3>2
  <2>3. TicketsHeld' /\ Numbered' /\ running' \in 0..C
    BY <2>2, LeavePreservesTickets
  <2>4. GateTypeOK'
    BY <1>1, <1>3, <2>1, <2>2, <2>3 DEF GateTypeOK
  <2>5. OneStops'
    BY <1>1, <1>3, <2>1, <2>2 DEF GateInv, OneStops
  <2>6. CallsCounted'
    BY <1>1, <1>3, <1>4, <2>1 DEF GateInv, CallsCounted, due
  <2> QED BY <2>3, <2>4, <2>5, <2>6 DEF GateInv
<1>5. CASE ticket[p] = 0 /\ with_f
  <2>1. call_f(p) /\ ~stop /\ Leaving = {}
    <3>1. call_f(p)
      BY <1>5 DEF Leave
    <3>2. ~stop
      BY <1>3, <1>5 DEF GateInv, OneStops
    <3>3. Leaving = {}
      BY <3>2 DEF GateInv, OneStops, Leaving
    <3> QED BY <3>1, <3>2, <3>3
  <2>2. due /\ ~busy'[0]
    BY <1>1, <1>3, <1>5 DEF due
  <2>3. CASE others_run
    <3>1. stop' = TRUE /\ pc' = [pc EXCEPT ![p] = "leave_wait"] /\ UNCHANGED called
      BY <2>1, <2>3 DEF call_f
    <3>2. /\ pc' \in [Proc -> PC] /\ Leaving' = {p}
          /\ \A q \in Proc : pc'[q] = "running" <=> pc[q] = "running" /\ q # p
      BY <1>3, <2>1, <3>1 DEF Leaving, PC
    <3>3. TicketsHeld' /\ Numbered' /\ running' \in 0..C
      BY <3>2, LeavePreservesTickets
    <3>4. GateTypeOK'
      BY <1>1, <1>3, <3>1, <3>2, <3>3 DEF GateTypeOK
    <3>5. OneStops'
      BY <1>1, <1>5, <2>2, <3>1, <3>2 DEF OneStops
    <3>6. due'
      BY <3>1 DEF due
    <3>7. CallsCounted'
      BY <1>1, <2>2, <3>1, <3>6 DEF GateInv, CallsCounted
    <3> QED BY <3>3, <3>4, <3>5, <3>7 DEF GateInv
  <2>4. CASE ~others_run
    <3>1. stop' = FALSE /\ called' = called + 1 /\ Broadcast(p, "outside")
      BY <2>1, <2>4 DEF call_f
    <3>2. /\ pc' \in [Proc -> PC] /\ Leaving' = {}
          /\ \A q \in Proc : pc'[q] = "running" <=> pc[q] = "running" /\ q # p
      BY <1>3, <2>1, <3>1, BroadcastWakes
    <3>3. TicketsHeld' /\ Numbered' /\ running' \in 0..C
      BY <3>2, LeavePreservesTickets
    <3>4. GateTypeOK'
      <4>1. called' \in Nat /\ stop' \in BOOLEAN
        <5>1. called \in Nat /\ called' = called + 1
          BY <1>3, <3>1 DEF GateTypeOK
        <5>2. stop' \in BOOLEAN
          BY <1>3, <3>1
        <5> QED BY <5>1, <5>2
      <4> QED BY <1>1, <1>3, <3>2, <3>3, <4>1 DEF GateTypeOK
    <3>5. OneStops'
      BY <3>1, <3>2 DEF OneStops
    <3>6. CallsCounted'
      BY <1>1, <1>5, <2>2, <3>1, CallCounts DEF due
    <3> QED BY <3>3, <3>4, <3>5, <3>6 DEF GateInv
  <2> QED BY <2>3, <2>4
<1> QED BY <1>4, <1>5

LEMMA ResumePreserves ==
    ASSUME GateInv, NEW p \in Proc, leave_resumes(p)
    PROVE  GateInv'
<1>1. /\ pc[p] = "leave_woken" /\ call_f(p)
      /\ UNCHANGED <<with_f, busy, pos, running, ticket, number, entered, rounds>>
  BY DEF leave_resumes
<1>2. /\ p \in Leaving /\ p \notin Inside /\ GateTypeOK /\ pc \in [Proc -> PC]
      /\ Leaving = {p} /\ stop /\ ~busy[0] /\ with_f /\ due
  BY <1>1 DEF Leaving, Inside, GateInv, GateTypeOK, OneStops, due
<1>3. CASE others_run
  <2>1. stop' = TRUE /\ pc' = [pc EXCEPT ![p] = "leave_wait"] /\ UNCHANGED called
    BY <1>1, <1>3 DEF call_f
  <2>2. pc' \in [Proc -> PC] /\ Leaving' = {p} /\ Inside' = Inside
    BY <1>2, <2>1 DEF Leaving, Inside, PC
  <2>3. TicketsHeld' /\ Numbered'
    BY <1>1, <2>2 DEF GateInv, TicketsHeld, Numbered
  <2>4. GateTypeOK'
    BY <1>1, <1>2, <2>1, <2>2 DEF GateTypeOK
  <2>5. OneStops'
    BY <1>1, <1>2, <2>1, <2>2 DEF OneStops
  <2>6. CallsCounted'
    BY <1>1, <1>2, <2>1 DEF GateInv, CallsCounted, due
  <2> QED BY <2>3, <2>4, <2>5, <2>6 DEF GateInv
<1>4. CASE ~others_run
  <2>1. stop' = FALSE /\ called' = called + 1 /\ Broadcast(p, "outside")
    BY <1>1, <1>4 DEF call_f
  <2>2. /\ pc' \in [Proc -> PC] /\ Leaving' = {}
        /\ \A q \in Proc : pc'[q] = "running" <=> pc[q] = "running" /\ q # p
    BY <1>2, <2>1, BroadcastWakes
  <2>3. Inside' = Inside
    BY <1>1, <2>2 DEF Inside
  <2>4. TicketsHeld' /\ Numbered'
    BY <1>1, <2>3 DEF GateInv, TicketsHeld, Numbered
  <2>5. GateTypeOK'
    <3>1. called' \in Nat /\ stop' \in BOOLEAN
      <4>1. called \in Nat /\ called' = called + 1
        BY <1>2, <2>1 DEF GateTypeOK
      <4>2. stop' \in BOOLEAN
        BY <1>2, <2>1
      <4> QED BY <4>1, <4>2
    <3> QED BY <1>1, <1>2, <2>2, <3>1 DEF GateTypeOK
  <2>6. OneStops'
    BY <2>1, <2>2 DEF OneStops
  <2>7. CallsCounted'
    BY <1>1, <1>2, <2>1, CallCounts DEF due
  <2> QED BY <2>4, <2>5, <2>6, <2>7 DEF GateInv
<1> QED BY <1>3, <1>4

----------------------------------------------------------------------------
(* The theorems. *)

\* The inductive invariant of the gate.
THEOREM GateInvHolds == Spec => []GateInv
<1>1. NewGate => GateInv
  <2> SUFFICES ASSUME NewGate PROVE GateInv
    OBVIOUS
  <2>1. GateTypeOK
    <3>1. 0 \in 0..C /\ 0 \in 0..MaxRounds /\ 0 \in Nat /\ 0 \in Slot
      BY SlotsCounted, GateAssumption
    <3>2. with_f \in BOOLEAN /\ stop \in BOOLEAN /\ busy \in [Slot -> BOOLEAN]
      BY DEF NewGate
    <3>3. pc \in [Proc -> PC]
      BY DEF NewGate, PC
    <3> QED BY <3>1, <3>2, <3>3 DEF NewGate, GateTypeOK
  <2>2. Inside = {} /\ Leaving = {}
    BY DEF NewGate, Inside, Leaving
  <2>3. TicketsHeld /\ Numbered
    BY <2>2, FS_EmptySet DEF NewGate, TicketsHeld, Numbered
  <2>4. OneStops
    BY <2>2 DEF NewGate, OneStops
  <2>5. C * 0 = 0 /\ ~due
    BY SlotsCounted DEF NewGate, due
  <2>6. CallsCounted
    BY <2>5 DEF NewGate, CallsCounted
  <2> QED BY <2>1, <2>3, <2>4, <2>6 DEF GateInv
<1>2. GateInv /\ [Next]_gateVars => GateInv'
  <2> SUFFICES ASSUME GateInv, [Next]_gateVars PROVE GateInv'
    OBVIOUS
  <2>1. ASSUME NEW p \in Proc, Step(p) PROVE GateInv'
    BY <2>1, EnterPreserves, LeavePreserves, ResumePreserves DEF Step
  <2>2. CASE UNCHANGED gateVars
    <3> USE <2>2 DEF gateVars
    <3>1. Inside' = Inside /\ Leaving' = Leaving
      BY DEF Inside, Leaving
    <3>2. GateTypeOK'
      BY DEF GateInv, GateTypeOK
    <3>3. TicketsHeld' /\ Numbered'
      BY <3>1 DEF GateInv, TicketsHeld, Numbered
    <3>4. OneStops' /\ CallsCounted'
      BY <3>1 DEF GateInv, OneStops, CallsCounted, due
    <3> QED BY <3>2, <3>3, <3>4 DEF GateInv
  <2> QED BY <2>1, <2>2 DEF Next
<1> QED BY <1>1, <1>2, PTL DEF Spec

\* Type correctness; in particular never more than C activities run.
THEOREM GateTypeCorrect == Spec => []GateTypeOK
<1>1. GateInv => GateTypeOK
  BY DEF GateInv
<1> QED BY <1>1, GateInvHolds, PTL

\* The panics of Enter and Leave ("broken gate") are unreachable.
THEOREM GateNeverBreaks == Spec => []SlotsHeld
<1>1. GateInv => SlotsHeld
  <2> SUFFICES ASSUME GateInv PROVE SlotsHeld
    OBVIOUS
  <2>1. {i \in Slot : busy[i]} = {ticket[p] : p \in Inside}
    <3>1. \A p \in Inside : ticket[p] \in Slot
      BY DEF GateInv, GateTypeOK, Inside
    <3> QED BY <3>1 DEF GateInv, TicketsHeld
  <2>2. Cardinality(Leaving) = IF stop THEN 1 ELSE 0
    <3>1. CASE stop
      <4>1. PICK p \in Proc : p \in Leaving
        BY <3>1 DEF GateInv, OneStops
      <4>2. Leaving = {p}
        BY <4>1 DEF GateInv, OneStops
      <4> QED BY <3>1, <4>2, FS_Singleton
    <3>2. CASE ~stop
      <4>1. Leaving = {}
        BY <3>2 DEF GateInv, OneStops, Leaving
      <4> QED BY <3>2, <4>1, FS_EmptySet
    <3> QED BY <3>1, <3>2
  <2> QED BY <2>1, <2>2 DEF GateInv, TicketsHeld, SlotsHeld, Leaving
<1> QED BY <1>1, GateInvHolds, PTL

\* The concurrency window of gate.go's comment, for any number of slots.
THEOREM WindowIsBounded == Spec => []WindowBounded
<1>1. GateInv => WindowBounded
  <2> SUFFICES ASSUME GateInv, NEW p \in Inside, NEW q \in Inside
               PROVE  number[p] - number[q] < C
    BY DEF WindowBounded
  <2>1. \A i \in Slot : behind(pos, i) \in 1..C
    BY SlotsCounted DEF GateInv, GateTypeOK, behind, Slot
  <2>2. /\ ticket[p] \in Slot /\ ticket[q] \in Slot /\ entered \in Nat
        /\ number[p] = entered - behind(pos, ticket[p])
        /\ number[q] = entered - behind(pos, ticket[q])
    BY DEF GateInv, GateTypeOK, Inside, Numbered
  <2>3. behind(pos, ticket[p]) \in 1..C /\ behind(pos, ticket[q]) \in 1..C
    BY <2>1, <2>2
  <2> QED BY <2>2, <2>3, SlotsCounted
<1> QED BY <1>1, GateInvHolds, PTL

\* f is called once per batch of C activities, neither earlier than the
\* batch's first activity nor later than the start of the next but one.
THEOREM CalledOncePerBatch == Spec => []CalledPerBatch
<1>1. GateInv => CalledPerBatch
  <2> SUFFICES ASSUME GateInv, with_f
               PROVE  C * (called - 1) < entered /\ entered <= C * (called + 1)
    BY DEF CalledPerBatch
  <2> DEFINE X == C * called
  <2>1. X \in Int /\ C * (called - 1) = X - C /\ C * (called + 1) = X + C
    BY SlotsCounted DEF GateInv, GateTypeOK
  <2>2. entered = X + (IF pos = 0 THEN (IF due THEN C ELSE 0)
                       ELSE (IF due THEN pos ELSE pos - C))
    BY DEF GateInv, CallsCounted
  <2>3. pos \in 0..(C - 1)
    BY DEF GateInv, GateTypeOK, Slot
  <2> HIDE DEF X
  <2>4. X - C < entered /\ entered <= X + C
    BY <2>1, <2>2, <2>3, SlotsCounted
  <2> QED BY <2>1, <2>4
<1> QED BY <1>1, GateInvHolds, PTL

\* f never runs beside an activity.
THEOREM CalledOnlyAlone == Spec => CalledAlone
<1>1. GateInv /\ GateInv' /\ [Next]_gateVars
        => [called' # called => Inside' = {}]_gateVars
  <2> SUFFICES ASSUME GateInv, GateInv', NEW p \in Proc, Step(p), called' # called
               PROVE  Inside' = {}
    BY DEF Next, gateVars
  <2>1. ~others_run
    BY DEF Step, Enter, Leave, leave_resumes, call_f
  <2>2. running' = 0 /\ running' = Cardinality(Inside')
    BY <2>1 DEF others_run, GateInv, TicketsHeld
  <2>3. IsFiniteSet(Inside')
    <3>1. Inside' \in SUBSET Proc
      BY DEF Inside
    <3> QED BY <3>1, FS_Subset, GateAssumption
  <2> QED BY <2>2, <2>3, FS_EmptySet
<1> QED BY <1>1, GateInvHolds, PTL DEF Spec, CalledAlone
=============================================================================
