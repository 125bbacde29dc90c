-------------------------- MODULE BoraTurnsProofs --------------------------
(***************************************************************************)
(* Proofs about BoraTurns, for any conversations, users, requests and      *)
(* limits: s.turns holds the turns that run, and no more of them than      *)
(* enter lets in; exchanges keep their order; and every step is one that   *)
(* BoraTalk allows.                                                        *)
(***************************************************************************)
EXTENDS BoraTurns, FiniteSetTheorems, TLAPS

USE BoraAssumption, NoTurnAssumption

TurnsInv == TypeOK /\ PlacesBounded

(***************************************************************************)
(* Sets and values.                                                        *)
(***************************************************************************)
LEMMA RunningFinite ==
  ASSUME NEW S \in SUBSET Convs
  PROVE  /\ IsFiniteSet(Running(S))
         /\ Cardinality(Running(S)) \in Nat
<1>1. Running(S) \subseteq Convs
  BY DEF Running
<1>2. IsFiniteSet(Running(S))
  BY <1>1, FS_Subset
<1>. QED
  BY <1>2, FS_CardinalityType

LEMMA OfConvs == \A u : Of(u) \in SUBSET Convs
  BY DEF Of

\* The exchanges of a conversation are at most as many as the bound.
LEMMA CountInBound ==
  ASSUME NEW S \in SUBSET Ns
  PROVE  Cardinality(S) \in 0..MaxExchanges
<1>1. IsFiniteSet(Ns) /\ Cardinality(Ns) = MaxExchanges
  <2>1. 0 \in Int /\ MaxExchanges - 1 \in Int
    OBVIOUS
  <2>2. /\ IsFiniteSet(0..(MaxExchanges - 1))
        /\ Cardinality(0..(MaxExchanges - 1))
             = IF 0 > MaxExchanges - 1 THEN 0 ELSE MaxExchanges - 1 - 0 + 1
    BY <2>1, FS_Interval
  <2>. QED
    BY <2>2 DEF Ns
<1>2. IsFiniteSet(S) /\ Cardinality(S) <= Cardinality(Ns)
  BY <1>1, FS_Subset
<1>3. Cardinality(S) \in Nat
  BY <1>2, FS_CardinalityType
<1>. QED
  BY <1>1, <1>2, <1>3

LEMMA CancellingKeeps ==
  ASSUME TypeOK, NEW S \in SUBSET Convs
  PROVE  /\ Cancelling(S) \in [Turns -> Turn \cup {NoTurn}]
         /\ \A t \in Turns :
              /\ Cancelling(S)[t] = NoTurn <=> turn[t] = NoTurn
              /\ turn[t] # NoTurn =>
                   /\ Cancelling(S)[t].conv = turn[t].conv
                   /\ Cancelling(S)[t].at = turn[t].at
                   /\ Cancelling(S)[t].over = turn[t].over
<1>. SUFFICES ASSUME NEW t \in Turns
     PROVE  /\ Cancelling(S)[t] \in Turn \cup {NoTurn}
            /\ Cancelling(S)[t] = NoTurn <=> turn[t] = NoTurn
            /\ turn[t] # NoTurn =>
                 /\ Cancelling(S)[t].conv = turn[t].conv
                 /\ Cancelling(S)[t].at = turn[t].at
                 /\ Cancelling(S)[t].over = turn[t].over
  BY DEF Cancelling
<1>. DEFINE hit == turn[t] # NoTurn /\ \E c \in S : places[c] = t
<1>1. turn[t] \in Turn \cup {NoTurn}
  BY DEF TypeOK
<1>2. Cancelling(S)[t] = IF hit THEN [turn[t] EXCEPT !.cancelled = TRUE] ELSE turn[t]
  BY DEF Cancelling
<1>3. CASE hit
  <2>1. Cancelling(S)[t] = [turn[t] EXCEPT !.cancelled = TRUE] /\ turn[t] \in Turn
    BY <1>1, <1>2, <1>3
  <2>. QED
    BY <2>1 DEF Turn
<1>4. CASE ~hit
  BY <1>1, <1>2, <1>4
<1>. QED
  BY <1>3, <1>4

LEMMA WakingKeeps ==
  ASSUME TypeOK, NEW t \in Turns
  PROVE  Waking(t) \in [Clients -> Job]
<1>. SUFFICES ASSUME NEW c \in Clients PROVE Waking(t)[c] \in Job
  BY DEF Waking
<1>1. job[c] \in Job
  BY DEF TypeOK
<1>2. CASE Follows(c, t)
  <2>1. job[c] \in [at : {"follow"}, turn : Turns, woken : BOOLEAN]
    BY <1>1, <1>2 DEF Follows, Job, Idle
  <2>2. [job[c] EXCEPT !.woken = TRUE] \in [at : {"follow"}, turn : Turns, woken : BOOLEAN]
    BY <2>1
  <2>. QED
    BY <1>2, <2>2 DEF Waking, Job
<1>3. CASE ~Follows(c, t)
  BY <1>1, <1>3 DEF Waking
<1>. QED
  BY <1>2, <1>3

LEMMA BecomeTyped ==
  ASSUME TypeOK, NEW c \in Clients, NEW j \in Job, Become(c, j)
  PROVE  job' \in [Clients -> Job]
  BY DEF Become, TypeOK

\* A step that neither takes a place nor gives one back.
LEMMA PlacesKept ==
  ASSUME TurnsInv, UNCHANGED places,
         \A t \in Turns :
           /\ turn'[t] = NoTurn <=> turn[t] = NoTurn
           /\ turn[t] # NoTurn =>
                /\ turn'[t].conv = turn[t].conv
                /\ turn'[t].at \in Holding <=> turn[t].at \in Holding
                /\ turn'[t].over => turn[t].over \/ turn[t].at \notin Holding
  PROVE  PlacesBounded'
<1>1. \A v \in Convs : Runs(v)' <=> Runs(v)
  BY DEF Runs
<1>2. \A S \in SUBSET Convs : Running(S)' = Running(S)
  BY <1>1 DEF Running
<1>3. \A u \in Users : Cardinality(Running(Of(u))') <= PerUser
  BY <1>2, OfConvs DEF TurnsInv, PlacesBounded
<1>4. Cardinality(Running(Convs)') <= InFlight
  BY <1>2 DEF TurnsInv, PlacesBounded
<1>5. ASSUME NEW v \in Convs, Runs(v)'
      PROVE  /\ ~Free(places[v])'
             /\ turn'[places'[v]].conv = v
             /\ turn'[places'[v]].at \in Holding
  <2>1. Runs(v) /\ places[v] \in Turns
    BY <1>1, <1>5 DEF TurnsInv, TypeOK, Runs
  <2>2. turn[places[v]] # NoTurn /\ turn[places[v]].conv = v /\ turn[places[v]].at \in Holding
    BY <2>1 DEF TurnsInv, PlacesBounded, Free
  <2>. QED
    BY <2>1, <2>2 DEF Free
<1>6. ASSUME NEW t \in Turns, ~Free(t)'
      PROVE  /\ turn'[t].at \in Holding => places'[turn'[t].conv] = t
             /\ turn'[t].over => turn'[t].at \notin Holding
  <2>1. turn[t] # NoTurn
    BY <1>6 DEF Free
  <2>2. /\ turn[t].at \in Holding => places[turn[t].conv] = t
        /\ turn[t].over => turn[t].at \notin Holding
    BY <2>1 DEF TurnsInv, PlacesBounded, Free
  <2>. QED
    BY <2>1, <2>2
<1>. QED
  BY <1>3, <1>4, <1>5, <1>6 DEF PlacesBounded

(***************************************************************************)
(* Types.                                                                  *)
(***************************************************************************)
LEMMA InitInv == Init => TurnsInv
<1>. SUFFICES ASSUME Init PROVE TypeOK /\ PlacesBounded
  BY DEF TurnsInv
<1>1. TypeOK
  BY DEF Init, TypeOK, Job
<1>2. \A S \in SUBSET Convs : Running(S) = {}
  BY DEF Init, Running, Runs
<1>3. \A S \in SUBSET Convs : Cardinality(Running(S)) = 0
  BY <1>2, FS_EmptySet
<1>. QED
  BY <1>1, <1>3, OfConvs DEF Init, PlacesBounded, Runs, Free

\* A step of a turn changes a few of its fields, and neither takes a place nor
\* gives it back.
LEMMA FieldStep ==
  ASSUME TurnsInv, UNCHANGED places,
         NEW t \in Turns, ~Free(t), NEW r \in Turn, turn' = [turn EXCEPT ![t] = r],
         r.conv = turn[t].conv, r.at \in Holding <=> turn[t].at \in Holding,
         r.over => turn[t].over \/ turn[t].at \notin Holding
  PROVE  /\ turn' \in [Turns -> Turn \cup {NoTurn}]
         /\ PlacesBounded'
<1>1. turn \in [Turns -> Turn \cup {NoTurn}] /\ turn[t] # NoTurn /\ r # NoTurn
  BY DEF TurnsInv, TypeOK, Free
<1>2. turn' \in [Turns -> Turn \cup {NoTurn}]
  BY <1>1
<1>3. turn'[t] = r /\ \A s \in Turns \ {t} : turn'[s] = turn[s]
  BY <1>1
<1>4. PlacesBounded'
  BY <1>1, <1>3, PlacesKept
<1>. QED
  BY <1>2, <1>4

\* A step that ends the rounds of the model.
LEMMA FinishingStep ==
  ASSUME TurnsInv, UNCHANGED places,
         NEW t \in Turns, ~Free(t), turn[t].at \in Holding,
         NEW a \in {"saving", "saved", "failed"}, turn' = Finishing(t, a)
  PROVE  /\ turn' \in [Turns -> Turn \cup {NoTurn}]
         /\ PlacesBounded'
<1>. DEFINE q == [turn[t] EXCEPT !.at = a]
            r == [q EXCEPT !.left = 0]
<1>1. turn[t] \in Turn /\ turn \in [Turns -> Turn \cup {NoTurn}] /\ 0 \in 0..MaxRounds
  BY DEF TurnsInv, TypeOK, Free
<1>2. q \in Turn /\ q.conv = turn[t].conv /\ q.at = a /\ q.over = turn[t].over
  BY <1>1 DEF Turn
<1>3. turn' = [[turn EXCEPT ![t] = q] EXCEPT ![t] = [[turn EXCEPT ![t] = q][t] EXCEPT !.left = 0]]
  BY DEF Finishing
<1>. HIDE DEF q
<1>4. r \in Turn /\ r.conv = q.conv /\ r.at = q.at /\ r.over = q.over
  BY <1>1, <1>2 DEF Turn
<1>5. turn' = [turn EXCEPT ![t] = r]
  BY <1>1, <1>3
<1>6. a \in Holding
  BY DEF Holding
<1>. HIDE DEF r
<1>. QED
  BY <1>2, <1>4, <1>5, <1>6, FieldStep

LEMMA CommittedTyped ==
  ASSUME TypeOK, NEW t \in Turns, ~Free(t), Committed(t)
  PROVE  stored' \in [Convs -> SUBSET Ns]
<1>1. turn[t].conv \in Convs /\ turn[t].n \in Ns
  BY DEF TypeOK, Free, Turn
<1>. QED
  BY <1>1 DEF Committed, TypeOK

LEMMA EraseTyped ==
  ASSUME TypeOK, NEW S \in SUBSET Convs, Erase(S)
  PROVE  stored' \in [Convs -> SUBSET Ns] /\ gone' \in SUBSET Convs
<1>1. stored' \in [Convs -> SUBSET Ns]
  BY DEF Erase, TypeOK
<1>2. gone' \in SUBSET Convs
  BY DEF Erase, TypeOK
<1>. QED
  BY <1>1, <1>2

LEMMA IdleTyped == Idle \in Job
  BY DEF Job

LEMMA DeletableConvs == Deletable \subseteq SUBSET Convs
  BY DEF Deletable, Of

(***************************************************************************)
(* A turn.                                                                 *)
(***************************************************************************)
LEMMA TurnStepKeeps ==
  ASSUME TurnsInv, NEW t \in Turns, TurnNext(t)
  PROVE  TurnsInv'
<1>. TypeOK /\ turn \in [Turns -> Turn \cup {NoTurn}]
  BY DEF TurnsInv, TypeOK
<1>1. CASE CallTools(t)
  <2>1. ~Free(t) /\ turn[t] \in Turn
    BY <1>1 DEF CallTools, Free
  <2>2. PICK l \in 0..MaxRounds : turn' = [turn EXCEPT ![t].left = l]
    BY <1>1, <2>1 DEF CallTools, Turn
  <2>. DEFINE r == [turn[t] EXCEPT !.left = l]
  <2>3. turn' = [turn EXCEPT ![t] = r]
    BY <2>2
  <2>4. /\ r \in Turn /\ r.conv = turn[t].conv
        /\ r.at \in Holding <=> turn[t].at \in Holding
        /\ r.over => turn[t].over \/ turn[t].at \notin Holding
    BY <1>1, <2>1 DEF Turn, Holding, CallTools
  <2>. HIDE DEF r
  <2>5. turn' \in [Turns -> Turn \cup {NoTurn}] /\ PlacesBounded'
    BY <1>1, <2>1, <2>3, <2>4, FieldStep DEF CallTools
  <2>6. TypeOK'
    BY <1>1, <2>1, <2>5 DEF CallTools, TypeOK
  <2>. QED
    BY <2>5, <2>6 DEF TurnsInv
<1>2. CASE Answer(t)
  <2>1. ~Free(t) /\ turn[t].at \in Holding
    BY <1>2 DEF Answer, Holding
  <2>2. turn' \in [Turns -> Turn \cup {NoTurn}] /\ PlacesBounded'
    BY <1>2, <2>1, FinishingStep DEF Answer
  <2>3. TypeOK'
    BY <1>2, <2>2 DEF Answer, TypeOK
  <2>. QED
    BY <2>2, <2>3 DEF TurnsInv
<1>3. CASE Save(t)
  <2>1. ~Free(t) /\ turn[t] \in Turn
    BY <1>3 DEF Save, Free
  <2>. DEFINE r == [turn[t] EXCEPT !.at = "saved"]
  <2>3. turn' = [turn EXCEPT ![t] = r]
    BY <1>3 DEF Save
  <2>4. /\ r \in Turn /\ r.conv = turn[t].conv
        /\ r.at \in Holding <=> turn[t].at \in Holding
        /\ r.over => turn[t].over \/ turn[t].at \notin Holding
    BY <1>3, <2>1 DEF Turn, Holding, Save
  <2>. HIDE DEF r
  <2>5. turn' \in [Turns -> Turn \cup {NoTurn}] /\ PlacesBounded'
    BY <1>3, <2>1, <2>3, <2>4, FieldStep DEF Save
  <2>6. TypeOK'
    BY <1>3, <2>1, <2>5, CommittedTyped DEF Save, TypeOK
  <2>. QED
    BY <2>5, <2>6 DEF TurnsInv
<1>4. CASE SaveUnheard(t)
  <2>1. ~Free(t) /\ turn[t] \in Turn
    BY <1>4 DEF SaveUnheard, Free
  <2>. DEFINE r == [turn[t] EXCEPT !.at = "failed"]
  <2>3. turn' = [turn EXCEPT ![t] = r]
    BY <1>4 DEF SaveUnheard
  <2>4. /\ r \in Turn /\ r.conv = turn[t].conv
        /\ r.at \in Holding <=> turn[t].at \in Holding
        /\ r.over => turn[t].over \/ turn[t].at \notin Holding
    BY <1>4, <2>1 DEF Turn, Holding, SaveUnheard
  <2>. HIDE DEF r
  <2>5. turn' \in [Turns -> Turn \cup {NoTurn}] /\ PlacesBounded'
    BY <1>4, <2>1, <2>3, <2>4, FieldStep DEF SaveUnheard
  <2>6. TypeOK'
    BY <1>4, <2>1, <2>5, CommittedTyped DEF SaveUnheard, TypeOK
  <2>. QED
    BY <2>5, <2>6 DEF TurnsInv
<1>5. CASE GiveUp(t)
  <2>1. ~Free(t) /\ turn[t].at \in Holding
    BY <1>5 DEF GiveUp, Holding
  <2>2. turn' \in [Turns -> Turn \cup {NoTurn}] /\ PlacesBounded'
    BY <1>5, <2>1, FinishingStep DEF GiveUp
  <2>3. TypeOK'
    BY <1>5, <2>2 DEF GiveUp, TypeOK
  <2>. QED
    BY <2>2, <2>3 DEF TurnsInv
<1>6. CASE Outcome(t)
  <2>1. ~Free(t) /\ turn[t] \in Turn
    BY <1>6 DEF Outcome, Free
  <2>. DEFINE r == [turn[t] EXCEPT !.at = "told"]
  <2>3. turn' = [turn EXCEPT ![t] = r]
    BY <1>6 DEF Outcome
  <2>4. /\ r \in Turn /\ r.conv = turn[t].conv
        /\ r.at \in Holding <=> turn[t].at \in Holding
        /\ r.over => turn[t].over \/ turn[t].at \notin Holding
    BY <1>6, <2>1 DEF Turn, Holding, Outcome
  <2>. HIDE DEF r
  <2>5. turn' \in [Turns -> Turn \cup {NoTurn}] /\ PlacesBounded'
    BY <1>6, <2>1, <2>3, <2>4, FieldStep DEF Outcome
  <2>6. TypeOK'
    BY <1>6, <2>1, <2>5, WakingKeeps DEF Outcome, TypeOK
  <2>. QED
    BY <2>5, <2>6 DEF TurnsInv
<1>7. CASE End(t)
  <2>1. ~Free(t) /\ turn[t] \in Turn
    BY <1>7 DEF End, Free
  <2>. DEFINE r == [turn[t] EXCEPT !.over = TRUE]
  <2>3. turn' = [turn EXCEPT ![t] = r]
    BY <1>7 DEF End
  <2>4. /\ r \in Turn /\ r.conv = turn[t].conv
        /\ r.at \in Holding <=> turn[t].at \in Holding
        /\ r.over => turn[t].over \/ turn[t].at \notin Holding
    BY <1>7, <2>1 DEF Turn, Holding, End
  <2>. HIDE DEF r
  <2>5. turn' \in [Turns -> Turn \cup {NoTurn}] /\ PlacesBounded'
    BY <1>7, <2>1, <2>3, <2>4, FieldStep DEF End
  <2>6. TypeOK'
    BY <1>7, <2>1, <2>5, WakingKeeps DEF End, TypeOK
  <2>. QED
    BY <2>5, <2>6 DEF TurnsInv
<1>8. CASE LeavePlace(t)
  <2>. DEFINE w == turn[t].conv
              r == [turn[t] EXCEPT !.at = "left", !.cancelled = TRUE]
  <2>1. ~Free(t) /\ turn[t] \in Turn /\ w \in Convs
    BY <1>8 DEF LeavePlace, Free, Turn
  <2>2. places[w] = t
    BY <1>8, <2>1 DEF LeavePlace, TurnsInv, PlacesBounded, Holding
  <2>3. r \in Turn /\ r # NoTurn
    BY <2>1 DEF Turn
  <2>4. /\ turn' = [turn EXCEPT ![t] = r]
        /\ places' = [places EXCEPT ![w] = NoTurn]
    BY <1>8 DEF LeavePlace
  <2>5. r.at = "left"
    BY <2>1 DEF Turn
  <2>. HIDE DEF r
  <2>6. TypeOK'
    <3>1. UNCHANGED <<stored, dead, job>> /\ gone' \in {gone, gone \cup {w}}
      BY <1>8 DEF LeavePlace
    <3>2. turn' \in [Turns -> Turn \cup {NoTurn}] /\ places' \in [Convs -> Turns \cup {NoTurn}]
      BY <2>3, <2>4 DEF TypeOK
    <3>. QED
      BY <2>1, <3>1, <3>2 DEF TypeOK
  <2>7. /\ turn'[t] = r /\ \A s \in Turns \ {t} : turn'[s] = turn[s]
        /\ places'[w] = NoTurn /\ \A v \in Convs \ {w} : places'[v] = places[v]
    BY <2>1, <2>4 DEF TypeOK
  <2>. HIDE DEF w
  <2>8. \A v \in Convs : Runs(v)' => Runs(v) /\ v # w /\ places[v] \in Turns
    BY <2>7 DEF Runs, TypeOK
  <2>9. \A S \in SUBSET Convs : Cardinality(Running(S)') <= Cardinality(Running(S))
    <3>. SUFFICES ASSUME NEW S \in SUBSET Convs
         PROVE  Cardinality(Running(S)') <= Cardinality(Running(S))
      OBVIOUS
    <3>1. Running(S)' \subseteq Running(S)
      BY <2>8 DEF Running
    <3>. QED
      BY <3>1, RunningFinite, FS_Subset
  <2>10. /\ \A u \in Users : Cardinality(Running(Of(u))') <= PerUser
         /\ Cardinality(Running(Convs)') <= InFlight
    <3>1. ASSUME NEW S \in SUBSET Convs, NEW k \in Nat, Cardinality(Running(S)) <= k
          PROVE  Cardinality(Running(S)') <= k
      <4>1. /\ Cardinality(Running(S)') \in Nat
            /\ Cardinality(Running(S)) \in Nat
        <5>1. Running(S)' \subseteq Convs
          BY DEF Running
        <5>2. IsFiniteSet(Running(S)')
          BY <5>1, FS_Subset
        <5>. QED
          BY <5>2, RunningFinite, FS_CardinalityType
      <4>. QED
        BY <2>9, <3>1, <4>1
    <3>. QED
      BY <3>1, OfConvs DEF TurnsInv, PlacesBounded
  <2>11. ASSUME NEW v \in Convs, Runs(v)'
         PROVE  /\ ~Free(places[v])'
                /\ turn'[places'[v]].conv = v
                /\ turn'[places'[v]].at \in Holding
    <3>1. Runs(v) /\ v # w /\ places[v] \in Turns /\ places'[v] = places[v]
      BY <2>7, <2>8, <2>11
    <3>2. /\ turn[places[v]] # NoTurn /\ turn[places[v]].conv = v
          /\ turn[places[v]].at \in Holding
      BY <3>1 DEF TurnsInv, PlacesBounded, Free
    <3>3. places[v] # t
      BY <3>1, <3>2 DEF w
    <3>. QED
      BY <2>7, <3>1, <3>2, <3>3 DEF Free
  <2>12. ASSUME NEW s \in Turns, ~Free(s)'
         PROVE  /\ turn'[s].at \in Holding => places'[turn'[s].conv] = s
                /\ turn'[s].over => turn'[s].at \notin Holding
    <3>1. CASE s = t
      BY <2>5, <2>7, <3>1 DEF Holding
    <3>2. CASE s # t
      <4>1. turn'[s] = turn[s] /\ turn[s] # NoTurn /\ turn[s].conv \in Convs
        BY <2>7, <2>12, <3>2 DEF Free, Turn
      <4>2. /\ turn[s].at \in Holding => places[turn[s].conv] = s
            /\ turn[s].over => turn[s].at \notin Holding
        BY <4>1 DEF TurnsInv, PlacesBounded, Free
      <4>3. turn[s].at \in Holding => turn[s].conv # w
        BY <2>2, <3>2, <4>2
      <4>. QED
        BY <2>7, <4>1, <4>2, <4>3
    <3>. QED
      BY <3>1, <3>2
  <2>. QED
    BY <2>6, <2>10, <2>11, <2>12 DEF TurnsInv, PlacesBounded
<1>. QED
  BY <1>1, <1>2, <1>3, <1>4, <1>5, <1>6, <1>7, <1>8 DEF TurnNext

(***************************************************************************)
(* A request takes a place.                                                *)
(***************************************************************************)
\* The places that are taken, when one more is.
LEMMA OneMoreRuns ==
  ASSUME TypeOK, NEW v \in Convs, ~Runs(v), NEW t \in Turns,
         places' = [places EXCEPT ![v] = t],
         NEW S \in SUBSET Convs, NEW k \in Nat,
         Cardinality(Running(S)) <= k,
         v \in S => Cardinality(Running(S)) < k
  PROVE  Cardinality(Running(S)') <= k
<1>1. places'[v] = t /\ \A w \in Convs \ {v} : places'[w] = places[w]
  BY DEF TypeOK
<1>2. /\ IsFiniteSet(Running(S))
      /\ Cardinality(Running(S)) \in Nat
  BY RunningFinite
<1>3. CASE v \in S
  <2>1. Running(S)' = Running(S) \cup {v} /\ v \notin Running(S)
    BY <1>1, <1>3 DEF Running, Runs
  <2>2. Cardinality(Running(S)') = Cardinality(Running(S)) + 1
    BY <1>2, <2>1, FS_AddElement
  <2>. QED
    BY <1>2, <1>3, <2>2
<1>4. CASE v \notin S
  <2>1. Running(S)' = Running(S)
    BY <1>1, <1>4 DEF Running, Runs
  <2>. QED
    BY <2>1
<1>. QED
  BY <1>3, <1>4

LEMMA EnterKeeps ==
  ASSUME TurnsInv, NEW c \in Clients, NEW t \in Turns, Enter(c, t)
  PROVE  TurnsInv'
<1>. DEFINE v == job[c].conv
            r == [conv |-> v, n |-> job[c].n, cancelled |-> FALSE, over |-> FALSE,
                  left |-> MaxRounds, at |-> "asking"]
<1>1. TypeOK /\ ~Runs(v) /\ HasRoom(v) /\ Free(t)
  BY DEF TurnsInv, Enter, HasRoom
<1>2. v \in Convs /\ job[c].n \in Ns
  BY <1>1 DEF Enter, TypeOK, Job, Idle
<1>3. /\ places' = [places EXCEPT ![v] = t]
      /\ turn' = [turn EXCEPT ![t] = r]
      /\ Become(c, Following(t))
      /\ UNCHANGED <<stored, dead, gone>>
  BY DEF Enter
<1>4. r \in Turn /\ r.conv = v /\ r.at = "asking" /\ r.over = FALSE
  BY <1>2 DEF Turn
<1>5. r # NoTurn /\ r.at \in Holding /\ t # NoTurn
  BY <1>4 DEF Holding
<1>. HIDE DEF r
<1>6. TypeOK'
  <2>1. Following(t) \in Job
    BY DEF Following, Job
  <2>2. job' \in [Clients -> Job]
    BY <1>1, <1>3, <2>1, BecomeTyped
  <2>. QED
    BY <1>1, <1>2, <1>3, <1>4, <2>2 DEF TypeOK
<1>7. /\ turn'[t] = r /\ \A s \in Turns \ {t} : turn'[s] = turn[s]
      /\ places'[v] = t /\ \A w \in Convs \ {v} : places'[w] = places[w]
  BY <1>1, <1>2, <1>3 DEF TypeOK
<1>. HIDE DEF v
<1>8. \A u \in Users : Cardinality(Running(Of(u))') <= PerUser
  <2>1. \A u \in Users : v \in Of(u) => Cardinality(Running(Of(u))) < PerUser
    BY <1>1 DEF HasRoom, Of
  <2>2. \A u \in Users : Cardinality(Running(Of(u))) <= PerUser
    BY DEF TurnsInv, PlacesBounded
  <2>. QED
    BY <1>1, <1>2, <1>3, <2>1, <2>2, OfConvs, OneMoreRuns
<1>9. Cardinality(Running(Convs)') <= InFlight
  <2>1. Cardinality(Running(Convs)) < InFlight /\ Cardinality(Running(Convs)) <= InFlight
    BY <1>1 DEF HasRoom, TurnsInv, PlacesBounded
  <2>. QED
    BY <1>1, <1>2, <1>3, <2>1, OneMoreRuns
<1>10. ASSUME NEW w \in Convs, Runs(w)'
       PROVE  /\ ~Free(places[w])'
              /\ turn'[places'[w]].conv = w
              /\ turn'[places'[w]].at \in Holding
  <2>1. CASE w = v
    BY <1>4, <1>5, <1>7, <2>1 DEF Free
  <2>2. CASE w # v
    <3>1. Runs(w) /\ places'[w] = places[w] /\ places[w] \in Turns
      BY <1>1, <1>7, <1>10, <2>2 DEF Runs, TypeOK
    <3>2. /\ turn[places[w]] # NoTurn /\ turn[places[w]].conv = w
          /\ turn[places[w]].at \in Holding
      BY <3>1 DEF TurnsInv, PlacesBounded, Free
    <3>3. places[w] # t
      BY <1>1, <3>2 DEF Free
    <3>. QED
      BY <1>7, <3>1, <3>2, <3>3 DEF Free
  <2>. QED
    BY <2>1, <2>2
<1>11. ASSUME NEW s \in Turns, ~Free(s)'
       PROVE  /\ turn'[s].at \in Holding => places'[turn'[s].conv] = s
              /\ turn'[s].over => turn'[s].at \notin Holding
  <2>1. CASE s = t
    BY <1>4, <1>7, <2>1
  <2>2. CASE s # t
    <3>1. turn'[s] = turn[s] /\ turn[s] # NoTurn /\ turn[s].conv \in Convs
      BY <1>1, <1>7, <1>11, <2>2 DEF Free, Turn, TypeOK
    <3>2. /\ turn[s].at \in Holding => places[turn[s].conv] = s
          /\ turn[s].over => turn[s].at \notin Holding
      BY <3>1 DEF TurnsInv, PlacesBounded, Free
    <3>3. turn[s].at \in Holding => turn[s].conv # v
      BY <1>1, <3>2 DEF Runs
    <3>. QED
      BY <1>7, <3>1, <3>2, <3>3
  <2>. QED
    BY <2>1, <2>2
<1>. QED
  BY <1>6, <1>8, <1>9, <1>10, <1>11 DEF TurnsInv, PlacesBounded

(***************************************************************************)
(* Steps that leave the places and the turns alone, or only cancel turns.  *)
(***************************************************************************)
LEMMA TurnsAlone ==
  ASSUME TurnsInv, UNCHANGED <<places, turn>>
  PROVE  PlacesBounded' /\ turn' \in [Turns -> Turn \cup {NoTurn}]
<1>1. PlacesBounded'
  BY PlacesKept
<1>. QED
  BY <1>1 DEF TurnsInv, TypeOK

LEMMA TurnsCancelled ==
  ASSUME TurnsInv, UNCHANGED places, NEW S \in SUBSET Convs, turn' = Cancelling(S)
  PROVE  PlacesBounded' /\ turn' \in [Turns -> Turn \cup {NoTurn}]
<1>1. PlacesBounded'
  BY CancellingKeeps, PlacesKept DEF TurnsInv
<1>. QED
  BY <1>1, CancellingKeeps DEF TurnsInv

\* A request goes on to what it does next.
LEMMA RequestStep ==
  ASSUME TurnsInv, NEW c \in Clients, NEW j \in Job, Become(c, j),
         UNCHANGED <<stored, dead, places, turn, gone>>
  PROVE  TurnsInv'
<1>1. job' \in [Clients -> Job]
  BY BecomeTyped DEF TurnsInv
<1>2. PlacesBounded'
  BY TurnsAlone
<1>. QED
  BY <1>1, <1>2 DEF TurnsInv, TypeOK

LEMMA ClientStepKeeps ==
  ASSUME TurnsInv, NEW c \in Clients, Take(c) \/ ClientNext(c)
  PROVE  TurnsInv'
<1>. TypeOK /\ job[c] \in Job
  BY DEF TurnsInv, TypeOK
<1>1. CASE Take(c)
  <2>1. job[c] \in [at : {"follow"}, turn : Turns, woken : BOOLEAN]
    BY <1>1 DEF Take, Job, Idle
  <2>2. [job[c] EXCEPT !.woken = FALSE] \in Job
    BY <2>1 DEF Job
  <2>. QED
    BY <1>1, <2>2, IdleTyped, RequestStep DEF Take
<1>2. ASSUME NEW v \in Convs, StartBora(c, v) \/ AskBora(c, v) \/ FollowBora(c, v) \/ Look(c, v)
      PROVE  TurnsInv'
  <2>1. CASE StartBora(c, v)
    <3>1. [at |-> "enter", conv |-> v, n |-> 0] \in Job
      BY DEF Job
    <3>. QED
      BY <2>1, <3>1, RequestStep DEF StartBora
  <2>2. CASE AskBora(c, v)
    <3>1. [at |-> "read", conv |-> v] \in Job
      BY DEF Job
    <3>. QED
      BY <2>2, <3>1, RequestStep DEF AskBora
  <2>3. CASE FollowBora(c, v)
    <3>1. places[v] \in Turns
      BY <2>3 DEF FollowBora, Runs, TypeOK
    <3>2. Following(places[v]) \in Job
      BY <3>1 DEF Following, Job
    <3>. QED
      BY <2>3, <3>2, RequestStep DEF FollowBora
  <2>4. CASE Look(c, v)
    <3>1. OnFirst(v) \in BOOLEAN
      BY DEF OnFirst, Runs
    <3>2. [at |-> "look", conv |-> v, first |-> OnFirst(v)] \in Job
      BY <3>1 DEF Job
    <3>. QED
      BY <2>4, <3>2, RequestStep DEF Look
  <2>. QED
    BY <1>2, <2>1, <2>2, <2>3, <2>4
<1>3. CASE Read(c)
  <2>. DEFINE v == job[c].conv
  <2>1. v \in Convs
    BY <1>3 DEF Read, Job, Idle
  <2>2. stored[v] \in SUBSET Ns
    BY <2>1 DEF TypeOK
  <2>3. /\ [at |-> "missing", conv |-> v] \in Job
        /\ [at |-> "messages", conv |-> v] \in Job
    BY <2>1 DEF Job
  <2>. QED
    BY <1>3, <2>3, RequestStep DEF Read
<1>10. CASE ReadMessages(c)
  <2>. DEFINE v == job[c].conv
  <2>1. v \in Convs
    BY <1>10 DEF ReadMessages, Job, Idle
  <2>2. stored[v] \in SUBSET Ns
    BY <2>1 DEF TypeOK
  <2>3. [at |-> "enter", conv |-> v, n |-> Cardinality(stored[v])] \in Job
    BY <2>1, <2>2, CountInBound DEF Job
  <2>. QED
    BY <1>10, <2>3, RequestStep DEF ReadMessages
<1>4. CASE Refuse(c)
  BY <1>4, IdleTyped, RequestStep DEF Refuse
<1>5. CASE Find(c)
  <2>1. job[c].conv \in Convs
    BY <1>5 DEF Find, Job, Idle
  <2>2. [at |-> "missing", conv |-> job[c].conv] \in Job
    BY <2>1 DEF Job
  <2>. QED
    BY <1>5, <2>2, IdleTyped, RequestStep DEF Find
<1>6. CASE CancelTurns(c)
  <2>1. job[c].convs \in SUBSET Convs
    BY <1>6 DEF CancelTurns, Job, Idle
  <2>2. PlacesBounded' /\ turn' \in [Turns -> Turn \cup {NoTurn}]
    BY <1>6, <2>1, TurnsCancelled DEF CancelTurns
  <2>3. job' \in [Clients -> Job]
    BY <1>6, IdleTyped, BecomeTyped DEF CancelTurns
  <2>. QED
    BY <1>6, <2>2, <2>3 DEF CancelTurns, TurnsInv, TypeOK
<1>7. CASE Leave(c)
  BY <1>7, IdleTyped, RequestStep DEF Leave
<1>8. ASSUME NEW t \in Turns, Enter(c, t)
      PROVE  TurnsInv'
  BY <1>8, EnterKeeps
<1>9. ASSUME NEW S \in Deletable, DeleteBora(c, S)
      PROVE  TurnsInv'
  <2>1. S \in SUBSET Convs
    BY DeletableConvs
  <2>2. [at |-> "cancel", convs |-> S] \in Job
    BY <2>1 DEF Job
  <2>3. job' \in [Clients -> Job]
    BY <1>9, <2>2, BecomeTyped DEF DeleteBora
  <2>4. PlacesBounded'
    BY <1>9, TurnsAlone DEF DeleteBora
  <2>5. stored' \in [Convs -> SUBSET Ns] /\ gone' \in SUBSET Convs
    BY <1>9, <2>1, EraseTyped DEF DeleteBora
  <2>. QED
    BY <1>9, <2>3, <2>4, <2>5 DEF DeleteBora, TurnsInv, TypeOK
<1>. QED
  BY <1>1, <1>2, <1>3, <1>4, <1>5, <1>6, <1>7, <1>8, <1>9, <1>10 DEF ClientNext

LEMMA StepKeeps ==
  ASSUME TurnsInv, NEW t \in Turns, Step(t)
  PROVE  TurnsInv'
<1>1. PlacesBounded'
  BY TurnsAlone DEF Step
<1>2. job' \in [Clients -> Job]
  BY WakingKeeps DEF Step, TurnsInv
<1>. QED
  BY <1>1, <1>2 DEF Step, TurnsInv, TypeOK

\* A turn that nobody keeps holds no place.
LEMMA CollectKeeps ==
  ASSUME TurnsInv, NEW t \in Turns, Collect(t)
  PROVE  TurnsInv'
<1>. TypeOK /\ turn \in [Turns -> Turn \cup {NoTurn}]
  BY DEF TurnsInv, TypeOK
<1>1. turn[t] # NoTurn /\ turn[t].at \notin Holding
  BY DEF Collect, Forgotten, TurnsInv, PlacesBounded, Free
<1>2. /\ turn'[t] = NoTurn /\ \A s \in Turns \ {t} : turn'[s] = turn[s]
      /\ UNCHANGED places
  BY DEF Collect
<1>3. TypeOK'
  BY DEF Collect, TypeOK
<1>4. \A v \in Convs : Runs(v)' <=> Runs(v)
  BY <1>2 DEF Runs
<1>5. \A S \in SUBSET Convs : Running(S)' = Running(S)
  BY <1>4 DEF Running
<1>6. /\ \A u \in Users : Cardinality(Running(Of(u))') <= PerUser
      /\ Cardinality(Running(Convs)') <= InFlight
  BY <1>5, OfConvs DEF TurnsInv, PlacesBounded
<1>7. ASSUME NEW v \in Convs, Runs(v)'
      PROVE  /\ ~Free(places[v])'
             /\ turn'[places'[v]].conv = v
             /\ turn'[places'[v]].at \in Holding
  <2>1. Runs(v) /\ places[v] \in Turns
    BY <1>4, <1>7 DEF TypeOK, Runs
  <2>2. /\ turn[places[v]] # NoTurn /\ turn[places[v]].conv = v
        /\ turn[places[v]].at \in Holding
    BY <2>1 DEF TurnsInv, PlacesBounded, Free
  <2>3. places[v] # t
    BY <1>1, <2>2
  <2>. QED
    BY <1>2, <2>1, <2>2, <2>3 DEF Free
<1>8. ASSUME NEW s \in Turns, ~Free(s)'
      PROVE  /\ turn'[s].at \in Holding => places'[turn'[s].conv] = s
             /\ turn'[s].over => turn'[s].at \notin Holding
  <2>1. s # t /\ turn'[s] = turn[s] /\ turn[s] # NoTurn
    BY <1>2, <1>8 DEF Free
  <2>. QED
    BY <1>2, <2>1 DEF TurnsInv, PlacesBounded, Free
<1>. QED
  BY <1>3, <1>6, <1>7, <1>8 DEF TurnsInv, PlacesBounded

(***************************************************************************)
(* The rest of the world, and the server.                                  *)
(***************************************************************************)
LEMMA CancelKeeps ==
  ASSUME TurnsInv, NEW S \in SUBSET Convs, turn' = Cancelling(S),
         UNCHANGED <<stored, dead, places, job, gone>>
  PROVE  TurnsInv'
<1>1. PlacesBounded' /\ turn' \in [Turns -> Turn \cup {NoTurn}]
  BY TurnsCancelled
<1>. QED
  BY <1>1 DEF TurnsInv, TypeOK

LEMMA VanishKeeps ==
  ASSUME TurnsInv, NEW v \in Convs, Vanish(v)
  PROVE  TurnsInv'
<1>1. stored' \in [Convs -> SUBSET Ns] /\ gone' \in SUBSET Convs
  BY EraseTyped DEF Vanish, TurnsInv
<1>2. PlacesBounded'
  BY TurnsAlone DEF Vanish
<1>. QED
  BY <1>1, <1>2 DEF Vanish, TurnsInv, TypeOK

LEMMA RestartKeeps ==
  ASSUME TurnsInv, Restart
  PROVE  TurnsInv'
<1>1. TypeOK'
  BY IdleTyped DEF Restart, TurnsInv, TypeOK
<1>2. \A S \in SUBSET Convs : Running(S)' = {}
  BY DEF Restart, Running, Runs
<1>3. \A S \in SUBSET Convs : Cardinality(Running(S)') = 0
  BY <1>2, FS_EmptySet
<1>. QED
  BY <1>1, <1>3, OfConvs DEF Restart, TurnsInv, PlacesBounded, Runs, Free

LEMMA NextKeeps == TurnsInv /\ [Next]_vars => TurnsInv'
<1>. SUFFICES ASSUME TurnsInv, [Next]_vars PROVE TurnsInv'
  OBVIOUS
<1>1. ASSUME NEW t \in Turns, TurnNext(t) \/ Step(t) \/ Collect(t)
      PROVE  TurnsInv'
  BY <1>1, TurnStepKeeps, StepKeeps, CollectKeeps
<1>2. ASSUME NEW c \in Clients, Take(c) \/ ClientNext(c)
      PROVE  TurnsInv'
  BY <1>2, ClientStepKeeps
<1>3. ASSUME NEW v \in Convs, StopBora(v) \/ Vanish(v)
      PROVE  TurnsInv'
  BY <1>3, CancelKeeps, VanishKeeps DEF StopBora
<1>4. CASE StopAllBora
  BY <1>4, CancelKeeps DEF StopAllBora
<1>5. CASE Restart
  BY <1>5, RestartKeeps
<1>6. CASE UNCHANGED vars
  <2>1. PlacesBounded'
    BY <1>6, TurnsAlone DEF vars
  <2>. QED
    BY <1>6, <2>1 DEF vars, TurnsInv, TypeOK
<1>. QED
  BY <1>1, <1>2, <1>3, <1>4, <1>5, <1>6 DEF Next

(***************************************************************************)
(* Results.                                                                *)
(***************************************************************************)
\* Everything has its type, whatever the conversations, users, requests and
\* limits: what enter, run, follow, DeleteBora and a restart write.
THEOREM TypeCorrect == Spec => []TypeOK
<1>1. TurnsInv => TypeOK
  BY DEF TurnsInv
<1>. QED
  BY <1>1, InitInv, NextKeeps, PTL DEF Spec

\* s.turns holds exactly the turns that run, and enter's limits hold for every
\* number of users, conversations and requests, and any limits: no path of run
\* keeps a place, and none gives back one that it does not have.
THEOREM PlacesCorrect == Spec => []PlacesBounded
<1>1. TurnsInv => PlacesBounded
  BY DEF TurnsInv
<1>. QED
  BY <1>1, InitInv, NextKeeps, PTL DEF Spec
(***************************************************************************)
(* The order of the exchanges.  A turn saves under the number that its     *)
(* request drew, which may have been read long before: the invariant says  *)
(* what each request and each turn still knows of its conversation, until  *)
(* the conversation is gone.  It needs `gone' in every part: a turn of a   *)
(* deleted conversation saves in the middle of nowhere.                    *)
(***************************************************************************)
\* The request found exchanges in its conversation, or a question of another.
Relies(j) ==
  \/ j.at \in {"read", "messages"}
  \/ j.at = "enter" /\ j.n > 0
  \/ j.at = "look" /\ ~j.first

\* The request is about to ask the first question.
Starts(j) == j.at = "enter" /\ j.n = 0

\* What a request knows of its conversation stays true, until it is gone.
JobFits(j) ==
  /\ j.at = "missing" => j.conv \in gone
  /\ Relies(j) /\ j.conv \notin gone => stored[j.conv] # {} /\ ~OnFirst(j.conv)
  /\ j.at = "enter" /\ j.conv \notin gone => j.n <= Cardinality(stored[j.conv])
  /\ Starts(j) /\ j.conv \notin gone => stored[j.conv] = {} /\ ~Runs(j.conv)

\* A turn was asked with the number of an exchange that is kept, or of the next.
TurnFits(v) ==
  Runs(v) =>
    /\ turn[places[v]].at \in {"asking", "saving"} =>
         turn[places[v]].n <= Cardinality(stored[v])
    /\ turn[places[v]].n > 0 => stored[v] # {}

InOrder(v) == stored[v] = 0..(Cardinality(stored[v]) - 1)

OrderInv ==
  /\ \A v \in Convs \ gone : InOrder(v) /\ TurnFits(v)
  /\ \A v \in dead : stored[v] = {}
  /\ \A c \in Clients : JobFits(job[c])
  /\ \A c, d \in Clients :
       Starts(job[c]) /\ Starts(job[d]) /\ job[c].conv = job[d].conv
         /\ job[c].conv \notin gone => c = d

Open == {"asking", "saving"}
Elsewhere == {"idle", "follow", "cancel"}

LEMMA JobTyped ==
  ASSUME NEW j \in Job
  PROVE  /\ j.at \in {"read", "messages", "missing", "enter", "look"} => j.conv \in Convs
         /\ j.at = "enter" => j.n \in Nat
         /\ j.at = "look" => j.first \in BOOLEAN
BY DEF Job, Idle

LEMMA CountIsNat ==
  ASSUME TypeOK, NEW v \in Convs
  PROVE  Cardinality(stored[v]) \in Nat /\ IsFiniteSet(stored[v])
<1>1. stored[v] \in SUBSET Ns
  BY DEF TypeOK
<1>2. Cardinality(stored[v]) \in Nat
  BY <1>1, CountInBound
<1>3. IsFiniteSet(Ns)
  BY FS_Interval DEF Ns
<1>. QED
  BY <1>1, <1>2, <1>3, FS_Subset

\* The next exchange goes to the end.
LEMMA NextExchange ==
  ASSUME NEW S \in SUBSET Ns, S = 0..(Cardinality(S) - 1),
         NEW n \in Ns, n \notin S, n <= Cardinality(S)
  PROVE  /\ S \cup {n} = 0..(Cardinality(S \cup {n}) - 1)
         /\ Cardinality(S \cup {n}) = Cardinality(S) + 1
<1>0. IsFiniteSet(Ns)
  BY FS_Interval DEF Ns
<1>1. IsFiniteSet(S)
  BY <1>0, FS_Subset
<1>2. Cardinality(S) \in Nat
  BY CountInBound
<1>3. Cardinality(S \cup {n}) = Cardinality(S) + 1
  BY <1>1, FS_AddElement
<1>4. n \in Nat
  BY DEF Ns
<1>5. n = Cardinality(S)
  BY <1>2, <1>4
<1>6. S \cup {n} = 0..Cardinality(S)
  <2>. DEFINE k == Cardinality(S)
  <2>1. k \in Nat /\ n = k /\ S = 0..(k - 1)
    BY <1>2, <1>5
  <2>. HIDE DEF k
  <2>2. S \cup {n} = 0..k
    BY <2>1
  <2>. QED
    BY <2>2 DEF k
<1>. QED
  BY <1>2, <1>3, <1>6

\* Requests that are left alone, or no longer read the conversation.
LEMMA JobsStillFit ==
  ASSUME TypeOK, TypeOK', OrderInv, gone \subseteq gone',
         \A c \in Clients : job'[c] = job[c] \/ job'[c].at \in Elsewhere,
         \A v \in Convs \ gone' :
           /\ stored[v] # {} /\ ~OnFirst(v) =>
                /\ stored'[v] # {} /\ ~OnFirst(v)'
                /\ Cardinality(stored[v]) <= Cardinality(stored'[v])
           /\ stored[v] = {} /\ ~Runs(v)
                /\ (\E c \in Clients : Starts(job'[c]) /\ job'[c].conv = v) =>
                stored'[v] = {} /\ ~Runs(v)'
  PROVE  /\ \A c \in Clients : JobFits(job[c])'
         /\ \A c, d \in Clients :
              Starts(job'[c]) /\ Starts(job'[d]) /\ job'[c].conv = job'[d].conv
                /\ job'[c].conv \notin gone' => c = d
<1>1. ASSUME NEW c \in Clients PROVE JobFits(job[c])'
  <2>1. CASE job'[c].at \in Elsewhere
    BY <2>1 DEF JobFits, Relies, Starts, Elsewhere
  <2>2. CASE job'[c] = job[c]
    <3>0. PICK v : v = job[c].conv
      OBVIOUS
    <3>1. job[c] \in Job /\ JobFits(job[c])
      BY DEF TypeOK, OrderInv
    <3>2. job[c].at = "missing" => v \in gone'
      BY <3>0, <3>1 DEF JobFits
    <3>3. ASSUME v \notin gone', job[c].at \in {"read", "messages", "enter", "look"}
          PROVE  /\ v \in Convs \ gone'
                 /\ v \notin gone
                 /\ Cardinality(stored[v]) \in Nat
                 /\ Cardinality(stored'[v]) \in Nat
      <4>1. v \in Convs
        BY <3>0, <3>1, <3>3, JobTyped
      <4>2. stored'[v] \in SUBSET Ns /\ stored[v] \in SUBSET Ns
        BY <4>1 DEF TypeOK
      <4>. QED
        BY <3>3, <4>1, <4>2, CountInBound
    <3>4. ASSUME v \notin gone', Relies(job[c])
          PROVE  /\ stored'[v] # {} /\ ~OnFirst(v)'
                 /\ job[c].at = "enter" => job[c].n <= Cardinality(stored'[v])
      <4>1. job[c].at \in {"read", "messages", "enter", "look"}
        BY <3>4 DEF Relies
      <4>2. stored[v] # {} /\ ~OnFirst(v)
        BY <3>0, <3>1, <3>3, <3>4, <4>1 DEF JobFits
      <4>3. /\ stored'[v] # {} /\ ~OnFirst(v)'
            /\ Cardinality(stored[v]) <= Cardinality(stored'[v])
        <5>1. v \in Convs \ gone'
          BY <3>3, <3>4, <4>1
        <5>. QED
          BY <4>2, <5>1
      <4>4. job[c].at = "enter" => job[c].n <= Cardinality(stored[v]) /\ job[c].n \in Nat
        BY <3>0, <3>1, <3>3, <3>4, <4>1, JobTyped DEF JobFits
      <4>. QED
        BY <3>3, <3>4, <4>1, <4>3, <4>4
    <3>5. ASSUME v \notin gone', Starts(job[c])
          PROVE  /\ stored'[v] = {} /\ ~Runs(v)'
                 /\ job[c].n <= Cardinality(stored'[v])
      <4>1. job[c].at \in {"read", "messages", "enter", "look"} /\ job[c].n = 0
        BY <3>5 DEF Starts
      <4>2. stored[v] = {} /\ ~Runs(v)
        BY <3>0, <3>1, <3>3, <3>5, <4>1 DEF JobFits
      <4>3. stored'[v] = {} /\ ~Runs(v)'
        BY <2>2, <3>0, <3>3, <3>5, <4>1, <4>2
      <4>. QED
        BY <3>3, <3>5, <4>1, <4>3
    <3>6. job[c].at = "enter" => Relies(job[c]) \/ Starts(job[c])
      BY <3>1, JobTyped DEF Relies, Starts
    <3>. QED
      BY <2>2, <3>0, <3>2, <3>4, <3>5, <3>6 DEF JobFits, Relies, Starts
  <2>. QED
    BY <2>1, <2>2
<1>2. ASSUME NEW c \in Clients, NEW d \in Clients,
             Starts(job'[c]), Starts(job'[d]), job'[c].conv = job'[d].conv, job'[c].conv \notin gone'
      PROVE  c = d
  <2>1. job'[c] = job[c] /\ job'[d] = job[d]
    BY <1>2 DEF Starts, Elsewhere
  <2>. QED
    BY <1>2, <2>1 DEF OrderInv
<1>. QED
  BY <1>1, <1>2

\* Steps that keep the rows and the places.
LEMMA QuietStep ==
  ASSUME TurnsInv, TypeOK', OrderInv, UNCHANGED <<stored, dead, places, gone>>,
         \A t \in Turns : turn[t] # NoTurn /\ turn[t].at \in Holding =>
           /\ turn'[t].n = turn[t].n
           /\ turn'[t].at \in Open => turn[t].at \in Open,
         \A c \in Clients : job'[c] = job[c] \/ job'[c].at \in Elsewhere
  PROVE  OrderInv'
<1>1. \A v \in Convs : Runs(v)' <=> Runs(v)
  BY DEF Runs
<1>2. ASSUME NEW v \in Convs, Runs(v)
      PROVE  /\ turn'[places[v]].n = turn[places[v]].n
             /\ turn'[places[v]].at \in Open => turn[places[v]].at \in Open
  <2>1. places[v] \in Turns
    BY <1>2 DEF TurnsInv, TypeOK, Runs
  <2>2. turn[places[v]] # NoTurn /\ turn[places[v]].at \in Holding
    BY <1>2 DEF TurnsInv, PlacesBounded, Free
  <2>. QED
    BY <2>1, <2>2
<1>3. \A v \in Convs : OnFirst(v)' <=> OnFirst(v)
  BY <1>1, <1>2 DEF OnFirst
<1>4. ASSUME NEW v \in Convs \ gone' PROVE InOrder(v)' /\ TurnFits(v)'
  <2>1. InOrder(v) /\ TurnFits(v)
    BY <1>4 DEF OrderInv
  <2>2. InOrder(v)'
    BY <2>1 DEF InOrder
  <2>3. TurnFits(v)'
    BY <1>1, <1>2, <2>1 DEF TurnFits, Open
  <2>. QED
    BY <2>2, <2>3
<1>5. /\ \A c \in Clients : JobFits(job[c])'
      /\ \A c, d \in Clients :
           Starts(job'[c]) /\ Starts(job'[d]) /\ job'[c].conv = job'[d].conv
             /\ job'[c].conv \notin gone' => c = d
  <2>1. ASSUME NEW v \in Convs \ gone'
        PROVE  /\ stored[v] # {} /\ ~OnFirst(v) =>
                    /\ stored'[v] # {} /\ ~OnFirst(v)'
                    /\ Cardinality(stored[v]) <= Cardinality(stored'[v])
               /\ stored[v] = {} /\ ~Runs(v)
                    /\ (\E c \in Clients : Starts(job'[c]) /\ job'[c].conv = v) =>
                    stored'[v] = {} /\ ~Runs(v)'
    BY <1>1, <1>3, CountIsNat DEF TurnsInv
  <2>. QED
    BY <2>1, JobsStillFit DEF TurnsInv
<1>6. \A v \in dead' : stored'[v] = {}
  BY DEF OrderInv
<1>. QED
  BY <1>4, <1>5, <1>6 DEF OrderInv

\* A request learns something of its conversation, and nothing else changes.
LEMMA RequestFits ==
  ASSUME TurnsInv, OrderInv, NEW c \in Clients, NEW j \in Job, Become(c, j),
         UNCHANGED <<stored, dead, places, turn, gone>>, JobFits(j),
         Starts(j) /\ j.conv \notin gone =>
           \A d \in Clients : job[d].at = "enter" => job[d].conv # j.conv
  PROVE  OrderInv'
<1>1. job'[c] = j /\ \A d \in Clients \ {c} : job'[d] = job[d]
  BY DEF Become, TurnsInv, TypeOK
<1>2. \A v : (Runs(v)' <=> Runs(v)) /\ (OnFirst(v)' <=> OnFirst(v))
  BY DEF Runs, OnFirst
<1>3. \A v \in Convs \ gone' : InOrder(v)' /\ TurnFits(v)'
  BY <1>2 DEF OrderInv, InOrder, TurnFits
<1>4. ASSUME NEW d \in Clients PROVE JobFits(job[d])'
  <2>1. PICK k : k = job'[d]
    OBVIOUS
  <2>2. JobFits(k)
    BY <1>1, <2>1 DEF OrderInv
  <2>3. JobFits(k)'
    BY <1>2, <2>2 DEF JobFits, Relies, Starts
  <2>. QED
    BY <2>1, <2>3 DEF JobFits, Relies, Starts
<1>5. ASSUME NEW a \in Clients, NEW b \in Clients,
             Starts(job'[a]), Starts(job'[b]), job'[a].conv = job'[b].conv, job'[a].conv \notin gone'
      PROVE  a = b
  BY <1>1, <1>5 DEF OrderInv, Starts
<1>6. \A v \in dead' : stored'[v] = {}
  BY DEF OrderInv
<1>. QED
  BY <1>3, <1>4, <1>5, <1>6 DEF OrderInv

LEMMA CancellingKeepsAsked ==
  ASSUME TypeOK, NEW S \in SUBSET Convs, NEW t \in Turns, turn[t] # NoTurn
  PROVE  Cancelling(S)[t].n = turn[t].n /\ Cancelling(S)[t].at = turn[t].at
<1>1. turn[t] \in Turn
  BY DEF TypeOK
<1>2. \/ Cancelling(S)[t] = turn[t]
      \/ Cancelling(S)[t] = [turn[t] EXCEPT !.cancelled = TRUE]
  BY DEF Cancelling
<1>. QED
  BY <1>1, <1>2 DEF Turn

LEMMA WakingStays ==
  ASSUME TypeOK, NEW t \in Turns, NEW c \in Clients
  PROVE  Waking(t)[c] = job[c] \/ Waking(t)[c].at \in Elsewhere
<1>1. CASE Follows(c, t)
  <2>1. job[c] \in [at : {"follow"}, turn : Turns, woken : BOOLEAN]
    BY <1>1 DEF Follows, Job, Idle, TypeOK
  <2>2. [job[c] EXCEPT !.woken = TRUE].at = "follow"
    BY <2>1
  <2>. QED
    BY <1>1, <2>2 DEF Waking, Elsewhere
<1>2. CASE ~Follows(c, t)
  BY <1>2 DEF Waking
<1>. QED
  BY <1>1, <1>2

LEMMA FinishingFields ==
  ASSUME TypeOK, NEW t \in Turns, ~Free(t), NEW a, turn' = Finishing(t, a)
  PROVE  /\ turn'[t].n = turn[t].n /\ turn'[t].at = a
         /\ \A s \in Turns \ {t} : turn'[s] = turn[s]
<1>. DEFINE q == [turn[t] EXCEPT !.at = a]
<1>1. turn[t] \in Turn /\ turn \in [Turns -> Turn \cup {NoTurn}]
  BY DEF TypeOK, Free
<1>2. q.n = turn[t].n /\ q.at = a /\ DOMAIN q = DOMAIN turn[t]
  BY <1>1 DEF Turn
<1>3. turn' = [[turn EXCEPT ![t] = q] EXCEPT ![t] = [[turn EXCEPT ![t] = q][t] EXCEPT !.left = 0]]
  BY DEF Finishing
<1>. HIDE DEF q
<1>4. turn'[t] = [q EXCEPT !.left = 0] /\ \A s \in Turns \ {t} : turn'[s] = turn[s]
  BY <1>1, <1>3
<1>5. DOMAIN turn[t] = {"conv", "n", "cancelled", "over", "left", "at"}
  BY <1>1 DEF Turn
<1>. QED
  BY <1>2, <1>4, <1>5

\* A turn, but for its commits and its end.
LEMMA QuietTurnStep ==
  ASSUME TurnsInv, TypeOK', OrderInv, NEW t \in Turns,
         \/ CallTools(t) \/ Answer(t) \/ GiveUp(t)
         \/ Outcome(t) \/ End(t) \/ Step(t) \/ Collect(t)
  PROVE  OrderInv'
<1>0. TypeOK /\ turn \in [Turns -> Turn \cup {NoTurn}]
  BY DEF TurnsInv, TypeOK
<1>1. UNCHANGED <<stored, dead, places, gone>>
  BY DEF CallTools, Answer, GiveUp, Outcome, End, Step, Collect
<1>2. \A c \in Clients : job'[c] = job[c] \/ job'[c].at \in Elsewhere
  BY <1>0, WakingStays DEF CallTools, Answer, GiveUp, Outcome, End, Step, Collect
<1>3. ASSUME NEW s \in Turns, turn[s] # NoTurn, turn[s].at \in Holding
      PROVE  /\ turn'[s].n = turn[s].n
             /\ turn'[s].at \in Open => turn[s].at \in Open
  <2>1. turn[s] \in Turn
    BY <1>0, <1>3
  <2>2. CASE CallTools(t)
    <3>1. PICK l \in 0..MaxRounds : turn' = [turn EXCEPT ![t].left = l]
      BY <1>0, <2>2 DEF CallTools, Turn, Free
    <3>. QED
      BY <1>0, <2>1, <3>1 DEF Turn
  <2>3. CASE Answer(t) \/ GiveUp(t)
    <3>1. PICK a \in {"saving", "failed"} : turn' = Finishing(t, a)
      BY <2>3 DEF Answer, GiveUp
    <3>2. ~Free(t) /\ turn[t].at \in Open
      BY <2>3 DEF Answer, GiveUp, Open
    <3>. QED
      BY <1>0, <3>1, <3>2, FinishingFields
  <2>4. CASE Outcome(t) \/ End(t)
    <3>1. turn'[s].n = turn[s].n
      BY <1>0, <2>1, <2>4 DEF Outcome, End, Turn
    <3>2. turn'[s].at = turn[s].at \/ turn'[s].at = "told"
      BY <1>0, <2>1, <2>4 DEF Outcome, End, Turn
    <3>. QED
      BY <3>1, <3>2 DEF Open
  <2>5. CASE Step(t)
    BY <2>5 DEF Step
  <2>6. CASE Collect(t)
    <3>1. turn[t] # NoTurn /\ turn[t].at \notin Holding
      BY <2>6 DEF Collect, Forgotten, TurnsInv, PlacesBounded, Free
    <3>. QED
      BY <1>0, <1>3, <2>6, <3>1 DEF Collect
  <2>. QED
    BY <2>2, <2>3, <2>4, <2>5, <2>6
<1>. QED
  BY <1>1, <1>2, <1>3, QuietStep

\* A commit puts the exchange after the ones that are there, unless the
\* conversation is gone.
LEMMA CommitStep ==
  ASSUME TurnsInv, TypeOK', OrderInv, NEW t \in Turns, Save(t) \/ SaveUnheard(t)
  PROVE  OrderInv'
<1>0. TypeOK /\ turn \in [Turns -> Turn \cup {NoTurn}] /\ stored \in [Convs -> SUBSET Ns]
  BY DEF TurnsInv, TypeOK
<1>1. turn[t] # NoTurn /\ turn[t] \in Turn /\ turn[t].at = "saving"
  BY <1>0 DEF Save, SaveUnheard, Free
<1>2. PICK w, n : w = turn[t].conv /\ n = turn[t].n
  OBVIOUS
<1>3. w \in Convs /\ n \in Ns /\ n \in Nat
  BY <1>1, <1>2 DEF Turn, Ns
<1>4. places[w] = t /\ Runs(w)
  <2>1. places[w] = t
    BY <1>1, <1>2 DEF TurnsInv, PlacesBounded, Free, Holding
  <2>. QED
    BY <1>3, <2>1, NoTurnAssumption DEF Runs
<1>5. /\ UNCHANGED <<dead, places, job, gone>>
      /\ w \notin dead /\ n \notin stored[w]
      /\ stored' = [stored EXCEPT ![w] = @ \cup {n}]
  BY <1>2 DEF Save, SaveUnheard, Committed
<1>6. \A s \in Turns : turn[s] # NoTurn =>
        turn'[s].n = turn[s].n /\ (turn'[s].at \in Open => turn[s].at \in Open /\ s # t)
  <2>1. PICK a \in {"saved", "failed"} : turn' = [turn EXCEPT ![t].at = a]
    BY DEF Save, SaveUnheard
  <2>. QED
    BY <1>0, <1>1, <2>1 DEF Turn, Open
<1>7. \A v \in Convs : Runs(v)' <=> Runs(v)
  BY <1>5 DEF Runs
<1>8. ASSUME NEW v \in Convs, Runs(v)
      PROVE  places[v] \in Turns /\ turn[places[v]] # NoTurn /\ turn[places[v]].conv = v
  BY <1>0, <1>8 DEF TurnsInv, PlacesBounded, TypeOK, Free, Runs
<1>9. \A v \in Convs : OnFirst(v)' <=> OnFirst(v)
  BY <1>5, <1>6, <1>7, <1>8 DEF OnFirst
<1>10. stored'[w] = stored[w] \cup {n} /\ \A v \in Convs \ {w} : stored'[v] = stored[v]
  BY <1>0, <1>3, <1>5
<1>11. IsFiniteSet(stored[w]) /\ Cardinality(stored'[w]) = Cardinality(stored[w]) + 1
  BY <1>0, <1>3, <1>5, <1>10, CountIsNat, FS_AddElement
<1>12. ASSUME NEW v \in Convs \ gone' PROVE InOrder(v)' /\ TurnFits(v)'
  <2>1. InOrder(v) /\ TurnFits(v) /\ v \notin gone
    BY <1>5, <1>12 DEF OrderInv
  <2>2. CASE v = w
    <3>1. n <= Cardinality(stored[w])
      BY <1>1, <1>2, <1>4, <2>1, <2>2 DEF TurnFits
    <3>2. stored[w] \in SUBSET Ns /\ stored[w] = 0..(Cardinality(stored[w]) - 1)
      BY <1>0, <1>3, <2>1, <2>2 DEF InOrder
    <3>3. InOrder(w)'
      <4>1. /\ stored[w] \cup {n} = 0..(Cardinality(stored[w] \cup {n}) - 1)
        BY <1>3, <1>5, <3>1, <3>2, NextExchange
      <4>2. stored'[w] = 0..(Cardinality(stored'[w]) - 1)
        BY <1>10, <4>1
      <4>. QED
        BY <4>2 DEF InOrder
    <3>4. TurnFits(w)'
      <4>1. places'[w] = t /\ turn'[t].at \notin Open
        BY <1>1, <1>4, <1>5, <1>6
      <4>2. stored'[w] # {}
        BY <1>10
      <4>. QED
        BY <4>1, <4>2 DEF TurnFits, Open
    <3>. QED
      BY <2>2, <3>3, <3>4
  <2>3. CASE v # w
    <3>1. stored'[v] = stored[v] /\ places'[v] = places[v] /\ v \in Convs
      BY <1>5, <1>10, <1>12, <2>3
    <3>2. InOrder(v)'
      BY <2>1, <3>1 DEF InOrder
    <3>3. TurnFits(v)'
      <4>1. ASSUME Runs(v)'
            PROVE  /\ turn'[places'[v]].at \in {"asking", "saving"} =>
                        turn'[places'[v]].n <= Cardinality(stored'[v])
                   /\ turn'[places'[v]].n > 0 => stored'[v] # {}
        <5>1. Runs(v) /\ places[v] \in Turns /\ turn[places[v]] # NoTurn
          BY <1>7, <1>8, <3>1, <4>1
        <5>2. /\ turn'[places[v]].n = turn[places[v]].n
              /\ turn'[places[v]].at \in Open => turn[places[v]].at \in Open
          BY <1>6, <5>1
        <5>3. /\ turn[places[v]].at \in Open => turn[places[v]].n <= Cardinality(stored[v])
              /\ turn[places[v]].n > 0 => stored[v] # {}
          BY <2>1, <5>1 DEF TurnFits, Open
        <5>. QED
          BY <3>1, <5>2, <5>3 DEF Open
      <4>. QED
        BY <4>1 DEF TurnFits
    <3>. QED
      BY <3>2, <3>3
  <2>. QED
    BY <2>2, <2>3
<1>13. ASSUME NEW v \in Convs \ gone'
       PROVE  /\ stored[v] # {} /\ ~OnFirst(v) =>
                   /\ stored'[v] # {} /\ ~OnFirst(v)'
                   /\ Cardinality(stored[v]) <= Cardinality(stored'[v])
              /\ stored[v] = {} /\ ~Runs(v)
                   /\ (\E c \in Clients : Starts(job'[c]) /\ job'[c].conv = v) =>
                   stored'[v] = {} /\ ~Runs(v)'
  <2>1. Cardinality(stored[v]) \in Nat
    BY <1>0, CountIsNat
  <2>2. CASE v = w
    BY <1>4, <1>9, <1>10, <1>11, <2>1, <2>2
  <2>3. CASE v # w
    BY <1>7, <1>9, <1>10, <2>1, <2>3
  <2>. QED
    BY <2>2, <2>3
<1>14. /\ \A c \in Clients : JobFits(job[c])'
       /\ \A c, d \in Clients :
            Starts(job'[c]) /\ Starts(job'[d]) /\ job'[c].conv = job'[d].conv
              /\ job'[c].conv \notin gone' => c = d
  BY <1>0, <1>5, <1>13, JobsStillFit
<1>15. \A v \in dead' : stored'[v] = {}
  BY <1>0, <1>5, <1>10 DEF OrderInv, TypeOK
<1>. QED
  BY <1>12, <1>14, <1>15 DEF OrderInv

\* A turn leaves its place: a first one without an answer takes the
\* conversation with it.
LEMMA LeaveStep ==
  ASSUME TurnsInv, TypeOK', OrderInv, NEW t \in Turns, LeavePlace(t)
  PROVE  OrderInv'
<1>0. TypeOK /\ turn \in [Turns -> Turn \cup {NoTurn}]
  BY DEF TurnsInv, TypeOK
<1>1. turn[t] # NoTurn /\ turn[t] \in Turn /\ turn[t].at \in Holding
  BY <1>0 DEF LeavePlace, Free, Holding
<1>2. PICK w : w = turn[t].conv
  OBVIOUS
<1>3. w \in Convs /\ places[w] = t
  BY <1>1, <1>2 DEF Turn, TurnsInv, PlacesBounded, Free
<1>4. /\ UNCHANGED <<stored, dead, job>>
      /\ places' = [places EXCEPT ![w] = NoTurn]
      /\ gone \subseteq gone'
  BY <1>2 DEF LeavePlace
<1>5. ~Runs(w)' /\ \A v \in Convs \ {w} : places'[v] = places[v]
  BY <1>0, <1>3, <1>4 DEF Runs, TypeOK
<1>6. ASSUME NEW v \in Convs \ {w}, Runs(v)'
      PROVE  /\ Runs(v) /\ places'[v] = places[v]
             /\ turn'[places[v]] = turn[places[v]]
  <2>1. Runs(v) /\ places'[v] = places[v] /\ places[v] \in Turns
    BY <1>0, <1>5, <1>6 DEF Runs, TypeOK
  <2>2. places[v] # t
    BY <1>2, <2>1 DEF TurnsInv, PlacesBounded
  <2>. QED
    BY <1>0, <2>1, <2>2 DEF LeavePlace
<1>7. ASSUME NEW v \in Convs PROVE OnFirst(v)' => OnFirst(v)
  <2>1. CASE v = w
    BY <1>5, <2>1 DEF OnFirst
  <2>2. CASE v # w
    BY <1>6, <2>2 DEF OnFirst
  <2>. QED
    BY <2>1, <2>2
<1>8. ASSUME NEW v \in Convs PROVE Runs(v)' => Runs(v)
  BY <1>5, <1>6
<1>9. ASSUME NEW v \in Convs \ gone' PROVE InOrder(v)' /\ TurnFits(v)'
  <2>1. InOrder(v) /\ TurnFits(v)
    BY <1>4, <1>9 DEF OrderInv
  <2>2. InOrder(v)'
    BY <1>4, <2>1 DEF InOrder
  <2>3. TurnFits(v)'
    BY <1>4, <1>5, <1>6, <2>1 DEF TurnFits
  <2>. QED
    BY <2>2, <2>3
<1>10. ASSUME NEW v \in Convs \ gone'
       PROVE  /\ stored[v] # {} /\ ~OnFirst(v) =>
                   /\ stored'[v] # {} /\ ~OnFirst(v)'
                   /\ Cardinality(stored[v]) <= Cardinality(stored'[v])
              /\ stored[v] = {} /\ ~Runs(v)
                   /\ (\E c \in Clients : Starts(job'[c]) /\ job'[c].conv = v) =>
                   stored'[v] = {} /\ ~Runs(v)'
  BY <1>0, <1>4, <1>7, <1>8, CountIsNat
<1>11. /\ \A c \in Clients : JobFits(job[c])'
       /\ \A c, d \in Clients :
            Starts(job'[c]) /\ Starts(job'[d]) /\ job'[c].conv = job'[d].conv
              /\ job'[c].conv \notin gone' => c = d
  BY <1>0, <1>4, <1>10, JobsStillFit
<1>12. \A v \in dead' : stored'[v] = {}
  BY <1>4 DEF OrderInv
<1>. QED
  BY <1>9, <1>11, <1>12 DEF OrderInv

\* A request takes the place, with the number that it drew.
LEMMA EnterStep ==
  ASSUME TurnsInv, TypeOK', OrderInv, NEW c \in Clients, NEW t \in Turns, Enter(c, t)
  PROVE  OrderInv'
<1>0. /\ TypeOK /\ turn \in [Turns -> Turn \cup {NoTurn}]
      /\ places \in [Convs -> Turns \cup {NoTurn}] /\ job \in [Clients -> Job]
  BY DEF TurnsInv, TypeOK
<1>1. PICK w, n : w = job[c].conv /\ n = job[c].n
  OBVIOUS
<1>2. w \in Convs /\ n \in Nat /\ job[c].at = "enter" /\ ~Runs(w) /\ JobFits(job[c])
  BY <1>0, <1>1, JobTyped DEF Enter, HasRoom, OrderInv
<1>3. /\ UNCHANGED <<stored, dead, gone>>
      /\ places' = [places EXCEPT ![w] = t]
      /\ turn[t] = NoTurn
      /\ turn'[t].n = n
      /\ \A s \in Turns \ {t} : turn'[s] = turn[s]
      /\ job' = [job EXCEPT ![c] = Following(t)]
  BY <1>0, <1>1 DEF Enter, Become, Free
<1>4. /\ places'[w] = t /\ Runs(w)'
      /\ \A v \in Convs \ {w} : places'[v] = places[v] /\ (Runs(v)' <=> Runs(v))
  BY <1>0, <1>2, <1>3, NoTurnAssumption DEF Runs
<1>5. ASSUME NEW v \in Convs, Runs(v)
      PROVE  places[v] \in Turns /\ turn'[places[v]] = turn[places[v]]
  <2>1. places[v] \in Turns /\ turn[places[v]] # NoTurn
    BY <1>0, <1>5 DEF TurnsInv, PlacesBounded, Runs, Free
  <2>. QED
    BY <1>3, <2>1
<1>6. \A v \in Convs \ {w} : OnFirst(v)' <=> OnFirst(v)
  BY <1>4, <1>5 DEF OnFirst
<1>7. OnFirst(w)' => n = 0
  BY <1>3, <1>4 DEF OnFirst
<1>8. job'[c].at = "follow" /\ \A d \in Clients \ {c} : job'[d] = job[d]
  BY <1>0, <1>3 DEF Following
<1>9. ASSUME NEW v \in Convs \ gone' PROVE InOrder(v)' /\ TurnFits(v)'
  <2>1. InOrder(v) /\ TurnFits(v) /\ v \notin gone
    BY <1>3, <1>9 DEF OrderInv
  <2>2. InOrder(v)'
    BY <1>3, <2>1 DEF InOrder
  <2>3. TurnFits(v)'
    <3>1. CASE v = w
      <4>1. n <= Cardinality(stored[w]) /\ (n > 0 => stored[w] # {})
        BY <1>1, <1>2, <2>1, <3>1 DEF JobFits, Relies
      <4>. QED
        BY <1>3, <1>4, <3>1, <4>1 DEF TurnFits
    <3>2. CASE v # w
      BY <1>3, <1>4, <1>5, <2>1, <3>2 DEF TurnFits
    <3>. QED
      BY <3>1, <3>2
  <2>. QED
    BY <2>2, <2>3
<1>10. ASSUME NEW v \in Convs \ gone'
       PROVE  /\ stored[v] # {} /\ ~OnFirst(v) =>
                   /\ stored'[v] # {} /\ ~OnFirst(v)'
                   /\ Cardinality(stored[v]) <= Cardinality(stored'[v])
              /\ stored[v] = {} /\ ~Runs(v)
                   /\ (\E d \in Clients : Starts(job'[d]) /\ job'[d].conv = v) =>
                   stored'[v] = {} /\ ~Runs(v)'
  <2>1. CASE v # w
    BY <1>0, <1>3, <1>4, <1>6, <2>1, CountIsNat
  <2>2. CASE v = w
    <3>1. n = 0 => stored[w] = {}
      BY <1>1, <1>2, <1>3, <1>10, <2>2 DEF JobFits, Starts
    <3>2. n # 0 => stored[w] # {}
      BY <1>1, <1>2, <1>3, <1>10, <2>2 DEF JobFits, Relies
    <3>3. n = 0 => ~\E d \in Clients : Starts(job'[d]) /\ job'[d].conv = w
      BY <1>1, <1>2, <1>3, <1>8, <1>10, <2>2 DEF OrderInv, Starts
    <3>. QED
      BY <1>0, <1>3, <1>7, <2>2, <3>1, <3>2, <3>3, CountIsNat
  <2>. QED
    BY <2>1, <2>2
<1>11. /\ \A d \in Clients : JobFits(job[d])'
       /\ \A d, e \in Clients :
            Starts(job'[d]) /\ Starts(job'[e]) /\ job'[d].conv = job'[e].conv
              /\ job'[d].conv \notin gone' => d = e
  <2>1. \A d \in Clients : job'[d] = job[d] \/ job'[d].at \in Elsewhere
    BY <1>8 DEF Elsewhere
  <2>. QED
    BY <1>0, <1>3, <1>10, <2>1, JobsStillFit
<1>12. \A v \in dead' : stored'[v] = {}
  BY <1>3 DEF OrderInv
<1>. QED
  BY <1>9, <1>11, <1>12 DEF OrderInv

\* Rows go: who relied on one of them is told that it is gone, unless its first
\* turn still runs, and then nobody relied on it.
LEMMA EraseStep ==
  ASSUME TurnsInv, TypeOK', OrderInv, NEW S \in SUBSET Convs, Erase(S),
         UNCHANGED <<places, turn>>, dead' \subseteq dead \cup S,
         \A c \in Clients : job'[c] = job[c] \/ job'[c].at \in Elsewhere
  PROVE  OrderInv'
<1>0. TypeOK
  BY DEF TurnsInv
<1>1. \A v \in Convs : (Runs(v)' <=> Runs(v)) /\ (OnFirst(v)' <=> OnFirst(v))
  BY DEF Runs, OnFirst
<1>2. /\ gone \subseteq gone'
      /\ \A v \in Convs \ S : stored'[v] = stored[v]
      /\ \A v \in S : stored'[v] = {} /\ (v \notin gone' => stored[v] = {} \/ OnFirst(v))
  BY DEF Erase
<1>3. ASSUME NEW v \in Convs \ gone' PROVE InOrder(v)' /\ TurnFits(v)'
  <2>1. InOrder(v) /\ TurnFits(v)
    BY <1>2, <1>3 DEF OrderInv
  <2>2. CASE stored'[v] = stored[v]
    BY <1>1, <2>1, <2>2 DEF InOrder, TurnFits
  <2>3. CASE v \in S /\ OnFirst(v)
    <3>1. stored'[v] = {} /\ Cardinality(stored'[v]) = 0
      BY <1>2, <2>3, FS_EmptySet
    <3>2. InOrder(v)'
      BY <3>1 DEF InOrder
    <3>3. TurnFits(v)'
      BY <2>3, <3>1 DEF TurnFits, OnFirst
    <3>. QED
      BY <3>2, <3>3
  <2>. QED
    BY <1>2, <1>3, <2>2, <2>3
<1>4. ASSUME NEW v \in Convs \ gone'
      PROVE  /\ stored[v] # {} /\ ~OnFirst(v) =>
                  /\ stored'[v] # {} /\ ~OnFirst(v)'
                  /\ Cardinality(stored[v]) <= Cardinality(stored'[v])
             /\ stored[v] = {} /\ ~Runs(v)
                  /\ (\E c \in Clients : Starts(job'[c]) /\ job'[c].conv = v) =>
                  stored'[v] = {} /\ ~Runs(v)'
  BY <1>0, <1>1, <1>2, CountIsNat
<1>5. /\ \A c \in Clients : JobFits(job[c])'
      /\ \A c, d \in Clients :
           Starts(job'[c]) /\ Starts(job'[d]) /\ job'[c].conv = job'[d].conv
             /\ job'[c].conv \notin gone' => c = d
  BY <1>0, <1>2, <1>4, JobsStillFit
<1>6. \A v \in dead' : stored'[v] = {}
  BY <1>0, <1>2 DEF OrderInv, TypeOK
<1>. QED
  BY <1>3, <1>5, <1>6 DEF OrderInv

LEMMA RestartStep ==
  ASSUME TurnsInv, TypeOK', OrderInv, Restart
  PROVE  OrderInv'
<1>1. /\ \A v \in Convs : ~Runs(v)'
      /\ UNCHANGED <<stored, dead>> /\ gone \subseteq gone'
  BY DEF Restart, Runs
<1>2. \A v \in Convs \ gone' : InOrder(v)' /\ TurnFits(v)'
  BY <1>1 DEF OrderInv, InOrder, TurnFits
<1>3. \A c \in Clients : job'[c].at = "idle"
  BY DEF Restart, Idle
<1>4. \A c \in Clients : JobFits(job[c])'
  BY <1>3 DEF JobFits, Relies, Starts
<1>. QED
  BY <1>1, <1>2, <1>3, <1>4 DEF OrderInv, Starts

LEMMA ClientStepOrders ==
  ASSUME TurnsInv, TypeOK', OrderInv, NEW c \in Clients, Take(c) \/ ClientNext(c)
  PROVE  OrderInv'
<1>0. TypeOK /\ job[c] \in Job /\ JobFits(job[c])
  BY DEF TurnsInv, TypeOK, OrderInv
<1>1. ASSUME NEW j \in Job, j.at \in Elsewhere, Become(c, j),
             UNCHANGED <<stored, dead, places, turn, gone>>
      PROVE  OrderInv'
  <2>1. JobFits(j) /\ ~Starts(j)
    BY <1>1 DEF JobFits, Relies, Starts, Elsewhere
  <2>. QED
    BY <1>1, <2>1, RequestFits
<1>2. Idle \in Job /\ Idle.at \in Elsewhere
  BY DEF Job, Idle, Elsewhere
<1>3. ASSUME NEW v \in Convs, v \in gone, Become(c, [at |-> "missing", conv |-> v]),
             UNCHANGED <<stored, dead, places, turn, gone>>
      PROVE  OrderInv'
  <2>. DEFINE j == [at |-> "missing", conv |-> v]
  <2>1. j \in Job /\ JobFits(j) /\ ~Starts(j)
    BY <1>3 DEF Job, JobFits, Relies, Starts
  <2>. QED
    BY <1>3, <2>1, RequestFits
<1>4. CASE Take(c)
  <2>1. job[c] \in [at : {"follow"}, turn : Turns, woken : BOOLEAN]
    BY <1>0, <1>4 DEF Take, Job, Idle
  <2>2. /\ [job[c] EXCEPT !.woken = FALSE] \in Job
        /\ [job[c] EXCEPT !.woken = FALSE].at \in Elsewhere
    BY <2>1 DEF Job, Elsewhere
  <2>. QED
    BY <1>1, <1>2, <1>4, <2>2 DEF Take
<1>5. ASSUME NEW v \in Convs, StartBora(c, v)
      PROVE  OrderInv'
  <2>. DEFINE j == [at |-> "enter", conv |-> v, n |-> 0]
  <2>1. j \in Job /\ Starts(j) /\ ~Relies(j)
    BY DEF Job, Starts, Relies
  <2>2. stored[v] = {} /\ ~Runs(v) /\ \A d \in Clients : job[d].at = "enter" => job[d].conv # v
    BY <1>5 DEF StartBora, Fresh
  <2>3. Cardinality(stored[v]) \in Nat
    BY <1>0, CountIsNat
  <2>4. JobFits(j)
    <3>1. j.at = "enter" /\ j.conv = v /\ j.n = 0
      OBVIOUS
    <3>. HIDE DEF j
    <3>2. j.n <= Cardinality(stored[j.conv])
      BY <2>3, <3>1
    <3>. QED
      BY <2>1, <2>2, <3>1, <3>2, Zenon DEF JobFits
  <2>. QED
    BY <1>5, <2>1, <2>2, <2>4, RequestFits DEF StartBora
<1>6. ASSUME NEW v \in Convs, AskBora(c, v)
      PROVE  OrderInv'
  <2>. DEFINE j == [at |-> "read", conv |-> v]
  <2>1. j \in Job /\ ~Starts(j)
    BY DEF Job, Starts
  <2>2. JobFits(j)
    BY <1>6 DEF AskBora, Known, JobFits, Relies, Starts, OnFirst
  <2>. QED
    BY <1>6, <2>1, <2>2, RequestFits DEF AskBora
<1>7. ASSUME NEW v \in Convs, FollowBora(c, v)
      PROVE  OrderInv'
  <2>1. places[v] \in Turns
    BY <1>0, <1>7 DEF FollowBora, Runs, TypeOK
  <2>2. Following(places[v]) \in Job /\ Following(places[v]).at \in Elsewhere
    BY <2>1 DEF Following, Job, Elsewhere
  <2>. QED
    BY <1>1, <1>7, <2>2 DEF FollowBora
<1>8. ASSUME NEW v \in Convs, Look(c, v)
      PROVE  OrderInv'
  <2>. DEFINE j == [at |-> "look", conv |-> v, first |-> OnFirst(v)]
  <2>1. j \in Job /\ ~Starts(j)
    BY DEF Job, Starts, OnFirst, Runs
  <2>2. JobFits(j)
    BY <1>8 DEF Look, Known, JobFits, Relies, Starts
  <2>. QED
    BY <1>8, <2>1, <2>2, RequestFits DEF Look
<1>9. CASE Read(c)
  <2>1. PICK v : v = job[c].conv
    OBVIOUS
  <2>2. v \in Convs /\ stored[v] \in SUBSET Ns
    BY <1>0, <1>9, <2>1, JobTyped DEF Read, TypeOK
  <2>3. CASE stored[v] = {}
    <3>1. v \in gone
      BY <1>0, <1>9, <2>1, <2>3 DEF Read, JobFits, Relies
    <3>. QED
      BY <1>3, <1>9, <2>1, <2>2, <2>3, <3>1 DEF Read
  <2>4. CASE stored[v] # {}
    <3>. DEFINE j == [at |-> "messages", conv |-> v]
    <3>1. j \in Job /\ ~Starts(j)
      BY <2>2 DEF Job, Starts
    <3>2. v \notin gone => ~OnFirst(v)
      BY <1>0, <1>9, <2>1 DEF Read, JobFits, Relies
    <3>3. JobFits(j)
      BY <2>4, <3>2 DEF JobFits, Relies, Starts
    <3>. QED
      BY <1>9, <2>1, <2>4, <3>1, <3>3, RequestFits DEF Read
  <2>. QED
    BY <2>3, <2>4
<1>16. CASE ReadMessages(c)
  <2>1. PICK v : v = job[c].conv
    OBVIOUS
  <2>2. v \in Convs /\ stored[v] \in SUBSET Ns
    BY <1>0, <1>16, <2>1, JobTyped DEF ReadMessages, TypeOK
  <2>3. v \notin gone => stored[v] # {} /\ ~OnFirst(v)
    BY <1>0, <1>16, <2>1 DEF ReadMessages, JobFits, Relies
  <2>. DEFINE j == [at |-> "enter", conv |-> v, n |-> Cardinality(stored[v])]
  <2>4. j \in Job /\ Cardinality(stored[v]) \in Nat
    BY <2>2, CountInBound DEF Job
  <2>5. v \notin gone => Cardinality(stored[v]) # 0
    <3>1. IsFiniteSet(stored[v])
      BY <1>0, <2>2, CountIsNat
    <3>. QED
      BY <2>3, <3>1, FS_EmptySet
  <2>6. JobFits(j) /\ (v \notin gone => ~Starts(j))
    BY <2>3, <2>4, <2>5 DEF JobFits, Relies, Starts
  <2>. QED
    BY <1>16, <2>1, <2>4, <2>6, RequestFits DEF ReadMessages
<1>10. CASE Refuse(c)
  BY <1>1, <1>2, <1>10 DEF Refuse
<1>11. CASE Find(c)
  <2>1. PICK v : v = job[c].conv
    OBVIOUS
  <2>2. v \in Convs
    BY <1>0, <1>11, <2>1, JobTyped DEF Find
  <2>3. CASE stored[v] = {} /\ ~job[c].first
    <3>1. v \in gone
      BY <1>0, <1>11, <2>1, <2>3 DEF Find, JobFits, Relies
    <3>. QED
      BY <1>3, <1>11, <2>1, <2>2, <2>3, <3>1 DEF Find
  <2>4. CASE ~(stored[v] = {} /\ ~job[c].first)
    BY <1>1, <1>2, <1>11, <2>1, <2>4 DEF Find
  <2>. QED
    BY <2>3, <2>4
<1>12. CASE CancelTurns(c)
  <2>1. job[c].convs \in SUBSET Convs
    BY <1>0, <1>12 DEF CancelTurns, Job, Idle
  <2>2. \A d \in Clients : job'[d] = job[d] \/ job'[d].at \in Elsewhere
    BY <1>0, <1>2, <1>12 DEF CancelTurns, Become, TypeOK
  <2>. QED
    BY <1>0, <1>12, <2>1, <2>2, CancellingKeepsAsked, QuietStep DEF CancelTurns
<1>13. CASE Leave(c)
  BY <1>1, <1>2, <1>13 DEF Leave
<1>14. ASSUME NEW t \in Turns, Enter(c, t)
       PROVE  OrderInv'
  BY <1>14, EnterStep
<1>15. ASSUME NEW S \in Deletable, DeleteBora(c, S)
       PROVE  OrderInv'
  <2>1. S \in SUBSET Convs
    BY DeletableConvs
  <2>2. \A d \in Clients : job'[d] = job[d] \/ job'[d].at \in Elsewhere
    BY <1>0, <1>15 DEF DeleteBora, Become, TypeOK, Elsewhere
  <2>. QED
    BY <1>15, <2>1, <2>2, EraseStep DEF DeleteBora
<1>. QED
  BY <1>4, <1>5, <1>6, <1>7, <1>8, <1>9, <1>10, <1>11, <1>12, <1>13, <1>14, <1>15,
     <1>16 DEF ClientNext

LEMMA CancelOrders ==
  ASSUME TurnsInv, TypeOK', OrderInv, NEW S \in SUBSET Convs, turn' = Cancelling(S),
         UNCHANGED <<stored, dead, places, job, gone>>
  PROVE  OrderInv'
BY CancellingKeepsAsked, QuietStep DEF TurnsInv

LEMMA InitOrders == Init => OrderInv
<1>. SUFFICES ASSUME Init PROVE OrderInv
  OBVIOUS
<1>1. \A v \in Convs : stored[v] = {} /\ Cardinality(stored[v]) = 0 /\ ~Runs(v)
  BY FS_EmptySet DEF Init, Runs
<1>2. \A c \in Clients : job[c].at = "idle"
  BY DEF Init, Idle
<1>3. \A c \in Clients : JobFits(job[c])
  BY <1>2 DEF JobFits, Relies, Starts
<1>. QED
  BY <1>1, <1>2, <1>3 DEF Init, OrderInv, InOrder, TurnFits, Starts

LEMMA NextOrders == TurnsInv /\ OrderInv /\ [Next]_vars => OrderInv'
<1>. SUFFICES ASSUME TurnsInv, OrderInv, [Next]_vars PROVE OrderInv'
  OBVIOUS
<1>. TypeOK'
  BY NextKeeps DEF TurnsInv
<1>1. ASSUME NEW t \in Turns, TurnNext(t) \/ Step(t) \/ Collect(t)
      PROVE  OrderInv'
  BY <1>1, QuietTurnStep, CommitStep, LeaveStep DEF TurnNext
<1>2. ASSUME NEW c \in Clients, Take(c) \/ ClientNext(c)
      PROVE  OrderInv'
  BY <1>2, ClientStepOrders
<1>3. ASSUME NEW v \in Convs, StopBora(v)
      PROVE  OrderInv'
  BY <1>3, CancelOrders DEF StopBora
<1>4. ASSUME NEW v \in Convs, Vanish(v)
      PROVE  OrderInv'
  <2>1. Erase({v}) /\ UNCHANGED <<places, turn, job>> /\ dead' \subseteq dead \cup {v}
    BY <1>4 DEF Vanish
  <2>. QED
    BY <2>1, EraseStep
<1>5. CASE StopAllBora
  BY <1>5, CancelOrders DEF StopAllBora
<1>6. CASE Restart
  BY <1>6, RestartStep
<1>7. CASE UNCHANGED vars
  BY <1>7, QuietStep DEF vars
<1>. QED
  BY <1>1, <1>2, <1>3, <1>4, <1>5, <1>6, <1>7 DEF Next

\* Exchanges are kept in the order they were asked in, without a gap, in every
\* conversation that nobody has deleted, however long ago a request read the
\* number it asks with; and a deleted user or project keeps none.
THEOREM OrderHolds == Spec => []ExchangesInOrder
<1>1. OrderInv => ExchangesInOrder
  BY DEF OrderInv, ExchangesInOrder, InOrder
<1>. QED
  BY <1>1, InitInv, NextKeeps, InitOrders, NextOrders, PTL DEF Spec

\* A request is told that there is no such conversation only when it is gone:
\* BoraConversation looks at the turns before it looks at the rows, and no
\* moment between the two hides a conversation that is there.
THEOREM MissingCorrect == Spec => []MissingIsGone
<1>1. OrderInv => MissingIsGone
  BY DEF OrderInv, MissingIsGone, JobFits
<1>. QED
  BY <1>1, InitInv, NextKeeps, InitOrders, NextOrders, PTL DEF Spec

(***************************************************************************)
(* BoraTurns implements BoraTalk, as far as safety goes.  Every step is a  *)
(* step of one conversation's promise, or of its deletion, or nothing that *)
(* BoraTalk can see.                                                       *)
(***************************************************************************)
LEMMA AskedKept ==
  ASSUME NEW v \in Convs, Runs(v)' <=> Runs(v),
         Runs(v) => \/ turn'[places'[v]].at = turn[places[v]].at
                    \/ turn'[places'[v]].at \in Open /\ turn[places[v]].at \in Open
  PROVE  Asked(v)' = Asked(v)
BY DEF Asked, Open

\* What BoraTalk cannot see.
LEMMA Unseen ==
  ASSUME UNCHANGED stored, \A v \in Convs : Asked(v)' = Asked(v)
  PROVE  UNCHANGED Talk!vars
BY DEF Talk!vars

LEMMA SeenAsk ==
  ASSUME NEW w \in Convs, UNCHANGED stored, Asked(w) = "no", Asked(w)' = "open",
         \A v \in Convs \ {w} : Asked(v)' = Asked(v)
  PROVE  Talk!Next
<1>1. Talk!Ask(w)
  BY DEF Talk!Ask
<1>. QED
  BY <1>1 DEF Talk!Next

LEMMA SeenAnswer ==
  ASSUME NEW w \in Convs, Asked(w) = "open", Asked(w)' = "answered",
         Cardinality(stored'[w]) = Cardinality(stored[w]) + 1,
         \A v \in Convs \ {w} : Asked(v)' = Asked(v) /\ stored'[v] = stored[v]
  PROVE  Talk!Next
<1>1. Talk!Answer(w)
  BY DEF Talk!Answer
<1>. QED
  BY <1>1 DEF Talk!Next

LEMMA SeenLose ==
  ASSUME NEW w \in Convs, Asked(w) = "open", Asked(w)' = "lost",
         \/ Cardinality(stored'[w]) = Cardinality(stored[w]) + 1
         \/ stored'[w] = stored[w],
         \A v \in Convs \ {w} : Asked(v)' = Asked(v) /\ stored'[v] = stored[v]
  PROVE  Talk!Next
<1>1. Talk!Lose(w)
  BY DEF Talk!Lose
<1>. QED
  BY <1>1 DEF Talk!Next

LEMMA SeenClose ==
  ASSUME NEW w \in Convs, UNCHANGED stored,
         Asked(w) \in {"answered", "lost"}, Asked(w)' = "no",
         \A v \in Convs \ {w} : Asked(v)' = Asked(v)
  PROVE  Talk!Next
<1>1. Talk!Close(w)
  BY DEF Talk!Close
<1>. QED
  BY <1>1 DEF Talk!Next

LEMMA SeenDelete ==
  ASSUME NEW S \in SUBSET Convs, Erase(S), \A v \in Convs : Asked(v)' = Asked(v)
  PROVE  Talk!Next
<1>1. Cardinality({}) = 0
  BY FS_EmptySet
<1>2. Talk!Delete
  BY <1>1 DEF Talk!Delete, Erase
<1>. QED
  BY <1>2 DEF Talk!Next

LEMMA SeenRestart ==
  ASSUME UNCHANGED stored, \A v \in Convs : Asked(v)' = "no"
  PROVE  Talk!Next
<1>1. Talk!Restart
  BY DEF Talk!Restart
<1>. QED
  BY <1>1 DEF Talk!Next

\* A turn that runs is in the place of its conversation, and no other's.
LEMMA RunsAlone ==
  ASSUME TurnsInv, NEW t \in Turns, ~Free(t), turn[t].at \in Holding
  PROVE  /\ turn[t].conv \in Convs /\ Runs(turn[t].conv) /\ places[turn[t].conv] = t
         /\ \A v \in Convs \ {turn[t].conv} : Runs(v) => places[v] \in Turns \ {t}
<1>1. turn[t] \in Turn /\ places[turn[t].conv] = t
  BY DEF TurnsInv, TypeOK, PlacesBounded, Free
<1>2. turn[t].conv \in Convs /\ Runs(turn[t].conv)
  BY <1>1, NoTurnAssumption DEF Turn, Runs
<1>3. ASSUME NEW v \in Convs \ {turn[t].conv}, Runs(v) PROVE places[v] \in Turns \ {t}
  BY <1>3 DEF TurnsInv, TypeOK, PlacesBounded, Runs
<1>. QED
  BY <1>1, <1>2, <1>3

\* A step that leaves the places and the rows, and asks and answers nothing.
LEMMA QuietUnseen ==
  ASSUME TurnsInv, UNCHANGED <<stored, places>>,
         \A t \in Turns : turn[t] # NoTurn /\ turn[t].at \in Holding =>
           \/ turn'[t].at = turn[t].at
           \/ turn'[t].at \in Open /\ turn[t].at \in Open
  PROVE  UNCHANGED Talk!vars
<1>1. ASSUME NEW v \in Convs PROVE Asked(v)' = Asked(v)
  <2>1. Runs(v)' <=> Runs(v)
    BY DEF Runs
  <2>2. Runs(v) => /\ places[v] \in Turns /\ turn[places[v]] # NoTurn
                   /\ turn[places[v]].at \in Holding
    BY DEF TurnsInv, TypeOK, PlacesBounded, Runs, Free
  <2>. QED
    BY <2>1, <2>2, AskedKept
<1>. QED
  BY <1>1, Unseen

\* A step of the turn in the place of one conversation leaves what the others ask.
LEMMA OthersAsked ==
  ASSUME TurnsInv, NEW t \in Turns, ~Free(t), turn[t].at \in Holding,
         \A s \in Turns \ {t} : turn'[s] = turn[s],
         \A v \in Convs \ {turn[t].conv} : places'[v] = places[v],
         NEW v \in Convs \ {turn[t].conv}
  PROVE  Asked(v)' = Asked(v)
<1>1. Runs(v) => places[v] \in Turns \ {t}
  BY RunsAlone
<1>2. Runs(v)' <=> Runs(v)
  BY DEF Runs
<1>. QED
  BY <1>1, <1>2, AskedKept

LEMMA TurnStepSeen ==
  ASSUME TurnsInv, NEW t \in Turns, TurnNext(t) \/ Step(t) \/ Collect(t)
  PROVE  Talk!Next \/ UNCHANGED Talk!vars
<1>0. TypeOK /\ turn \in [Turns -> Turn \cup {NoTurn}]
  BY DEF TurnsInv, TypeOK
<1>1. PICK w : w = turn[t].conv
  OBVIOUS
<1>2. CASE CallTools(t) \/ Answer(t)
  <2>1. ~Free(t) /\ turn[t].at = "asking" /\ turn[t] \in Turn
    BY <1>0, <1>2 DEF CallTools, Answer, Free
  <2>2. /\ turn'[t].at \in Open
        /\ \A s \in Turns \ {t} : turn'[s] = turn[s]
    <3>1. CASE CallTools(t)
      <4>1. PICK l \in 0..MaxRounds : turn' = [turn EXCEPT ![t].left = l]
        BY <2>1, <3>1 DEF CallTools, Turn
      <4>. QED
        BY <1>0, <2>1, <4>1 DEF Turn, Open
    <3>2. CASE Answer(t)
      BY <1>0, <2>1, <3>2, FinishingFields DEF Answer, Open
    <3>. QED
      BY <1>2, <3>1, <3>2
  <2>3. UNCHANGED <<stored, places>>
    BY <1>2 DEF CallTools, Answer
  <2>. QED
    BY <2>1, <2>2, <2>3, QuietUnseen DEF Open
<1>3. CASE Save(t) \/ SaveUnheard(t)
  <2>1. ~Free(t) /\ turn[t].at = "saving" /\ turn[t].at \in Holding /\ turn[t] \in Turn
    BY <1>0, <1>3 DEF Save, SaveUnheard, Free, Holding
  <2>2. PICK a \in {"saved", "failed"} :
          /\ a = "saved" <=> Save(t)
          /\ turn' = [turn EXCEPT ![t].at = a]
    <3>1. CASE Save(t)
      BY <3>1 DEF Save
    <3>2. CASE ~Save(t)
      BY <1>3, <3>2 DEF SaveUnheard
    <3>. QED
      BY <3>1, <3>2
  <2>3. turn'[t].at = a /\ \A s \in Turns \ {t} : turn'[s] = turn[s]
    BY <1>0, <2>1, <2>2 DEF Turn
  <2>4. UNCHANGED places
    BY <1>3 DEF Save, SaveUnheard
  <2>5. w \in Convs /\ Runs(w) /\ places[w] = t
    BY <1>1, <2>1, RunsAlone
  <2>6. /\ turn[t].n \notin stored[w]
        /\ stored'[w] = stored[w] \cup {turn[t].n}
        /\ \A v \in Convs \ {w} : stored'[v] = stored[v]
    BY <1>0, <1>1, <1>3, <2>5 DEF Save, SaveUnheard, Committed, TypeOK
  <2>7. Cardinality(stored'[w]) = Cardinality(stored[w]) + 1
    BY <1>0, <2>5, <2>6, CountIsNat, FS_AddElement
  <2>8. \A v \in Convs \ {w} : Asked(v)' = Asked(v)
    BY <1>1, <2>1, <2>3, <2>4, OthersAsked
  <2>9. Runs(w)' /\ places'[w] = t
    BY <2>4, <2>5 DEF Runs
  <2>10. Asked(w) = "open" /\ Asked(w)' = IF a = "saved" THEN "answered" ELSE "lost"
    BY <2>1, <2>3, <2>5, <2>9 DEF Asked
  <2>11. CASE a = "saved"
    BY <2>5, <2>6, <2>7, <2>8, <2>10, <2>11, SeenAnswer
  <2>12. CASE a = "failed"
    BY <2>5, <2>6, <2>7, <2>8, <2>10, <2>12, SeenLose
  <2>. QED
    BY <2>11, <2>12
<1>4. CASE GiveUp(t)
  <2>1. ~Free(t) /\ turn[t].at \in Open /\ turn[t].at \in Holding
    BY <1>4 DEF GiveUp, Open, Holding
  <2>2. turn'[t].at = "failed" /\ \A s \in Turns \ {t} : turn'[s] = turn[s]
    BY <1>0, <1>4, <2>1, FinishingFields DEF GiveUp
  <2>3. UNCHANGED <<stored, places>>
    BY <1>4 DEF GiveUp
  <2>4. w \in Convs /\ Runs(w) /\ places[w] = t
    BY <1>1, <2>1, RunsAlone
  <2>5. \A v \in Convs \ {w} : Asked(v)' = Asked(v)
    BY <1>1, <2>1, <2>2, <2>3, OthersAsked
  <2>6. Runs(w)' /\ places'[w] = t
    BY <2>3, <2>4 DEF Runs
  <2>7. Asked(w) = "open" /\ Asked(w)' = "lost"
    BY <2>1, <2>2, <2>4, <2>6 DEF Asked, Open
  <2>. QED
    BY <2>3, <2>4, <2>5, <2>7, SeenLose
<1>5. CASE LeavePlace(t)
  <2>1. ~Free(t) /\ turn[t].at \in {"saved", "failed"} /\ turn[t].at \in Holding
    BY <1>5 DEF LeavePlace, Holding
  <2>2. w \in Convs /\ Runs(w) /\ places[w] = t
    BY <1>1, <2>1, RunsAlone
  <2>3. /\ UNCHANGED stored
        /\ places'[w] = NoTurn
        /\ \A v \in Convs \ {w} : places'[v] = places[v]
        /\ \A s \in Turns \ {t} : turn'[s] = turn[s]
    BY <1>0, <1>1, <1>5, <2>2 DEF LeavePlace, TypeOK
  <2>4. \A v \in Convs \ {w} : Asked(v)' = Asked(v)
    BY <1>1, <2>1, <2>3, OthersAsked
  <2>5. Asked(w) \in {"answered", "lost"} /\ Asked(w)' = "no"
    BY <2>1, <2>2, <2>3 DEF Asked, Runs
  <2>. QED
    BY <2>2, <2>3, <2>4, <2>5, SeenClose
<1>6. CASE Outcome(t) \/ End(t) \/ Step(t) \/ Collect(t)
  <2>1. UNCHANGED <<stored, places>>
    BY <1>6 DEF Outcome, End, Step, Collect
  <2>2. ASSUME NEW s \in Turns, turn[s] # NoTurn, turn[s].at \in Holding
        PROVE  turn'[s].at = turn[s].at
    <3>1. CASE Step(t)
      BY <3>1 DEF Step
    <3>2. CASE s # t
      BY <1>0, <1>6, <3>2 DEF Outcome, End, Step, Collect
    <3>3. CASE s = t /\ ~Step(t)
      BY <1>6, <2>2, <3>3 DEF Outcome, End, Collect, Forgotten, Holding, TurnsInv, PlacesBounded, Free
    <3>. QED
      BY <3>1, <3>2, <3>3
  <2>. QED
    BY <2>1, <2>2, QuietUnseen
<1>. QED
  BY <1>2, <1>3, <1>4, <1>5, <1>6 DEF TurnNext

LEMMA CancelUnseen ==
  ASSUME TurnsInv, NEW S \in SUBSET Convs, turn' = Cancelling(S), UNCHANGED <<stored, places>>
  PROVE  UNCHANGED Talk!vars
BY CancellingKeepsAsked, QuietUnseen DEF TurnsInv

LEMMA EraseSeen ==
  ASSUME NEW S \in SUBSET Convs, Erase(S), UNCHANGED <<places, turn>>
  PROVE  Talk!Next
<1>1. \A v \in Convs : Asked(v)' = Asked(v)
  BY DEF Asked, Runs
<1>. QED
  BY <1>1, SeenDelete

LEMMA EnterSeen ==
  ASSUME TurnsInv, NEW c \in Clients, NEW t \in Turns, Enter(c, t)
  PROVE  Talk!Next
<1>0. /\ TypeOK /\ turn \in [Turns -> Turn \cup {NoTurn}]
      /\ places \in [Convs -> Turns \cup {NoTurn}] /\ job[c] \in Job
  BY DEF TurnsInv, TypeOK
<1>1. PICK w : w = job[c].conv
  OBVIOUS
<1>2. w \in Convs /\ ~Runs(w)
  BY <1>0, <1>1, JobTyped DEF Enter, HasRoom
<1>3. /\ UNCHANGED stored
      /\ places'[w] = t /\ \A v \in Convs \ {w} : places'[v] = places[v]
      /\ turn[t] = NoTurn
      /\ turn'[t].at = "asking"
      /\ \A s \in Turns \ {t} : turn'[s] = turn[s]
  BY <1>0, <1>1, <1>2 DEF Enter, Free
<1>4. Asked(w) = "no" /\ Asked(w)' = "open"
  BY <1>2, <1>3, NoTurnAssumption DEF Asked, Runs
<1>5. ASSUME NEW v \in Convs \ {w} PROVE Asked(v)' = Asked(v)
  <2>1. Runs(v)' <=> Runs(v)
    BY <1>3 DEF Runs
  <2>2. Runs(v) => places[v] \in Turns /\ turn[places[v]] # NoTurn
    BY <1>0 DEF TurnsInv, PlacesBounded, Runs, Free
  <2>. QED
    BY <1>3, <2>1, <2>2, AskedKept
<1>. QED
  BY <1>2, <1>3, <1>4, <1>5, SeenAsk

LEMMA ClientStepSeen ==
  ASSUME TurnsInv, NEW c \in Clients, Take(c) \/ ClientNext(c)
  PROVE  Talk!Next \/ UNCHANGED Talk!vars
<1>1. ASSUME UNCHANGED <<stored, places, turn>> PROVE UNCHANGED Talk!vars
  BY <1>1, QuietUnseen
<1>2. CASE Take(c) \/ Read(c) \/ ReadMessages(c) \/ Refuse(c) \/ Find(c) \/ Leave(c)
  BY <1>1, <1>2 DEF Take, Read, ReadMessages, Refuse, Find, Leave
<1>3. ASSUME NEW v \in Convs, StartBora(c, v) \/ AskBora(c, v) \/ FollowBora(c, v) \/ Look(c, v)
      PROVE  UNCHANGED Talk!vars
  BY <1>1, <1>3 DEF StartBora, AskBora, FollowBora, Look
<1>4. CASE CancelTurns(c)
  <2>1. job[c].convs \in SUBSET Convs
    BY <1>4 DEF CancelTurns, Job, Idle, TurnsInv, TypeOK
  <2>. QED
    BY <1>4, <2>1, CancelUnseen DEF CancelTurns
<1>5. ASSUME NEW t \in Turns, Enter(c, t) PROVE Talk!Next
  BY <1>5, EnterSeen
<1>6. ASSUME NEW S \in Deletable, DeleteBora(c, S) PROVE Talk!Next
  BY <1>6, DeletableConvs, EraseSeen DEF DeleteBora
<1>. QED
  BY <1>2, <1>3, <1>4, <1>5, <1>6 DEF ClientNext

LEMMA StepSeen == TurnsInv /\ [Next]_vars => [Talk!Next]_(Talk!vars)
<1>. SUFFICES ASSUME TurnsInv, [Next]_vars PROVE Talk!Next \/ UNCHANGED Talk!vars
  OBVIOUS
<1>1. ASSUME NEW t \in Turns, TurnNext(t) \/ Step(t) \/ Collect(t)
      PROVE  Talk!Next \/ UNCHANGED Talk!vars
  BY <1>1, TurnStepSeen
<1>2. ASSUME NEW c \in Clients, Take(c) \/ ClientNext(c)
      PROVE  Talk!Next \/ UNCHANGED Talk!vars
  BY <1>2, ClientStepSeen
<1>3. ASSUME NEW v \in Convs, StopBora(v) \/ Vanish(v)
      PROVE  Talk!Next \/ UNCHANGED Talk!vars
  BY <1>3, CancelUnseen, EraseSeen DEF StopBora, Vanish
<1>4. CASE StopAllBora
  BY <1>4, CancelUnseen DEF StopAllBora
<1>5. CASE Restart
  <2>1. UNCHANGED stored /\ \A v \in Convs : Asked(v)' = "no"
    BY <1>5 DEF Restart, Asked, Runs
  <2>. QED
    BY <2>1, SeenRestart
<1>6. CASE UNCHANGED vars
  BY <1>6, QuietUnseen DEF vars
<1>. QED
  BY <1>1, <1>2, <1>3, <1>4, <1>5, <1>6 DEF Next

LEMMA InitSeen == Init => Talk!Init
<1>1. Cardinality({}) = 0
  BY FS_EmptySet
<1>. QED
  BY <1>1 DEF Init, Talk!Init, Asked, Runs

\* The safety of TalkKept: whatever the requests, deletions, cancellations and
\* restarts do, a conversation has one question at a time, which adds one
\* exchange if it is answered and one or none if it is lost, and nothing but a
\* deletion takes one away.
THEOREM TalkImplemented == Spec => Talk!Init /\ [][Talk!Next]_(Talk!vars)
BY InitInv, NextKeeps, InitSeen, StepSeen, PTL DEF Spec
=============================================================================
