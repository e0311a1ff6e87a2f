--------------------- MODULE DocumentCoordinatorProofs ---------------------
(***************************************************************************)
(* For any set of operations: the coordinator of session documents gives   *)
(* its turns exclusively, in ticket order, without holes and without lost  *)
(* wake-ups, and so implements OrderedOperations (its safety part).        *)
(***************************************************************************)
EXTENDS DocumentCoordinator, TLAPS

\* A ticket belongs to one operation, and only to one that reserved.
TicketsUnique ==
    /\ \A o \in Ops : ticket[o] = 0 <=> pc[o] = "idle"
    /\ \A o \in Ops : ticket[o] <= next_sequence
    /\ \A o, p \in Ops : ticket[o] = ticket[p] /\ ticket[o] # 0 => o = p

\* Where the turn and the cancelled tickets may lie.
TurnInRange ==
    /\ next_to_run <= next_sequence + 1
    /\ \A n \in cancelled : next_to_run < n /\ n <= next_sequence

\* The holder of the guard is the operation whose turn it is.
HolderHasTurn ==
    /\ \A o \in Ops : pc[o] = "running" => running /\ ticket[o] = next_to_run
    /\ running => \E o \in Ops : pc[o] = "running"

SeenInPast == \A o \in Ops : seen[o] <= epoch

\* The inductive invariant.
IInv ==
    /\ TypeOK
    /\ TicketsUnique
    /\ TurnInRange
    /\ HolderHasTurn
    /\ NoGap
    /\ SeenInPast
    /\ NoLostWakeup
    /\ NeverSuperseded

LEMMA InitIInv == Init => IInv
  <1> SUFFICES ASSUME Init PROVE IInv
    OBVIOUS
  <1>1. TypeOK
    <2>1. pc \in [Ops -> Places] /\ ticket \in [Ops -> Nat] /\ seen \in [Ops -> Nat]
      BY DEF Init, Places
    <2>2. next_sequence \in Nat /\ next_to_run \in Nat \ {0} /\ epoch \in Nat
      BY DEF Init
    <2>3. running \in BOOLEAN
      BY Zenon DEF Init
    <2>4. cancelled \in SUBSET Nat
      BY Zenon DEF Init
    <2>5. QED
      BY <2>1, <2>2, <2>3, <2>4 DEF TypeOK
  <1>2. TicketsUnique /\ TurnInRange /\ HolderHasTurn /\ SeenInPast
    BY DEF Init, TicketsUnique, TurnInRange, HolderHasTurn, SeenInPast
  <1>3. NoGap /\ NoLostWakeup /\ NeverSuperseded
    BY DEF Init, NoGap, NoLostWakeup, NeverSuperseded, Live
  <1>4. QED
    BY <1>1, <1>2, <1>3 DEF IInv

LEMMA ReserveIInv == ASSUME IInv, NEW o \in Ops, Reserve(o) PROVE IInv'
  <1> USE DEF IInv, Reserve, TypeOK, Places
  <1>1. TypeOK'
    OBVIOUS
  <1>2. TicketsUnique'
    BY DEF TicketsUnique
  <1>3. (TurnInRange /\ HolderHasTurn /\ SeenInPast)'
    BY DEF TurnInRange, HolderHasTurn, SeenInPast, TicketsUnique
  <1>4. NoGap'
    <2>1. Live' = Live \cup {o}
      BY DEF Live
    <2>2. \A n \in next_to_run' .. next_sequence' :
             n \in cancelled' \/ \E p \in Live' : ticket'[p] = n
      <3> SUFFICES ASSUME NEW n \in next_to_run .. (next_sequence + 1)
                   PROVE  n \in cancelled \/ \E p \in Live' : ticket'[p] = n
        OBVIOUS
      <3>1. CASE n = next_sequence + 1
        BY <2>1, <3>1
      <3>2. CASE n \in next_to_run .. next_sequence
        <4>1. CASE \E p \in Live : ticket[p] = n
          <5>1. PICK p \in Live : ticket[p] = n
            BY <4>1
          <5>2. p # o
            BY <5>1 DEF Live
          <5>3. QED
            BY <5>1, <5>2, <2>1 DEF Live
        <4>2. QED
          BY <3>2, <4>1 DEF NoGap
      <3>3. QED
        BY <3>1, <3>2
    <2>3. \A p \in Live' : ticket'[p] >= next_to_run' /\ ticket'[p] \notin cancelled'
      BY <2>1 DEF NoGap, TurnInRange, Live
    <2>4. QED
      BY <2>2, <2>3 DEF NoGap
  <1>5. (NoLostWakeup /\ NeverSuperseded)'
    BY DEF NoLostWakeup, NeverSuperseded
  <1>6. QED
    BY <1>1, <1>2, <1>3, <1>4, <1>5

LEMMA ArmIInv == ASSUME IInv, NEW o \in Ops, Arm(o) PROVE IInv'
  <1> USE DEF IInv, Arm, TypeOK, Places
  <1>1. TypeOK'
    OBVIOUS
  <1>2. (TicketsUnique /\ TurnInRange /\ HolderHasTurn /\ SeenInPast)'
    BY DEF TicketsUnique, TurnInRange, HolderHasTurn, SeenInPast
  <1>3. NoGap'
    <2>1. Live' = Live
      BY DEF Live
    <2>2. QED
      BY <2>1 DEF NoGap
  <1>4. (NoLostWakeup /\ NeverSuperseded)'
    BY DEF NoLostWakeup, NeverSuperseded
  <1>5. QED
    BY <1>1, <1>2, <1>3, <1>4

LEMMA CheckTurnIInv == ASSUME IInv, NEW o \in Ops, CheckTurn(o) PROVE IInv'
  <1> USE DEF IInv, CheckTurn, TypeOK, Places
  <1>1. ticket[o] >= next_to_run
    BY DEF NoGap, Live
  <1>2. pc'[o] \in {"running", "waiting"}
    BY <1>1
  <1>3. TypeOK'
    OBVIOUS
  <1>4. (TicketsUnique /\ TurnInRange /\ SeenInPast)'
    BY <1>2 DEF TicketsUnique, TurnInRange, SeenInPast
  <1>5. HolderHasTurn'
    <2>1. CASE ticket[o] = next_to_run /\ ~running
      <3>1. running' /\ pc'[o] = "running" /\ ticket'[o] = next_to_run'
        <4>1. running'
          BY <2>1, Zenon
        <4>2. QED
          BY <2>1, <4>1
      <3>2. \A p \in Ops : p # o => pc'[p] # "running"
        BY <2>1 DEF HolderHasTurn
      <3>3. QED
        BY <3>1, <3>2 DEF HolderHasTurn
    <2>2. CASE ~(ticket[o] = next_to_run /\ ~running)
      <3>1. running' = running /\ pc'[o] # "running" /\ pc[o] # "running"
        BY <1>1, <2>2
      <3>2. QED
        BY <3>1 DEF HolderHasTurn
    <2>3. QED
      BY <2>1, <2>2
  <1>6. NoGap'
    <2>1. Live' = Live
      BY <1>2 DEF Live
    <2>2. QED
      BY <2>1 DEF NoGap
  <1>7. (NoLostWakeup /\ NeverSuperseded)'
    BY <1>1, <1>2 DEF NoLostWakeup, NeverSuperseded
  <1>8. QED
    BY <1>3, <1>4, <1>5, <1>6, <1>7

\* What SkipCancelled leaves behind.
LEMMA SkipFacts ==
    ASSUME next_sequence \in Nat, NEW from \in Nat \ {0}, NEW c \in SUBSET Nat,
           \A n \in c : n <= next_sequence,
           from <= next_sequence + 1,
           SkipCancelled(from, c)
    PROVE  /\ next_to_run' \in Nat \ {0}
           /\ from <= next_to_run' /\ next_to_run' <= next_sequence + 1
           /\ next_to_run' \notin c
           /\ \A m \in Nat : from <= m /\ m < next_to_run' => m \in c
           /\ \A m \in Nat : m \in cancelled' <=> m \in c /\ ~(from <= m /\ m < next_to_run')
           /\ cancelled' \in SUBSET Nat
  <1>1. PICK n \in from .. (next_sequence + 1) :
           /\ n \notin c
           /\ \A m \in from .. (n - 1) : m \in c
           /\ next_to_run' = n
           /\ cancelled' = c \ (from .. (n - 1))
    BY DEF SkipCancelled
  <1>2. n \in Nat \ {0} /\ from <= n /\ n <= next_sequence + 1
    OBVIOUS
  <1>3. \A m \in Nat : from <= m /\ m < n => m \in c
    BY <1>1, <1>2
  <1>4. \A m \in Nat : m \in cancelled' <=> m \in c /\ ~(from <= m /\ m < n)
    BY <1>1, <1>2
  <1>5. cancelled' \in SUBSET Nat
    BY <1>1
  <1>6. QED
    BY <1>1, <1>2, <1>3, <1>4, <1>5

LEMMA DropReservationIInv ==
    ASSUME IInv, NEW o \in Ops, DropReservation(o) PROVE IInv'
  <1> USE DEF IInv, TypeOK, Places
  <1> DEFINE c == cancelled \cup {ticket[o]}
  <1>1. /\ ticket[o] >= next_to_run /\ ticket[o] <= next_sequence
        /\ ticket[o] \in Nat /\ ticket[o] \notin cancelled /\ ticket[o] # 0
    BY DEF DropReservation, NoGap, Live, TicketsUnique
  <1>2. /\ pc[o] \in {"reserved", "waiting"}
        /\ pc' = [pc EXCEPT ![o] = "notifying"]
        /\ next_sequence' = next_sequence /\ running' = running
        /\ epoch' = epoch /\ ticket' = ticket /\ seen' = seen
    BY DEF DropReservation
  <1>3. Live' = Live \ {o}
    BY <1>2 DEF Live
  <1>4. /\ next_to_run' \in Nat \ {0} /\ cancelled' \in SUBSET Nat
        /\ next_to_run <= next_to_run' /\ next_to_run' <= next_sequence + 1
        /\ next_to_run' \notin c
        /\ \A m \in Nat : next_to_run <= m /\ m < next_to_run' => m \in c
        /\ \A m \in Nat : m \in cancelled' <=> m \in c /\ ~(next_to_run <= m /\ m < next_to_run')
        /\ running => next_to_run' = next_to_run
    <2>1. CASE running
      <3>1. next_to_run' = next_to_run /\ cancelled' = c
        BY <1>1, <2>1 DEF DropReservation
      <3>2. PICK h \in Ops : pc[h] = "running"
        BY <2>1 DEF HolderHasTurn
      <3>3. ticket[h] = next_to_run /\ h # o
        BY <3>2, <1>2 DEF HolderHasTurn
      <3>4. ticket[o] # next_to_run
        BY <3>3, <1>1 DEF TicketsUnique
      <3>5. next_to_run \notin c
        BY <3>4 DEF NoGap
      <3>6. c \in SUBSET Nat /\ cancelled' \in SUBSET Nat
        BY <3>1, <1>1
      <3>7. \A m \in Nat : m \in cancelled' <=> m \in c
        BY <3>1
      <3>8. next_to_run' \notin c
        BY <3>1, <3>5
      <3>9. next_to_run' \in Nat \ {0} /\ next_to_run <= next_to_run'
            /\ next_to_run' <= next_sequence + 1
        BY <3>1 DEF TurnInRange
      <3> HIDE DEF c
      <3>10. QED
        BY <3>1, <3>6, <3>7, <3>8, <3>9
    <2>2. CASE ~running
      <3>1. SkipCancelled(next_to_run, c)
        BY <1>1, <2>2 DEF DropReservation
      <3>2. \A n \in c : n <= next_sequence
        BY <1>1 DEF TurnInRange
      <3>3. QED
        BY <3>1, <3>2, <1>1, <2>2, SkipFacts DEF TurnInRange
    <2>3. QED
      BY <2>1, <2>2
  <1> HIDE DEF c
  <1>5. TypeOK'
    BY <1>2, <1>4
  <1>6. (TicketsUnique /\ SeenInPast)'
    BY <1>2 DEF TicketsUnique, SeenInPast
  <1>7. TurnInRange'
    <2>1. \A n \in c : n >= next_to_run /\ n <= next_sequence /\ n \in Nat
      BY <1>1 DEF TurnInRange, c
    <2>2. SUFFICES ASSUME NEW n \in cancelled' PROVE next_to_run' < n /\ n <= next_sequence
      BY <1>2, <1>4 DEF TurnInRange
    <2>3. n \in c /\ ~(next_to_run <= n /\ n < next_to_run') /\ n # next_to_run'
      BY <1>4
    <2>4. QED
      BY <2>1, <2>3, <1>4
  <1>8. HolderHasTurn'
    <2>1. \A p \in Ops : pc'[p] = "running" <=> pc[p] = "running"
      BY <1>2
    <2>2. QED
      BY <1>2, <1>4, <2>1 DEF HolderHasTurn
  <1>9. NoGap'
    <2>1. ASSUME NEW p \in Live'
          PROVE  ticket'[p] >= next_to_run' /\ ticket'[p] \notin cancelled'
      <3>1. p \in Live /\ p # o /\ p \in Ops
        BY <1>3 DEF Live
      <3>2. ticket[p] \notin c
        BY <3>1, <1>1 DEF NoGap, TicketsUnique, c
      <3>3. ticket[p] >= next_to_run /\ ticket[p] \in Nat
        BY <3>1 DEF NoGap
      <3>4. ~(next_to_run <= ticket[p] /\ ticket[p] < next_to_run')
        BY <3>2, <3>3, <1>4
      <3>5. QED
        BY <3>2, <3>3, <3>4, <1>2, <1>4
    <2>2. ASSUME NEW n \in Nat, next_to_run' <= n, n <= next_sequence
          PROVE  n \in cancelled' \/ \E p \in Live' : ticket'[p] = n
      <3>1. n \in next_to_run .. next_sequence /\ ~(next_to_run <= n /\ n < next_to_run')
        BY <2>2, <1>4
      <3>2. CASE n \in cancelled \/ n = ticket[o]
        BY <3>1, <3>2, <1>4 DEF c
      <3>3. CASE ~(n \in cancelled \/ n = ticket[o])
        <4>1. PICK p \in Live : ticket[p] = n
          BY <3>1, <3>3 DEF NoGap
        <4>2. p \in Live'
          BY <4>1, <3>3, <1>3
        <4>3. QED
          BY <4>1, <4>2, <1>2
      <3>4. QED
        BY <3>2, <3>3
    <2>3. next_to_run' \notin cancelled'
      BY <1>4
    <2>4. \A n \in next_to_run' .. next_sequence' :
             n \in cancelled' \/ \E p \in Live' : ticket'[p] = n
      BY <2>2, <1>2, <1>4
    <2>5. QED
      BY <2>1, <2>3, <2>4 DEF NoGap
  <1>10. (NoLostWakeup /\ NeverSuperseded)'
    <2>1. pc'[o] = "notifying"
      BY <1>2
    <2>2. QED
      BY <1>2, <2>1 DEF NoLostWakeup, NeverSuperseded
  <1>11. QED
    BY <1>5, <1>6, <1>7, <1>8, <1>9, <1>10

LEMMA DropGuardIInv ==
    ASSUME IInv, NEW o \in Ops, DropGuard(o) PROVE IInv'
  <1> USE DEF IInv, TypeOK, Places
  <1>1. /\ ticket[o] = next_to_run /\ running /\ ticket[o] <= next_sequence
        /\ ticket[o] \in Nat /\ ticket[o] # 0
    BY DEF DropGuard, HolderHasTurn, TicketsUnique
  <1>2. /\ pc[o] = "running" /\ pc' = [pc EXCEPT ![o] = "notifying"]
        /\ next_sequence' = next_sequence /\ running' = FALSE
        /\ epoch' = epoch /\ ticket' = ticket /\ seen' = seen
    BY DEF DropGuard
  <1>3. Live' = Live \ {o}
    BY <1>2 DEF Live
  <1>4. /\ next_to_run' \in Nat \ {0} /\ cancelled' \in SUBSET Nat
        /\ next_to_run + 1 <= next_to_run' /\ next_to_run' <= next_sequence + 1
        /\ next_to_run' \notin cancelled
        /\ \A m \in Nat : next_to_run + 1 <= m /\ m < next_to_run' => m \in cancelled
        /\ \A m \in Nat : m \in cancelled' <=> m \in cancelled /\ ~(next_to_run + 1 <= m /\ m < next_to_run')
    <2>1. SkipCancelled(next_to_run + 1, cancelled)
      BY DEF DropGuard
    <2>2. (\A n \in cancelled : n <= next_sequence) /\ next_to_run + 1 <= next_sequence + 1
      BY <1>1 DEF TurnInRange
    <2>3. next_to_run + 1 \in Nat \ {0}
      OBVIOUS
    <2>4. QED
      BY <2>1, <2>2, <2>3, SkipFacts
  <1>5. TypeOK'
    BY <1>2, <1>4
  <1>6. (TicketsUnique /\ SeenInPast)'
    BY <1>2 DEF TicketsUnique, SeenInPast
  <1>7. TurnInRange'
    <2>1. SUFFICES ASSUME NEW n \in cancelled' PROVE next_to_run' < n /\ n <= next_sequence
      BY <1>2, <1>4 DEF TurnInRange
    <2>2. /\ n \in cancelled /\ n # next_to_run' /\ n \in Nat
          /\ ~(next_to_run + 1 <= n /\ n < next_to_run')
      BY <1>4
    <2>3. QED
      BY <2>2, <1>4 DEF TurnInRange
  <1>8. HolderHasTurn'
    <2>1. \A p \in Ops : pc[p] = "running" => p = o
      BY <1>1 DEF HolderHasTurn, TicketsUnique
    <2>2. QED
      BY <1>2, <2>1 DEF HolderHasTurn
  <1>9. NoGap'
    <2>1. ASSUME NEW p \in Live'
          PROVE  ticket'[p] >= next_to_run' /\ ticket'[p] \notin cancelled'
      <3>1. p \in Live /\ p # o /\ p \in Ops
        BY <1>3 DEF Live
      <3>2. ticket[p] \notin cancelled /\ ticket[p] # next_to_run
        BY <3>1, <1>1 DEF NoGap, TicketsUnique
      <3>3. ticket[p] >= next_to_run /\ ticket[p] \in Nat
        BY <3>1 DEF NoGap
      <3>4. ~(next_to_run + 1 <= ticket[p] /\ ticket[p] < next_to_run')
        BY <3>2, <3>3, <1>4
      <3>5. QED
        BY <3>2, <3>3, <3>4, <1>2, <1>4
    <2>2. ASSUME NEW n \in Nat, next_to_run' <= n, n <= next_sequence
          PROVE  n \in cancelled' \/ \E p \in Live' : ticket'[p] = n
      <3>1. /\ n \in next_to_run .. next_sequence /\ n # ticket[o]
            /\ ~(next_to_run + 1 <= n /\ n < next_to_run')
        BY <1>1, <2>2, <1>4
      <3>2. CASE n \in cancelled
        BY <3>1, <3>2, <1>4
      <3>3. CASE n \notin cancelled
        <4>1. PICK p \in Live : ticket[p] = n
          BY <3>1, <3>3 DEF NoGap
        <4>2. p \in Live'
          BY <4>1, <3>1, <1>3
        <4>3. QED
          BY <4>1, <4>2, <1>2
      <3>4. QED
        BY <3>2, <3>3
    <2>3. next_to_run' \notin cancelled'
      BY <1>4
    <2>4. \A n \in next_to_run' .. next_sequence' :
             n \in cancelled' \/ \E p \in Live' : ticket'[p] = n
      BY <2>2, <1>2, <1>4
    <2>5. QED
      BY <2>1, <2>3, <2>4 DEF NoGap
  <1>10. (NoLostWakeup /\ NeverSuperseded)'
    <2>1. pc'[o] = "notifying"
      BY <1>2
    <2>2. QED
      BY <1>2, <2>1 DEF NoLostWakeup, NeverSuperseded
  <1>11. QED
    BY <1>5, <1>6, <1>7, <1>8, <1>9, <1>10

LEMMA NotifyIInv == ASSUME IInv, NEW o \in Ops, Notify(o) PROVE IInv'
  <1> USE DEF IInv, Notify, TypeOK, Places
  <1>1. TypeOK'
    OBVIOUS
  <1>2. (TicketsUnique /\ TurnInRange /\ HolderHasTurn /\ SeenInPast)'
    BY DEF TicketsUnique, TurnInRange, HolderHasTurn, SeenInPast
  <1>3. NoGap'
    <2>1. Live' = Live
      BY DEF Live
    <2>2. QED
      BY <2>1 DEF NoGap
  <1>4. (NoLostWakeup /\ NeverSuperseded)'
    <2>1. \A p \in Ops : seen'[p] < epoch'
      BY DEF SeenInPast
    <2>2. QED
      BY <2>1 DEF NoLostWakeup, NeverSuperseded
  <1>5. QED
    BY <1>1, <1>2, <1>3, <1>4

LEMMA StutterIInv == ASSUME IInv, UNCHANGED vars PROVE IInv'
  BY DEF IInv, vars, TypeOK, TicketsUnique, TurnInRange, HolderHasTurn, NoGap,
         Live, SeenInPast, NoLostWakeup, NeverSuperseded

\* The inductive invariant holds in every reachable state.
THEOREM CoordinatorInvariant == Spec => []IInv
  <1>1. IInv /\ [Next]_vars => IInv'
    <2> SUFFICES ASSUME IInv, [Next]_vars PROVE IInv'
      OBVIOUS
    <2>1. CASE \E o \in Ops : Reserve(o)
      BY <2>1, ReserveIInv
    <2>2. CASE \E o \in Ops : Arm(o)
      BY <2>2, ArmIInv
    <2>3. CASE \E o \in Ops : CheckTurn(o)
      BY <2>3, CheckTurnIInv
    <2>4. CASE \E o \in Ops : DropReservation(o)
      BY <2>4, DropReservationIInv
    <2>5. CASE \E o \in Ops : DropGuard(o)
      BY <2>5, DropGuardIInv
    <2>6. CASE \E o \in Ops : Notify(o)
      BY <2>6, NotifyIInv
    <2>7. CASE UNCHANGED vars
      BY <2>7, StutterIInv
    <2>8. QED
      BY <2>1, <2>2, <2>3, <2>4, <2>5, <2>6, <2>7 DEF Next, AllDone
  <1>2. QED
    BY <1>1, InitIInv, PTL DEF Spec

\* Type correctness of the coordinator for any number of operations.
THEOREM CoordinatorTypeCorrect == Spec => []TypeOK
  BY CoordinatorInvariant, PTL DEF IInv

\* No two document operations ever run together, and no reachable state has a
\* hole in front of a waiting operation, a sleeper whose wake-up was lost, or
\* an overtaken operation (wait_turn and the two Drops of store.rs).
THEOREM TurnsAreNeverLost == Spec => []TurnsAreKept
  <1>1. IInv => ExclusiveTurn
    BY DEF IInv, TypeOK, HolderHasTurn, TicketsUnique, ExclusiveTurn
  <1>2. IInv => NoGap /\ NeverSuperseded /\ NoLostWakeup
    BY DEF IInv
  <1>3. QED
    BY <1>1, <1>2, CoordinatorInvariant, PTL DEF TurnsAreKept

-----------------------------------------------------------------------------
\* The refinement: the stages and the precedence that the tickets encode.
absStage == [o \in Ops |-> StageOf(pc[o])]
absAhead == [o \in Ops |-> Before(o)]

LEMMA StageMoves ==
    ASSUME TypeOK, NEW o \in Ops, NEW place \in Places,
           pc' = [pc EXCEPT ![o] = place]
    PROVE  absStage' = [absStage EXCEPT ![o] = StageOf(place)]
  BY DEF TypeOK, absStage

LEMMA StageStays ==
    ASSUME TypeOK, NEW o \in Ops, NEW place \in Places,
           pc' = [pc EXCEPT ![o] = place], StageOf(place) = StageOf(pc[o])
    PROVE  absStage' = absStage
  BY DEF TypeOK, absStage

LEMMA AheadStays == ASSUME ticket' = ticket PROVE absAhead' = absAhead
  BY DEF absAhead, Before

LEMMA InitRefines == Init => Abstract!OOInit
  <1> SUFFICES ASSUME Init PROVE Abstract!OOInit
    OBVIOUS
  <1>1. \A o \in Ops : StageOf(pc[o]) = "idle" /\ Before(o) = {}
    BY DEF Init, StageOf, Before
  <1>2. QED
    BY <1>1 DEF Abstract!OOInit

\* A reservation enters the queue behind every operation that has a ticket.
LEMMA ReserveRefines ==
    ASSUME IInv, NEW o \in Ops, Reserve(o) PROVE Abstract!OOReserve(o)
  <1> USE DEF IInv, TypeOK, Places
  <1>1. pc[o] = "idle" /\ pc' = [pc EXCEPT ![o] = "reserved"]
    BY DEF Reserve
  <1>2. absStage[o] = "idle" /\ absStage' = [absStage EXCEPT ![o] = "queued"]
    <2>1. StageOf("reserved") = "queued" /\ StageOf("idle") = "idle"
      BY DEF StageOf
    <2>2. QED
      BY <1>1, <2>1, StageMoves DEF absStage
  <1>3. \A p \in Ops : absStage[p] # "idle" <=> ticket[p] > 0
    BY DEF absStage, StageOf, TicketsUnique
  <1>4. ticket' = [ticket EXCEPT ![o] = next_sequence + 1]
    BY DEF Reserve
  <1>5. Before(o)' = {p \in Ops : absStage[p] # "idle"}
    BY <1>1, <1>3, <1>4 DEF Before, TicketsUnique
  <1>6. \A q \in Ops : q # o => Before(q)' = Before(q)
    BY <1>1, <1>4 DEF Before, TicketsUnique
  <1>7. absAhead' = [absAhead EXCEPT ![o] = {p \in Ops : absStage[p] # "idle"}]
    BY <1>5, <1>6 DEF absAhead
  <1>8. QED
    BY <1>2, <1>7 DEF Abstract!OOReserve, absStage, absAhead

\* A claimed turn starts an operation whose predecessors have all ended.
LEMMA CheckTurnRefines ==
    ASSUME IInv, NEW o \in Ops, CheckTurn(o)
    PROVE  Abstract!OOBegin(o) \/ UNCHANGED <<absStage, absAhead>>
  <1> USE DEF IInv, TypeOK, Places
  <1>1. pc[o] = "armed" /\ ticket[o] >= next_to_run /\ ticket' = ticket
    BY DEF CheckTurn, NoGap, Live
  <1>2. absAhead' = absAhead
    BY <1>1, AheadStays
  <1>3. CASE ticket[o] = next_to_run /\ ~running
    <2>1. pc' = [pc EXCEPT ![o] = "running"]
      <3>1. ~(ticket[o] < next_to_run)
        BY <1>1
      <3>2. QED
        BY <3>1, <1>3, Zenon DEF CheckTurn
    <2>2. absStage[o] = "queued" /\ absStage' = [absStage EXCEPT ![o] = "running"]
      <3>1. StageOf("armed") = "queued" /\ StageOf("running") = "running"
        BY DEF StageOf
      <3>2. QED
        BY <1>1, <2>1, <3>1, StageMoves DEF absStage
    <2>3. \A p \in Before(o) : p \notin Live /\ pc[p] # "idle"
      BY <1>3 DEF Before, NoGap, TicketsUnique
    <2>4. \A p \in absAhead[o] : absStage[p] = "gone"
      BY <2>3 DEF absAhead, absStage, StageOf, Before, Live
    <2>5. QED
      BY <1>2, <2>2, <2>4 DEF Abstract!OOBegin, absStage, absAhead
  <1>4. CASE ~(ticket[o] = next_to_run /\ ~running)
    <2>1. pc' = [pc EXCEPT ![o] = "waiting"]
      <3>1. ~(ticket[o] < next_to_run)
        BY <1>1
      <3>2. QED
        BY <3>1, <1>4, Zenon DEF CheckTurn
    <2>2. StageOf("waiting") = StageOf(pc[o])
      BY <1>1 DEF StageOf
    <2>3. QED
      BY <1>2, <2>1, <2>2, StageStays
  <1>5. QED
    BY <1>3, <1>4

\* Both Drops end the operation, whatever it was doing.
LEMMA DropRefines ==
    ASSUME IInv, NEW o \in Ops, DropReservation(o) \/ DropGuard(o)
    PROVE  Abstract!OOLeave(o)
  <1> USE DEF IInv, TypeOK, Places
  <1>1. /\ pc[o] \in {"reserved", "waiting", "running"} /\ ticket' = ticket
        /\ pc' = [pc EXCEPT ![o] = "notifying"]
    BY DEF DropReservation, DropGuard
  <1>2. absStage[o] \in {"queued", "running"}
    BY <1>1 DEF absStage, StageOf
  <1>3. absStage' = [absStage EXCEPT ![o] = "gone"]
    <2>1. StageOf("notifying") = "gone"
      BY DEF StageOf
    <2>2. QED
      BY <1>1, <2>1, StageMoves
  <1>4. QED
    BY <1>1, <1>2, <1>3, AheadStays DEF Abstract!OOLeave, absStage, absAhead

\* Creating a Notified future and notifying are invisible to the users.
LEMMA ArmNotifyStutter ==
    ASSUME IInv, NEW o \in Ops, Arm(o) \/ Notify(o)
    PROVE  UNCHANGED <<absStage, absAhead>>
  <1> USE DEF IInv, TypeOK, Places
  <1>1. PICK place \in {"armed", "done"} :
            /\ pc' = [pc EXCEPT ![o] = place] /\ ticket' = ticket
            /\ StageOf(place) = StageOf(pc[o])
    BY DEF Arm, Notify, StageOf
  <1>2. QED
    BY <1>1, StageStays, AheadStays

\* Every behaviour of the coordinator is a behaviour of the ordered queue of
\* operations: reservation order is execution order, one at a time.
THEOREM CoordinatorKeepsOrder == Spec => Abstract!OOSafety
  <1>1. IInv /\ [Next]_vars => [Abstract!OONext]_(Abstract!absVars)
    <2> SUFFICES ASSUME IInv, [Next]_vars
                 PROVE  Abstract!OONext \/ UNCHANGED <<absStage, absAhead>>
      BY DEF Abstract!absVars, absStage, absAhead
    <2>1. CASE \E o \in Ops : Reserve(o)
      BY <2>1, ReserveRefines DEF Abstract!OONext
    <2>2. CASE \E o \in Ops : Arm(o) \/ Notify(o)
      BY <2>2, ArmNotifyStutter
    <2>3. CASE \E o \in Ops : CheckTurn(o)
      BY <2>3, CheckTurnRefines DEF Abstract!OONext
    <2>4. CASE \E o \in Ops : DropReservation(o) \/ DropGuard(o)
      BY <2>4, DropRefines DEF Abstract!OONext
    <2>5. CASE UNCHANGED vars
      BY <2>5 DEF vars, absStage, absAhead, Before
    <2>6. QED
      BY <2>1, <2>2, <2>3, <2>4, <2>5 DEF Next, AllDone
  <1>2. QED
    BY <1>1, InitRefines, CoordinatorInvariant, PTL DEF Spec, Abstract!OOSafety
=============================================================================
