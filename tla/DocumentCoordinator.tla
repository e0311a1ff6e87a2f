------------------------ MODULE DocumentCoordinator ------------------------
(***************************************************************************)
(* SessionDocumentCoordinator (lunamate-agent, store.rs): a ticket lock    *)
(* shared by every operation on a session document.  A ticket is taken     *)
(* with one atomic fetch_add; waiting, claiming and releasing go through a *)
(* mutex-protected state; sleepers are woken by Notify::notify_waiters,    *)
(* which wakes the Notified futures that already exist and leaves no       *)
(* permit behind.  A future may be dropped whenever it is suspended.       *)
(*                                                                         *)
(* One step is one critical section of the mutex, or one atomic operation  *)
(* outside it.                                                             *)
(***************************************************************************)
EXTENDS Naturals, FiniteSets

CONSTANTS Ops        \* the tasks that each make one reservation

VARIABLES
    next_sequence,   \* AtomicU64: the last ticket handed out
    next_to_run,     \* the ticket whose turn it is
    running,         \* the owner of next_to_run has claimed its turn
    cancelled,       \* tickets dropped before their turn
    epoch,           \* how often notify_waiters was called
    pc,              \* where each task is
    ticket,          \* SessionOperationReservation::sequence, 0 before reserve
    seen             \* epoch at which the task created its Notified future

vars == <<next_sequence, next_to_run, running, cancelled, epoch, pc, ticket, seen>>

Places == {"idle",       \* has not reserved
           "reserved",   \* holds a reservation, wait_turn not polled yet
           "armed",      \* created its Notified future, about to lock the state
           "waiting",    \* suspended in notified.await
           "running",    \* holds a SessionOperationGuard
           "notifying",  \* released the mutex in a Drop, about to notify
           "superseded", \* wait_turn returned None
           "done"}

\* Tickets still held by a task that has not ended.
Live == {o \in Ops : pc[o] \in {"reserved", "armed", "waiting", "running"}}

TypeOK ==
    /\ next_sequence \in Nat
    /\ next_to_run \in Nat \ {0}
    /\ running \in BOOLEAN
    /\ cancelled \in SUBSET Nat
    /\ epoch \in Nat
    /\ pc \in [Ops -> Places]
    /\ ticket \in [Ops -> Nat]
    /\ seen \in [Ops -> Nat]

Init ==
    /\ next_sequence = 0
    /\ next_to_run = 1
    /\ running = FALSE
    /\ cancelled = {}
    /\ epoch = 0
    /\ pc = [o \in Ops |-> "idle"]
    /\ ticket = [o \in Ops |-> 0]
    /\ seen = [o \in Ops |-> 0]

\* skip_cancelled, entered with next_to_run = from and the cancelled set c:
\* the turn moves past every consecutive cancelled ticket and forgets them.
SkipCancelled(from, c) ==
    \E n \in from .. (next_sequence + 1) :
        /\ n \notin c
        /\ \A m \in from .. (n - 1) : m \in c
        /\ next_to_run' = n
        /\ cancelled' = c \ (from .. (n - 1))

-----------------------------------------------------------------------------
\* SessionDocumentCoordinator::reserve: fetch_add, without the mutex.
Reserve(o) ==
    /\ pc[o] = "idle"
    /\ next_sequence' = next_sequence + 1
    /\ ticket' = [ticket EXCEPT ![o] = next_sequence + 1]
    /\ pc' = [pc EXCEPT ![o] = "reserved"]
    /\ UNCHANGED <<next_to_run, running, cancelled, epoch, seen>>

\* wait_turn, first poll or wake-up: a fresh Notified future, created before
\* the mutex is taken.
Arm(o) ==
    /\ \/ pc[o] = "reserved"
       \/ pc[o] = "waiting" /\ epoch > seen[o]
    /\ seen' = [seen EXCEPT ![o] = epoch]
    /\ pc' = [pc EXCEPT ![o] = "armed"]
    /\ UNCHANGED <<next_sequence, next_to_run, running, cancelled, epoch, ticket>>

\* Variant: whoever finds the state idle claims it, whatever its ticket.
CheckTurnAnyOrder(o) ==
    /\ pc[o] = "armed"
    /\ running' = TRUE
    /\ pc' = [pc EXCEPT ![o] = IF running THEN "waiting" ELSE "running"]
    /\ UNCHANGED <<next_sequence, next_to_run, cancelled, epoch, ticket, seen>>

\* wait_turn, the critical section.  A superseded task drops its reservation,
\* whose Drop changes nothing but notifies.
CheckTurn(o) ==
    LET mine == ticket[o] = next_to_run /\ ~running IN
    /\ pc[o] = "armed"
    /\ running' = (mine \/ running)
    /\ pc' = [pc EXCEPT ![o] = IF ticket[o] < next_to_run THEN "superseded"
                               ELSE IF mine THEN "running" ELSE "waiting"]
    /\ UNCHANGED <<next_sequence, next_to_run, cancelled, epoch, ticket, seen>>

\* Variant: Drop without its notify_waiters.
DropReservationSilently(o) ==
    /\ pc[o] \in {"reserved", "waiting"}
    /\ pc' = [pc EXCEPT ![o] = "done"]
    /\ IF running
       THEN cancelled' = cancelled \cup {ticket[o]} /\ UNCHANGED next_to_run
       ELSE SkipCancelled(next_to_run, cancelled \cup {ticket[o]})
    /\ UNCHANGED <<next_sequence, running, epoch, ticket, seen>>

\* Drop of an unclaimed reservation, up to the release of the mutex.
DropReservation(o) ==
    /\ pc[o] \in {"reserved", "waiting"}
    /\ pc' = [pc EXCEPT ![o] = "notifying"]
    /\ IF ticket[o] < next_to_run
       THEN UNCHANGED <<next_to_run, cancelled>>
       ELSE IF running
       THEN cancelled' = cancelled \cup {ticket[o]} /\ UNCHANGED next_to_run
       ELSE SkipCancelled(next_to_run, cancelled \cup {ticket[o]})
    /\ UNCHANGED <<next_sequence, running, epoch, ticket, seen>>

\* Variant: DropGuard without skip_cancelled.
DropGuardWithoutSkip(o) ==
    /\ pc[o] = "running"
    /\ running' = FALSE
    /\ next_to_run' = next_to_run + 1
    /\ pc' = [pc EXCEPT ![o] = "notifying"]
    /\ UNCHANGED <<next_sequence, cancelled, epoch, ticket, seen>>

\* Drop of the guard, up to the release of the mutex: the operation completed,
\* failed, or its future was dropped in the middle of the host callback.
DropGuard(o) ==
    /\ pc[o] = "running"
    /\ running' = FALSE
    /\ SkipCancelled(next_to_run + 1, cancelled)
    /\ pc' = [pc EXCEPT ![o] = "notifying"]
    /\ UNCHANGED <<next_sequence, epoch, ticket, seen>>

\* notify_waiters, called by both Drops after the mutex is released.
Notify(o) ==
    /\ pc[o] \in {"notifying", "superseded"}
    /\ epoch' = epoch + 1
    /\ pc' = [pc EXCEPT ![o] = "done"]
    /\ UNCHANGED <<next_sequence, next_to_run, running, cancelled, ticket, seen>>

AllDone == (\A o \in Ops : pc[o] = "done") /\ UNCHANGED vars

Next ==
    \/ \E o \in Ops : \/ Reserve(o) \/ Arm(o) \/ CheckTurn(o)
                      \/ DropReservation(o) \/ DropGuard(o) \/ Notify(o)
    \/ AllDone

\* A task that reserved is driven by the tokio runtime until it ends, and a
\* host callback returns; nobody is obliged to reserve or to drop a waiter.
Fairness ==
    \A o \in Ops : /\ WF_vars(Arm(o)) /\ WF_vars(CheckTurn(o))
                   /\ WF_vars(DropGuard(o)) /\ WF_vars(Notify(o))

Spec == Init /\ [][Next]_vars
FairSpec == Spec /\ Fairness

-----------------------------------------------------------------------------
\* Two operations never hold the guard together, and `running` tells the truth.
ExclusiveTurn ==
    /\ running <=> \E o \in Ops : pc[o] = "running"
    /\ \A o, p \in Ops : pc[o] = "running" /\ pc[p] = "running" => o = p

\* Every ticket from the turn to the last one handed out is held by a live
\* task or marked cancelled, no ticket below the turn is held, and the turn
\* does not rest on a cancelled ticket: a hole or a skipped skip_cancelled
\* would block every later operation for good.
NoGap ==
    /\ \A n \in next_to_run .. next_sequence :
          n \in cancelled \/ \E o \in Live : ticket[o] = n
    /\ \A o \in Live : ticket[o] >= next_to_run
    /\ \A o \in Live : ticket[o] \notin cancelled
    /\ next_to_run \notin cancelled

\* A document operation that reserved is never told that it was overtaken:
\* save_reserved answers a None turn with Ok(()), which would lose the save.
NeverSuperseded == \A o \in Ops : pc[o] # "superseded"

\* A sleeper that the turn already belongs to will be woken: its wake-up has
\* happened or somebody is about to notify (no lost wake-up).
NoLostWakeup ==
    \A o \in Ops :
        pc[o] = "waiting" /\ ticket[o] = next_to_run /\ ~running =>
            epoch > seen[o] \/ \E p \in Ops : pc[p] = "notifying"

\* The turns are given exclusively, to whom they belong, and none is lost.
TurnsAreKept == ExclusiveTurn /\ NoGap /\ NeverSuperseded /\ NoLostWakeup

\* Each reserved operation eventually runs or is dropped by its owner.
NobodyStarves == \A o \in Ops : pc[o] = "reserved" ~> pc[o] \in {"running", "done"}

\* The coordinator keeps the order and the exclusion that its users rely on.
StageOf(place) ==
    CASE place = "idle" -> "idle"
      [] place \in {"reserved", "armed", "waiting"} -> "queued"
      [] place = "running" -> "running"
      [] OTHER -> "gone"

Before(o) == {p \in Ops : 0 < ticket[p] /\ ticket[p] < ticket[o]}

Abstract == INSTANCE OrderedOperations WITH
    stage <- [o \in Ops |-> StageOf(pc[o])],
    ahead <- [o \in Ops |-> Before(o)]

ImplementsOrder == Abstract!OOSpec
=============================================================================
