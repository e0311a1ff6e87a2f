------------------------- MODULE OrderedOperations -------------------------
(***************************************************************************)
(* What the session-document coordinator of lunamate-agent promises to its *)
(* callers (store.rs): operations on session documents run one at a time,  *)
(* in the order in which they were reserved; an operation dropped before   *)
(* it ran gives up its place, and everybody else still gets a turn.        *)
(* DocumentCoordinator.tla implements this with tickets, a lock and a      *)
(* notification; AgentCore.tla is built on this specification.             *)
(***************************************************************************)
CONSTANTS Ops        \* the document operations

VARIABLES stage,     \* stage[o]: where operation o is in its life
          ahead      \* ahead[o]: the operations reserved before o

absVars == <<stage, ahead>>

OOInit ==
    /\ stage = [o \in Ops |-> "idle"]
    /\ ahead = [o \in Ops |-> {}]

\* o takes its place behind everything reserved so far.
OOReserve(o) ==
    /\ stage[o] = "idle"
    /\ stage' = [stage EXCEPT ![o] = "queued"]
    /\ ahead' = [ahead EXCEPT ![o] = {p \in Ops : stage[p] # "idle"}]

\* o starts once every operation reserved before it has ended.
OOBegin(o) ==
    /\ stage[o] = "queued"
    /\ \A p \in ahead[o] : stage[p] = "gone"
    /\ stage' = [stage EXCEPT ![o] = "running"]
    /\ UNCHANGED ahead

\* o ends: it was dropped in the queue, or it finished, failed or was
\* dropped while it was running.
OOLeave(o) ==
    /\ stage[o] \in {"queued", "running"}
    /\ stage' = [stage EXCEPT ![o] = "gone"]
    /\ UNCHANGED ahead

OONext == \E o \in Ops : OOReserve(o) \/ OOBegin(o) \/ OOLeave(o)

OOSafety == OOInit /\ [][OONext]_absVars

\* A reserved operation is never blocked for good by operations that do end.
OOSpec ==
    /\ OOSafety
    /\ \A o \in Ops : WF_absVars(OOBegin(o)) /\ WF_absVars(stage[o] = "running" /\ OOLeave(o))
=============================================================================
