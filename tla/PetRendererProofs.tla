------------------------- MODULE PetRendererProofs -------------------------
(***************************************************************************)
(* The safety properties of the pet window and its GPU worker, proved for  *)
(* every capacity of the event channel and any number of loads, hidings    *)
(* and failures.                                                           *)
(*                                                                         *)
(* The invariant says of every component what the others may rely on; its  *)
(* parts take the components as parameters (v the window, w the worker, m  *)
(* the mailbox, c the channel, s the slot, t the CPU task), for one action *)
(* of the window goes through several helpers that each change a few.      *)
(***************************************************************************)
EXTENDS PetRenderer, SequenceTheorems, TLAPS

EventTypes == {"ModelLoaded", "ModelLoadFailed", "ModelGpuFailed", "FrameAvailable", "Unavailable"}
Events == [type : EventTypes, gen : Nat]
WorkerPlaces == {"first", "init", "top", "load", "frame", "send", "loop", "draw", "blank",
                 "publish", "notify", "undo", "idle", "done"}
TaskPlaces == {"none", "load", "check", "wait", "hidden", "render", "ended"}

Views == [generation : Nat, model : BOOLEAN, state : {"none", "loading", "ready", "failed"},
          frame : Nat, cancelled : BOOLEAN, input : BOOLEAN, visible : BOOLEAN,
          underlay : BOOLEAN, listening : BOOLEAN, pending : BOOLEAN, stopped : LoadRequests,
          restart : BOOLEAN, released : BOOLEAN, restore : BOOLEAN, closing : BOOLEAN,
          gone : BOOLEAN, quit : {"no", "waits", "late", "over"}]
Workers == [pc : WorkerPlaces, gen : Nat, model : BOOLEAN, woken : BOOLEAN, render : BOOLEAN,
            continuous : BOOLEAN, event : EventTypes \cup {"none"},
            after : {"none", "done", "idle", "loop"}]
Mailboxes == [load : LoadRequests, wake : BOOLEAN, shutdown : BOOLEAN]
Channels == [events : Seq(Events), closed : BOOLEAN]
Slots == [gen : Nat, frame : BOOLEAN, notified : BOOLEAN]
Tasks == [pc : TaskPlaces, wake : BOOLEAN, rate : BOOLEAN, needs : BOOLEAN,
          toggled : BOOLEAN, closed : BOOLEAN]

Typed(v, w, m, c, s, t) ==
    /\ v \in Views /\ w \in Workers /\ m \in Mailboxes
    /\ c \in Channels /\ s \in Slots /\ t \in Tasks
    /\ Len(c.events) <= Capacity

Running(v) == ~v.gone /\ v.quit = "no"

\* The worker has announced the model of its load, and draws it.
Drawing == {"loop", "draw", "publish", "notify", "undo"}

FailureTypes == {"ModelLoadFailed", "ModelGpuFailed"}
NewsTypes == {"ModelLoaded", "FrameAvailable"}

\* An event of one of the types for a generation is in the channel.
Told(c, types, gen) ==
    \E i \in 1..Len(c.events) : c.events[i].type \in types /\ c.events[i].gen = gen

-----------------------------------------------------------------------------
(* Who has the surface.  While the window has an underlay, its worker is   *)
(* not asked to stop and there is no task of the CPU; without one, the     *)
(* worker has ended or its channel is closed.                              *)

Surface(v, w, m, c, t) ==
    /\ v.underlay => /\ ~v.pending /\ v.listening /\ ~v.cancelled /\ ~v.released
                     /\ ~v.closing /\ ~v.gone /\ v.quit = "no"
                     /\ ~m.shutdown /\ ~c.closed /\ t.pc = "none"
    /\ ~v.underlay => /\ c.events = <<>> /\ m.load = NoLoad
                      /\ w.pc = "done" \/ c.closed
                      /\ v.pending \/ v.quit # "no" \/ w.pc = "done"
    /\ (v.gone \/ v.quit = "over") => w.pc = "done"
    /\ (Running(v) /\ v.listening) => v.underlay
    /\ v.closing => v.gone \/ v.pending
    /\ v.restore => v.released

\* The worker knows the current generation, or finds it in the mailbox.
Generations(v, w, m, c) ==
    /\ w.gen <= v.generation
    /\ m.load # NoLoad => /\ m.load.gen = v.generation /\ w.gen # v.generation
                          /\ m.load.model = v.model
    /\ v.underlay => m.load # NoLoad \/ w.gen = v.generation \/ w.pc = "done"
    /\ \A i \in 1..Len(c.events) : c.events[i].gen <= v.generation

\* What the worker is about to send, and where it goes on.
Sending(w) ==
    /\ w.pc = "send" => \/ w.event = "Unavailable" /\ w.after = "done"
                        \/ w.event \in FailureTypes /\ w.after = "idle"
                        \/ w.event = "ModelLoaded" /\ w.after = "loop"
    /\ w.woken => w.pc \in {"first", "idle"}
    /\ w.pc = "first" => w.gen = 0

\* The model of a load: there is something to draw only when it has one.
Models(v, w, c) ==
    /\ ~v.model => v.state = "none"
    /\ v.generation = 0 => ~v.model
    /\ (v.underlay /\ w.gen = v.generation) =>
           /\ w.pc \in {"init", "top"} => w.model = v.model
           /\ w.pc \in Drawing \cup {"load", "frame", "blank"} => v.model
           /\ (w.pc = "send" /\ w.event # "Unavailable") => v.model
    /\ Told(c, EventTypes \ {"Unavailable"}, v.generation) => v.model

\* What the channel says of the current generation, and when.
Announcements(v, w, c) ==
    /\ (Told(c, EventTypes \ {"Unavailable"}, v.generation) /\ w.pc # "done") =>
           w.gen = v.generation /\ w.pc \in Drawing \cup {"blank", "idle", "send"}
    /\ Told(c, {"ModelLoadFailed"}, v.generation) => w.pc \in {"idle", "done"}
    /\ (v.underlay /\ w.gen = v.generation /\ w.pc \in Drawing \cup {"blank"}) =>
           v.state = "ready" \/ Told(c, {"ModelLoaded"}, v.generation)
    /\ (v.underlay /\ w.gen = v.generation /\ w.pc = "idle" /\ v.model) =>
           IF c.events = <<>> THEN v.state = "failed"
           ELSE /\ c.events[Len(c.events)].type \in FailureTypes
                /\ c.events[Len(c.events)].gen = v.generation

\* The newest frame: what is in the slot is or will be announced.
Frames(v, w, c, s) ==
    /\ v.frame # 0 => v.frame = v.generation /\ v.visible
    /\ (w.pc \in Drawing /\ c.events # <<>>) =>
           /\ c.events[Len(c.events)].type \in NewsTypes
           /\ c.events[Len(c.events)].gen = w.gen
    /\ (w.pc \in {"notify", "undo"} /\ (s.frame \/ s.notified)) => s.gen = w.gen
    /\ (v.underlay /\ s.gen = v.generation /\ s.frame) =>
           w.pc \in {"notify", "done"} \/ Told(c, NewsTypes, v.generation)
    /\ (v.underlay /\ s.gen = v.generation /\ s.notified) =>
           w.pc \in {"notify", "undo", "done"} \/ Told(c, NewsTypes, v.generation)

\* Input that no renderer has seen yet has left it a reason to draw.
Inputs(v, w, m, t) ==
    /\ (v.input /\ v.underlay /\ w.pc # "done") =>
           \/ m.wake
           \/ w.woken /\ m.load = NoLoad
           \/ w.pc = "draw" /\ w.gen = v.generation
    /\ (v.input /\ ~v.underlay /\ t.pc \notin {"none", "ended"} /\ ~t.closed) =>
           t.wake \/ (t.needs /\ t.pc \notin {"load", "render"})
    /\ (t.pc = "hidden" /\ v.visible) => t.rate \/ t.closed

\* The task of the CPU, and what is to be done when the worker has stopped.
Fallback(v, t) ==
    /\ t.pc # "none" => v.model
    /\ t.closed => v.closing \/ v.quit # "no"
    /\ (Running(v) /\ ~v.closing) =>
           /\ t.pc \notin {"none", "ended"} => ~v.cancelled
           /\ t.pc = "ended" => v.state = "failed"
           /\ (~v.underlay /\ v.state \in {"loading", "ready"} /\ t.pc = "none") =>
                  /\ v.pending
                  /\ v.stopped.gen = v.generation /\ v.stopped.model
                  /\ v.restart \/ (v.restore /\ v.visible)

\* Everything but the types.
Rules(v, w, m, c, s, t) ==
    /\ Surface(v, w, m, c, t)
    /\ Generations(v, w, m, c)
    /\ Sending(w)
    /\ Models(v, w, c)
    /\ Announcements(v, w, c)
    /\ Frames(v, w, c, s)
    /\ Inputs(v, w, m, t)
    /\ Fallback(v, t)

Good(v, w, m, c, s, t) == Typed(v, w, m, c, s, t) /\ Rules(v, w, m, c, s, t)

IInv == Good(view, worker, mailbox, channel, slot, cpu)

-----------------------------------------------------------------------------
(* Records.                                                                *)

LEMMA ViewFields ==
    ASSUME NEW v \in Views
    PROVE  /\ v.generation \in Nat /\ v.frame \in Nat /\ v.stopped \in LoadRequests
           /\ v.state \in {"none", "loading", "ready", "failed"}
           /\ v.quit \in {"no", "waits", "late", "over"}
           /\ v.model \in BOOLEAN /\ v.cancelled \in BOOLEAN /\ v.input \in BOOLEAN
           /\ v.visible \in BOOLEAN /\ v.underlay \in BOOLEAN /\ v.listening \in BOOLEAN
           /\ v.pending \in BOOLEAN /\ v.restart \in BOOLEAN /\ v.released \in BOOLEAN
           /\ v.restore \in BOOLEAN /\ v.closing \in BOOLEAN /\ v.gone \in BOOLEAN
  BY DEF Views

LEMMA WorkerFields ==
    ASSUME NEW w \in Workers
    PROVE  /\ w.pc \in WorkerPlaces /\ w.gen \in Nat
           /\ w.event \in EventTypes \cup {"none"} /\ w.after \in {"none", "done", "idle", "loop"}
           /\ w.model \in BOOLEAN /\ w.woken \in BOOLEAN /\ w.render \in BOOLEAN
           /\ w.continuous \in BOOLEAN
  BY DEF Workers

LEMMA NewWorkerIs ==
    /\ NewWorker \in Workers
    /\ NewWorker.pc = "first" /\ NewWorker.gen = 0 /\ ~NewWorker.model /\ ~NewWorker.woken
    /\ ~NewWorker.render /\ ~NewWorker.continuous
    /\ NewWorker.event = "none" /\ NewWorker.after = "none"
  BY DEF NewWorker, Workers, WorkerPlaces, EventTypes

\* Where a worker that gives its load up, or goes on with it, arrives.
LEMMA GoesTo ==
    ASSUME NEW pc \in WorkerPlaces, worker \in Workers, GoTo(pc)
    PROVE  /\ worker' \in Workers /\ worker'.pc = pc
           /\ pc # "done" => worker'.gen = worker.gen
           /\ pc = "done" => worker'.gen = 0
           /\ pc \in {"done", "idle"} => ~worker'.woken
           /\ pc \notin {"done", "idle"} =>
                  /\ worker'.model = worker.model /\ worker'.woken = worker.woken
                  /\ worker'.render = worker.render /\ worker'.continuous = worker.continuous
                  /\ worker'.event = worker.event /\ worker'.after = worker.after
<1>1. CASE pc = "done"
  <2>1. worker' = [NewWorker EXCEPT !.pc = pc]
    BY <1>1 DEF GoTo
  <2> QED
    BY <1>1, <2>1, NewWorkerIs DEF Workers
<1>2. CASE pc = "idle"
  <2>1. worker' = [NewWorker EXCEPT !.pc = pc, !.gen = worker.gen]
    BY <1>2 DEF GoTo
  <2>2. worker.gen \in Nat
    BY DEF Workers
  <2> QED
    BY <1>2, <2>1, <2>2, NewWorkerIs DEF Workers
<1>3. CASE pc \notin {"done", "idle"}
  <2>1. worker' = [worker EXCEPT !.pc = pc]
    BY <1>3 DEF GoTo
  <2> QED
    BY <1>3, <2>1 DEF Workers
<1> QED
  BY <1>1, <1>2, <1>3

LEMMA SendsIt ==
    ASSUME NEW type \in EventTypes, NEW after \in {"done", "idle", "loop"},
           worker \in Workers, Sends(type, after)
    PROVE  /\ worker' \in Workers /\ worker'.pc = "send" /\ worker'.gen = worker.gen
           /\ worker'.event = type /\ worker'.after = after /\ ~worker'.woken
<1>1. worker' = [NewWorker EXCEPT !.pc = "send", !.gen = worker.gen, !.event = type, !.after = after]
  BY DEF Sends
<1>2. worker.gen \in Nat /\ "send" \in WorkerPlaces
  BY DEF Workers, WorkerPlaces
<1>3. after \in {"none", "done", "idle", "loop"} /\ type \in EventTypes \cup {"none"}
  OBVIOUS
<1> QED
  BY <1>1, <1>2, <1>3, NewWorkerIs DEF Workers

-----------------------------------------------------------------------------
(* The worker alone moves, under a view v.                                 *)

LEMMA WorkerMoves ==
    ASSUME NEW v, Good(v, worker, mailbox, channel, slot, cpu),
           worker.pc # "done", worker' \in Workers,
           worker'.gen = IF worker'.pc = "done" THEN 0 ELSE worker.gen,
           Sending(worker'), Models(v, worker', channel), Announcements(v, worker', channel),
           Frames(v, worker', channel, slot), Inputs(v, worker', mailbox, cpu)
    PROVE  Good(v, worker', mailbox, channel, slot, cpu)
<1>1. Typed(v, worker', mailbox, channel, slot, cpu)
  BY DEF Good, Typed
<1>2. Surface(v, worker', mailbox, channel, cpu)
  BY DEF Good, Rules, Surface
<1>3. Generations(v, worker', mailbox, channel)
  <2>1. worker.gen \in Nat /\ worker'.gen \in Nat /\ v.generation \in Nat /\ mailbox.load.gen \in Nat
    BY WorkerFields, ViewFields DEF Good, Typed, Mailboxes, LoadRequests
  <2>2. mailbox.load # NoLoad => v.generation # 0
    BY <2>1 DEF Good, Rules, Generations
  <2> QED
    BY <2>1, <2>2 DEF Good, Rules, Generations
<1> QED
  BY <1>1, <1>2, <1>3 DEF Good, Rules

CancelledIn(v, gen) == gen # v.generation \/ v.cancelled

\* What the worker may rely on: the current load is not cancelled while there
\* is an underlay, and without one the channel is empty.
LEMMA Standing ==
    ASSUME NEW v, Good(v, worker, mailbox, channel, slot, cpu)
    PROVE  /\ worker \in Workers /\ v \in Views
           /\ (v.underlay /\ CancelledIn(v, worker.gen)) => worker.gen # v.generation
           /\ ~v.underlay => channel.events = <<>>
           /\ \A types, gen : ~v.underlay => ~Told(channel, types, gen)
<1>1. worker \in Workers /\ v \in Views
  BY DEF Good, Typed
<1>2. (v.underlay /\ CancelledIn(v, worker.gen)) => worker.gen # v.generation
  BY DEF Good, Rules, Surface, CancelledIn
<1>3. ~v.underlay => channel.events = <<>>
  BY DEF Good, Rules, Surface
<1>4. ASSUME NEW types, NEW gen, ~v.underlay PROVE ~Told(channel, types, gen)
  <2>1. Len(channel.events) = 0
    BY <1>3, <1>4
  <2> QED
    BY <2>1 DEF Told
<1> QED
  BY <1>1, <1>2, <1>3, <1>4

\* The worker goes on with a load it has not announced, or gives a load up.
LEMMA GoesOn ==
    ASSUME NEW v, Good(v, worker, mailbox, channel, slot, cpu),
           NEW pc \in {"top", "load", "frame", "blank", "idle", "done"}, GoTo(pc),
           v.input => ~(worker.pc = "draw" /\ worker.gen = v.generation),
           pc = "top" => worker.pc = "init",
           pc = "load" => worker.pc = "top" /\ worker.model,
           pc = "frame" => worker.pc = "load",
           pc = "blank" => worker.pc = "draw",
           pc = "idle" => \/ worker.pc = "top" /\ ~worker.model
                          \/ /\ worker.pc \in {"load", "frame", "draw"}
                             /\ CancelledIn(v, worker.gen),
           worker.pc # "done"
    PROVE  Good(v, worker', mailbox, channel, slot, cpu)
<1>1. /\ worker' \in Workers /\ worker'.pc = pc
      /\ worker'.woken => worker.woken
      /\ pc # "done" => worker'.gen = worker.gen
      /\ pc = "done" => worker'.gen = 0
      /\ pc \notin {"done", "idle"} => worker'.model = worker.model
  <2>1. pc \in WorkerPlaces /\ worker \in Workers
    BY Standing DEF WorkerPlaces
  <2> QED
    BY <2>1, GoesTo
<1>2. ~worker'.woken
  <2>1. pc # "done" => ~worker.woken
    BY DEF Good, Rules, Sending
  <2>2. pc = "done" => ~worker'.woken
    BY Standing, GoesTo DEF WorkerPlaces
  <2> QED
    BY <1>1, <2>1, <2>2
<1>3. Sending(worker')
  BY <1>1, <1>2 DEF Sending
<1>4. Models(v, worker', channel)
  BY <1>1, Standing DEF Good, Rules, Models, Drawing
<1>5. Announcements(v, worker', channel)
  BY <1>1, Standing DEF Good, Rules, Announcements, Models, Drawing
<1>6. Frames(v, worker', channel, slot)
  BY <1>1 DEF Good, Rules, Frames, Drawing
<1>7. Inputs(v, worker', mailbox, cpu)
  <2>1. pc # "done" => ~worker.woken
    BY DEF Good, Rules, Sending
  <2> QED
    BY <1>1, <2>1 DEF Good, Rules, Inputs
<1> QED
  BY <1>1, <1>3, <1>4, <1>5, <1>6, <1>7, WorkerMoves DEF Good

\* The worker reports: that it is lost, that its load failed, or that the
\* model is loaded.
LEMMA Reports ==
    ASSUME NEW v, Good(v, worker, mailbox, channel, slot, cpu),
           NEW type \in EventTypes, NEW after \in {"done", "idle", "loop"}, Sends(type, after),
           v.input => ~(worker.pc = "draw" /\ worker.gen = v.generation),
           \/ /\ type = "Unavailable" /\ after = "done"
              /\ worker.pc \in {"init", "top", "frame", "loop", "draw", "blank"}
           \/ type = "ModelLoadFailed" /\ after = "idle" /\ worker.pc = "load"
           \/ type = "ModelGpuFailed" /\ after = "idle" /\ worker.pc \in {"load", "frame", "blank"}
           \/ type = "ModelLoaded" /\ after = "loop" /\ worker.pc = "frame"
    PROVE  Good(v, worker', mailbox, channel, slot, cpu)
<1>1. /\ worker' \in Workers /\ worker'.pc = "send" /\ worker'.gen = worker.gen
      /\ worker'.event = type /\ worker'.after = after /\ ~worker'.woken
  BY Standing, SendsIt
<1>2. Sending(worker')
  BY <1>1 DEF Sending, FailureTypes
<1>3. Models(v, worker', channel)
  BY <1>1, Standing DEF Good, Rules, Models, Drawing
<1>4. Announcements(v, worker', channel)
  BY <1>1, Standing DEF Good, Rules, Announcements, Models, Drawing
<1>5. Frames(v, worker', channel, slot)
  BY <1>1 DEF Good, Rules, Frames, Drawing
<1>6. Inputs(v, worker', mailbox, cpu)
  <2>1. ~worker.woken
    BY DEF Good, Rules, Sending
  <2> QED
    BY <1>1, <2>1 DEF Good, Rules, Inputs
<1> QED
  BY <1>1, <1>2, <1>3, <1>4, <1>5, <1>6, WorkerMoves

-----------------------------------------------------------------------------
(* The actions of the worker.                                              *)

LEMMA InitialisesKeeps ==
    ASSUME IInv, NEW ok \in BOOLEAN, WorkerInitialises(ok)
    PROVE  IInv'
<1>1. worker.pc = "init" /\ UNCHANGED <<view, mailbox, channel, slot, cpu>>
  BY DEF WorkerInitialises, At, OnlyWorker
<1>2. GoTo("top") \/ GoTo("done") \/ Sends("Unavailable", "done")
  BY DEF WorkerInitialises
<1>3. Good(view, worker', mailbox, channel, slot, cpu)
  BY <1>1, <1>2, GoesOn, Reports DEF IInv, EventTypes
<1> QED
  BY <1>1, <1>3 DEF IInv

LEMMA ClearsKeeps ==
    ASSUME IInv, NEW ok \in BOOLEAN, WorkerClears(ok)
    PROVE  IInv'
<1>1. worker.pc = "top" /\ UNCHANGED <<view, mailbox, channel, slot, cpu>>
  BY DEF WorkerClears, At, OnlyWorker
<1>2. \/ worker.model /\ GoTo("load")
      \/ ~worker.model /\ GoTo("idle")
      \/ Sends("Unavailable", "done")
  BY DEF WorkerClears
<1>3. Good(view, worker', mailbox, channel, slot, cpu)
  BY <1>1, <1>2, GoesOn, Reports DEF IInv, EventTypes
<1> QED
  BY <1>1, <1>3 DEF IInv

LEMMA LoadsKeeps ==
    ASSUME IInv, NEW outcome, WorkerLoads(outcome)
    PROVE  IInv'
<1>1. worker.pc = "load" /\ UNCHANGED <<view, mailbox, channel, slot, cpu>>
  BY DEF WorkerLoads, At, OnlyWorker
<1>2. \/ GoTo("frame")
      \/ CancelledIn(view, worker.gen) /\ GoTo("idle")
      \/ Sends("ModelLoadFailed", "idle") \/ Sends("ModelGpuFailed", "idle")
  BY DEF WorkerLoads, Cancelled, CancelledIn
<1>3. Good(view, worker', mailbox, channel, slot, cpu)
  BY <1>1, <1>2, GoesOn, Reports DEF IInv, EventTypes
<1> QED
  BY <1>1, <1>3 DEF IInv

LEMMA FirstFrameKeeps ==
    ASSUME IInv, NEW outcome, WorkerFirstFrame(outcome)
    PROVE  IInv'
<1>1. worker.pc = "frame" /\ UNCHANGED <<view, mailbox, channel, slot, cpu>>
  BY DEF WorkerFirstFrame, At, OnlyWorker
<1>2. \/ Sends("ModelLoaded", "loop")
      \/ CancelledIn(view, worker.gen) /\ GoTo("idle")
      \/ Sends("ModelGpuFailed", "idle") \/ Sends("Unavailable", "done")
  BY DEF WorkerFirstFrame, Cancelled, CancelledIn
<1>3. Good(view, worker', mailbox, channel, slot, cpu)
  BY <1>1, <1>2, GoesOn, Reports DEF IInv, EventTypes
<1> QED
  BY <1>1, <1>3 DEF IInv

LEMMA BlanksKeeps ==
    ASSUME IInv, WorkerBlanks
    PROVE  IInv'
<1>1. worker.pc = "blank" /\ UNCHANGED <<view, mailbox, channel, slot, cpu>>
  BY DEF WorkerBlanks, At, OnlyWorker
<1>2. Sends("ModelGpuFailed", "idle") \/ Sends("Unavailable", "done")
  BY DEF WorkerBlanks
<1>3. Good(view, worker', mailbox, channel, slot, cpu)
  BY <1>1, <1>2, Reports DEF IInv, EventTypes
<1> QED
  BY <1>1, <1>3 DEF IInv

\* Input of the current load is seen when the model is drawn.
LEMMA DrawsKeeps ==
    ASSUME IInv, NEW outcome, WorkerDraws(outcome)
    PROVE  IInv'
<1> DEFINE v == [view EXCEPT !.input = @ /\ worker.gen # view.generation]
<1>1. worker.pc = "draw" /\ view' = v /\ UNCHANGED <<mailbox, channel, slot, cpu>>
  BY DEF WorkerDraws, At
<1>2. /\ v \in Views
      /\ v.input => view.input /\ worker.gen # view.generation
      /\ v.generation = view.generation /\ v.model = view.model /\ v.state = view.state
      /\ v.frame = view.frame /\ v.cancelled = view.cancelled /\ v.visible = view.visible
      /\ v.underlay = view.underlay /\ v.listening = view.listening /\ v.pending = view.pending
      /\ v.stopped = view.stopped /\ v.restart = view.restart /\ v.released = view.released
      /\ v.restore = view.restore /\ v.closing = view.closing /\ v.gone = view.gone
      /\ v.quit = view.quit
  <2>1. view \in Views /\ (view.input /\ worker.gen # view.generation) \in BOOLEAN
    BY Standing DEF IInv
  <2> QED
    BY <2>1 DEF Views
<1>3. v.input \in BOOLEAN /\ v.generation \in Nat
  BY <1>2, ViewFields
<1> HIDE DEF v
<1>4. Good(v, worker, mailbox, channel, slot, cpu)
  <2>1. Typed(v, worker, mailbox, channel, slot, cpu)
    BY <1>2 DEF IInv, Good, Typed
  <2>2. Surface(v, worker, mailbox, channel, cpu) /\ Generations(v, worker, mailbox, channel)
    BY <1>2 DEF IInv, Good, Rules, Surface, Generations, Running
  <2>3. Models(v, worker, channel) /\ Announcements(v, worker, channel)
    BY <1>2 DEF IInv, Good, Rules, Models, Announcements
  <2>4. Frames(v, worker, channel, slot) /\ Inputs(v, worker, mailbox, cpu) /\ Fallback(v, cpu)
    BY <1>2 DEF IInv, Good, Rules, Frames, Inputs, Fallback, Running
  <2> QED
    BY <2>1, <2>2, <2>3, <2>4 DEF IInv, Good, Rules
<1>5. CASE outcome \in {"ok", "later"}
  <2>1. /\ worker' \in Workers /\ worker'.gen = worker.gen /\ worker'.model = worker.model
        /\ worker'.woken = worker.woken /\ worker'.pc \in {"publish", "loop"}
        /\ worker'.pc = IF outcome = "ok" THEN "publish" ELSE "loop"
    <3>1. worker \in Workers /\ "publish" \in WorkerPlaces /\ "loop" \in WorkerPlaces
      BY Standing DEF IInv, WorkerPlaces
    <3>2. \E r \in BOOLEAN, k \in BOOLEAN :
              \/ outcome = "ok" /\ worker' = [worker EXCEPT !.pc = "publish", !.render = r, !.continuous = k]
              \/ outcome = "later" /\ worker' = [worker EXCEPT !.pc = "loop", !.render = r]
      BY <1>5 DEF WorkerDraws
    <3> QED
      BY <3>1, <3>2 DEF Workers
  <2>2. Sending(worker')
    BY <1>1, <2>1 DEF IInv, Good, Rules, Sending
  <2>3. Models(v, worker', channel)
    BY <1>1, <2>1, <1>4 DEF Good, Rules, Models, Drawing
  <2>4. Announcements(v, worker', channel)
    BY <1>1, <2>1, <1>4 DEF Good, Rules, Announcements, Drawing
  <2>5. Frames(v, worker', channel, slot)
    BY <1>1, <2>1, <1>4 DEF Good, Rules, Frames, Drawing
  <2>6. Inputs(v, worker', mailbox, cpu)
    BY <1>1, <1>2, <2>1, <1>4 DEF Good, Rules, Inputs
  <2>7. Good(v, worker', mailbox, channel, slot, cpu)
    BY <1>1, <1>4, <2>1, <2>2, <2>3, <2>4, <2>5, <2>6, WorkerMoves
  <2> QED
    BY <1>1, <2>7 DEF IInv
<1>6. CASE outcome \notin {"ok", "later"}
  <2>1. \/ CancelledIn(v, worker.gen) /\ GoTo("idle")
        \/ GoTo("blank") \/ Sends("Unavailable", "done")
    BY <1>6, <1>2 DEF WorkerDraws, Cancelled, CancelledIn
  <2>2. v.input => ~(worker.pc = "draw" /\ worker.gen = v.generation)
    BY <1>2
  <2>3. Good(v, worker', mailbox, channel, slot, cpu)
    BY <1>1, <1>4, <2>1, <2>2, GoesOn, Reports DEF EventTypes
  <2> QED
    BY <1>1, <2>3 DEF IInv
<1> QED
  BY <1>5, <1>6

-----------------------------------------------------------------------------
(* The channel.                                                            *)

LEMMA EventSent ==
    ASSUME NEW c \in Channels, NEW e \in Events, NEW d,
           d = [c EXCEPT !.events = Append(@, e)]
    PROVE  /\ d \in Channels /\ d.closed = c.closed
           /\ Len(d.events) = Len(c.events) + 1 /\ d.events # <<>>
           /\ d.events[Len(d.events)] = e
           /\ \A i \in 1..Len(c.events) : d.events[i] = c.events[i]
           /\ \A types, gen : Told(d, types, gen) <=> Told(c, types, gen) \/ (e.type \in types /\ e.gen = gen)
<1>1. c.events \in Seq(Events) /\ Len(c.events) \in Nat
  BY DEF Channels
<1>2. /\ d.events = Append(c.events, e) /\ d.closed = c.closed
      /\ d.events \in Seq(Events)
  BY <1>1 DEF Channels
<1>3. d \in Channels
  BY <1>1, <1>2 DEF Channels
<1>4. /\ Len(d.events) = Len(c.events) + 1
      /\ d.events[Len(c.events) + 1] = e
      /\ \A i \in 1..Len(c.events) : d.events[i] = c.events[i]
  BY <1>1, <1>2
<1>5. d.events # <<>>
  BY <1>1, <1>4
<1>6. ASSUME NEW types, NEW gen
      PROVE  Told(d, types, gen) <=> Told(c, types, gen) \/ (e.type \in types /\ e.gen = gen)
  <2>1. 1..Len(d.events) = 1..Len(c.events) \cup {Len(c.events) + 1}
    BY <1>1, <1>4
  <2> QED
    BY <2>1, <1>4 DEF Told
<1> QED
  BY <1>2, <1>3, <1>4, <1>5, <1>6

LEMMA EventTaken ==
    ASSUME NEW c \in Channels, c.events # <<>>, NEW d, d = [c EXCEPT !.events = Tail(@)]
    PROVE  /\ d \in Channels /\ d.closed = c.closed
           /\ Len(d.events) = Len(c.events) - 1
           /\ Head(c.events) \in Events /\ Len(c.events) \in Nat /\ Len(d.events) \in Nat
           /\ Head(c.events) = c.events[1]
           /\ \A i \in 1..Len(d.events) : d.events[i] = c.events[i + 1] /\ i + 1 \in 1..Len(c.events)
           /\ d.events # <<>> => d.events[Len(d.events)] = c.events[Len(c.events)]
           /\ d.events = <<>> => c.events[Len(c.events)] = Head(c.events)
           /\ \A types, gen : Told(c, types, gen) <=>
                  Told(d, types, gen) \/ (Head(c.events).type \in types /\ Head(c.events).gen = gen)
<1>1. c.events \in Seq(Events) /\ Len(c.events) \in Nat /\ Len(c.events) # 0
  BY DEF Channels
<1>2. /\ d.events = Tail(c.events) /\ d.closed = c.closed
      /\ d.events \in Seq(Events)
  BY <1>1 DEF Channels
<1>3. d \in Channels
  BY <1>1, <1>2 DEF Channels
<1>4. /\ Len(d.events) = Len(c.events) - 1 /\ Len(d.events) \in Nat
      /\ Head(c.events) = c.events[1]
      /\ \A i \in 1..Len(d.events) : d.events[i] = c.events[i + 1] /\ i + 1 \in 1..Len(c.events)
  BY <1>1, <1>2
<1>5. Head(c.events) \in Events
  BY <1>1, <1>4, ElementOfSeq
<1>6. d.events # <<>> => d.events[Len(d.events)] = c.events[Len(c.events)]
  <2>1. d.events # <<>> => Len(d.events) # 0
    BY <1>2, EmptySeq
  <2>2. d.events # <<>> => Len(d.events) \in 1..Len(d.events)
    BY <1>4, <2>1
  <2>3. d.events # <<>> => d.events[Len(d.events)] = c.events[Len(d.events) + 1]
    BY <2>2, <1>4
  <2> QED
    BY <1>1, <1>4, <2>3
<1>7. d.events = <<>> => c.events[Len(c.events)] = Head(c.events)
  <2>1. d.events = <<>> => Len(d.events) = 0
    OBVIOUS
  <2>2. d.events = <<>> => Len(c.events) = 1
    BY <1>1, <1>4, <2>1
  <2> QED
    BY <2>2, <1>4
<1>8. ASSUME NEW types, NEW gen
      PROVE  Told(c, types, gen) <=>
                 Told(d, types, gen) \/ (Head(c.events).type \in types /\ Head(c.events).gen = gen)
  <2>1. ASSUME NEW i \in 1..Len(c.events), c.events[i].type \in types, c.events[i].gen = gen
        PROVE  Told(d, types, gen) \/ (Head(c.events).type \in types /\ Head(c.events).gen = gen)
    <3>1. CASE i = 1
      BY <2>1, <3>1, <1>4
    <3>2. CASE i # 1
      <4>1. i - 1 \in 1..Len(d.events) /\ d.events[i - 1] = c.events[i]
        BY <1>1, <1>4, <3>2
      <4> QED
        BY <4>1, <2>1 DEF Told
    <3> QED
      BY <3>1, <3>2
  <2>2. Told(d, types, gen) => Told(c, types, gen)
    BY <1>4 DEF Told
  <2>3. (Head(c.events).type \in types /\ Head(c.events).gen = gen) => Told(c, types, gen)
    BY <1>1, <1>4 DEF Told
  <2> QED
    BY <2>1, <2>2, <2>3 DEF Told
<1> QED
  BY <1>1, <1>2, <1>3, <1>4, <1>5, <1>6, <1>7, <1>8

-----------------------------------------------------------------------------
(* The worker and its mailbox.                                             *)

LEMMA LeavesKeeps ==
    ASSUME IInv, Leaves, worker.pc \notin {"draw", "done"}, UNCHANGED <<view, channel, slot, cpu>>
    PROVE  IInv'
<1>1. GoTo("done") /\ UNCHANGED mailbox
  BY DEF Leaves
<1>2. Good(view, worker', mailbox, channel, slot, cpu)
  BY <1>1, GoesOn DEF IInv
<1> QED
  BY <1>1, <1>2 DEF IInv

\* A load is taken: it is the current one, and the channel says nothing of it.
LEMMA TakesLoadKeeps ==
    ASSUME IInv, NEW pc \in {"init", "top"}, TakesLoad(pc, worker.woken),
           worker.pc \in {"first", "idle", "top", "frame", "blank", "loop"},
           UNCHANGED <<view, channel, slot, cpu>>
    PROVE  IInv'
<1>1. /\ worker \in Workers /\ view \in Views /\ mailbox \in Mailboxes
      /\ view.generation \in Nat
  BY ViewFields DEF IInv, Good, Typed
<1>2. /\ mailbox.load # NoLoad /\ mailbox.load.gen = view.generation
      /\ mailbox.load.model = view.model /\ worker.gen # view.generation
      /\ view.underlay /\ mailbox.load \in LoadRequests
      /\ mailbox.load.gen \in Nat /\ mailbox.load.model \in BOOLEAN
  BY <1>1 DEF TakesLoad, IInv, Good, Rules, Surface, Generations, Mailboxes, LoadRequests
<1>3. /\ worker' \in Workers /\ worker'.pc = pc /\ worker'.gen = view.generation
      /\ worker'.model = view.model /\ ~worker'.woken
  <2>1. worker' = [NewWorker EXCEPT !.pc = pc, !.gen = mailbox.load.gen, !.model = mailbox.load.model]
    BY DEF TakesLoad
  <2>2. pc \in WorkerPlaces
    BY DEF WorkerPlaces
  <2> QED
    BY <1>2, <2>1, <2>2, NewWorkerIs DEF Workers
<1>4. /\ mailbox' \in Mailboxes /\ mailbox'.load = NoLoad
      /\ mailbox'.shutdown = mailbox.shutdown
      /\ mailbox'.wake = (mailbox.wake \/ worker.woken)
  <2>1. worker.woken \in BOOLEAN /\ NoLoad \in LoadRequests
    BY <1>1, WorkerFields DEF NoLoad, LoadRequests
  <2>2. mailbox' = [mailbox EXCEPT !.load = NoLoad, !.wake = @ \/ worker.woken]
    BY DEF TakesLoad
  <2> QED
    BY <1>1, <2>1, <2>2 DEF Mailboxes
<1>5. ~Told(channel, EventTypes \ {"Unavailable"}, view.generation)
  BY <1>2 DEF IInv, Good, Rules, Announcements
<1>6. ~Told(channel, {"ModelLoadFailed"}, view.generation)
  BY <1>5 DEF Told, EventTypes
<1>7. Typed(view, worker', mailbox', channel, slot, cpu)
  BY <1>3, <1>4 DEF IInv, Good, Typed
<1>8. Surface(view, worker', mailbox', channel, cpu)
  BY <1>2, <1>3, <1>4 DEF IInv, Good, Rules, Surface
<1>9. Generations(view, worker', mailbox', channel)
  BY <1>1, <1>3, <1>4 DEF IInv, Good, Rules, Generations
<1>10. Sending(worker') /\ Models(view, worker', channel)
  BY <1>3, <1>5 DEF IInv, Good, Rules, Sending, Models, Drawing
<1>11. Announcements(view, worker', channel)
  BY <1>3, <1>5, <1>6 DEF Announcements, Drawing
<1>12. Frames(view, worker', channel, slot)
  BY <1>3 DEF IInv, Good, Rules, Frames, Drawing
<1>13. Inputs(view, worker', mailbox', cpu)
  BY <1>2, <1>3, <1>4 DEF IInv, Good, Rules, Inputs
<1>14. Fallback(view, cpu)
  BY DEF IInv, Good, Rules
<1> QED
  BY <1>7, <1>8, <1>9, <1>10, <1>11, <1>12, <1>13, <1>14 DEF IInv, Good, Rules

LEMMA RetriesKeeps ==
    ASSUME IInv, WorkerRetries
    PROVE  IInv'
<1>1. worker.pc \in {"top", "frame", "blank"} /\ UNCHANGED <<view, channel, slot, cpu>>
  BY DEF WorkerRetries, At, OnlyWorker
<1>2. worker.woken = FALSE
  BY <1>1, WorkerFields DEF IInv, Good, Typed, Rules, Sending
<1>3. Leaves \/ TakesLoad("top", worker.woken)
  BY <1>2 DEF WorkerRetries
<1> QED
  BY <1>1, <1>3, LeavesKeeps, TakesLoadKeeps

LEMMA IdlesKeeps ==
    ASSUME IInv, WorkerIdles
    PROVE  IInv'
<1>1. worker.pc \in {"first", "idle"} /\ UNCHANGED <<view, channel, slot, cpu>>
  BY DEF WorkerIdles, At, OnlyWorker
<1>2. CASE Leaves
  BY <1>1, <1>2, LeavesKeeps
<1>3. CASE \E pc \in {"init", "top"} : TakesLoad(pc, worker.woken)
  BY <1>1, <1>3, TakesLoadKeeps
<1>4. CASE /\ mailbox.load = NoLoad
           /\ worker' = [worker EXCEPT !.woken = TRUE]
           /\ mailbox' = [mailbox EXCEPT !.wake = FALSE]
  <2>1. /\ worker' \in Workers /\ worker'.pc = worker.pc /\ worker'.gen = worker.gen
        /\ worker'.model = worker.model /\ worker'.woken
    BY <1>4 DEF IInv, Good, Typed, Workers
  <2>2. /\ mailbox' \in Mailboxes /\ mailbox'.load = mailbox.load
        /\ mailbox'.shutdown = mailbox.shutdown
    BY <1>4 DEF IInv, Good, Typed, Mailboxes
  <2>3. Typed(view, worker', mailbox', channel, slot, cpu)
    BY <2>1, <2>2 DEF IInv, Good, Typed
  <2>4. Surface(view, worker', mailbox', channel, cpu) /\ Generations(view, worker', mailbox', channel)
    BY <2>1, <2>2 DEF IInv, Good, Rules, Surface, Generations
  <2>5. Sending(worker') /\ Models(view, worker', channel) /\ Announcements(view, worker', channel)
    BY <1>1, <2>1 DEF IInv, Good, Rules, Sending, Models, Announcements, Drawing
  <2>6. Frames(view, worker', channel, slot)
    BY <2>1 DEF IInv, Good, Rules, Frames
  <2>7. Inputs(view, worker', mailbox', cpu)
    BY <1>4, <2>1, <2>2 DEF IInv, Good, Rules, Inputs
  <2> QED
    BY <1>1, <2>3, <2>4, <2>5, <2>6, <2>7 DEF IInv, Good, Rules
<1> QED
  BY <1>2, <1>3, <1>4 DEF WorkerIdles

\* A wake-up is consumed on the way to a frame of the current load.
LEMMA WaitsKeeps ==
    ASSUME IInv, WorkerWaits
    PROVE  IInv'
<1>1. worker.pc = "loop" /\ UNCHANGED <<view, channel, slot, cpu>>
  BY DEF WorkerWaits, At, OnlyWorker
<1>2. worker.woken = FALSE
  BY <1>1, WorkerFields DEF IInv, Good, Typed, Rules, Sending
<1>3. CASE Leaves \/ TakesLoad("top", worker.woken)
  BY <1>1, <1>3, LeavesKeeps, TakesLoadKeeps
<1>4. CASE /\ mailbox.load = NoLoad
           /\ worker' = [worker EXCEPT !.render = @ \/ mailbox.wake, !.pc = "draw"]
           /\ mailbox' = [mailbox EXCEPT !.wake = FALSE]
  <2>1. /\ worker' \in Workers /\ worker'.pc = "draw" /\ worker'.gen = worker.gen
        /\ worker'.model = worker.model /\ worker'.woken = worker.woken
    BY <1>4 DEF IInv, Good, Typed, Workers, WorkerPlaces, Mailboxes
  <2>2. /\ mailbox' \in Mailboxes /\ mailbox'.load = mailbox.load
        /\ mailbox'.shutdown = mailbox.shutdown
    BY <1>4 DEF IInv, Good, Typed, Mailboxes
  <2>3. Typed(view, worker', mailbox', channel, slot, cpu)
    BY <2>1, <2>2 DEF IInv, Good, Typed
  <2>4. Surface(view, worker', mailbox', channel, cpu) /\ Generations(view, worker', mailbox', channel)
    BY <1>1, <2>1, <2>2 DEF IInv, Good, Rules, Surface, Generations
  <2>5. Sending(worker') /\ Models(view, worker', channel) /\ Announcements(view, worker', channel)
    BY <1>1, <1>2, <2>1 DEF IInv, Good, Rules, Sending, Models, Announcements, Drawing
  <2>6. Frames(view, worker', channel, slot)
    BY <1>1, <2>1 DEF IInv, Good, Rules, Frames, Drawing
  <2>7. Inputs(view, worker', mailbox', cpu)
    BY <1>1, <1>4, <2>1, <2>2 DEF IInv, Good, Rules, Inputs, Generations
  <2> QED
    BY <1>1, <2>3, <2>4, <2>5, <2>6, <2>7 DEF IInv, Good, Rules
<1>5. CASE Sends("Unavailable", "done") /\ UNCHANGED mailbox
  <2>1. Good(view, worker', mailbox, channel, slot, cpu)
    BY <1>1, <1>5, Reports DEF IInv, EventTypes
  <2> QED
    BY <1>1, <1>5, <2>1 DEF IInv
<1> QED
  BY <1>2, <1>3, <1>4, <1>5 DEF WorkerWaits

-----------------------------------------------------------------------------
(* The worker and the channel.                                             *)

\* A worker that has not ended, and finds the channel open, has its underlay.
LEMMA OpenChannel ==
    ASSUME RendererAssumption, IInv, worker.pc # "done", ~channel.closed
    PROVE  /\ view.underlay /\ channel \in Channels /\ Capacity \in Nat /\ Capacity # 0
           /\ Len(channel.events) \in Nat
  BY DEF RendererAssumption, IInv, Good, Typed, Rules, Surface, Channels

\* The channel has room: an event of the current load or of an older one, sent
\* by a worker that goes on as it must.
LEMMA SentKeeps ==
    ASSUME RendererAssumption, IInv, worker.pc # "done", ~channel.closed,
           Len(channel.events) < Capacity, NEW type \in EventTypes,
           channel' = [channel EXCEPT !.events = Append(@, Event(type, worker.gen))],
           UNCHANGED <<view, mailbox, slot, cpu>>,
           worker' \in Workers, ~worker'.woken,
           worker'.gen = IF worker'.pc = "done" THEN 0 ELSE worker.gen,
           \/ /\ worker.pc = "send" /\ type = worker.event
              /\ worker'.pc = worker.after /\ worker.after \in {"loop", "idle", "done"}
           \/ worker.pc = "notify" /\ type = "FrameAvailable" /\ worker'.pc = "loop"
    PROVE  IInv'
<1> DEFINE e == Event(type, worker.gen)
<1>1. /\ worker \in Workers /\ view \in Views /\ worker.gen \in Nat /\ view.generation \in Nat
      /\ view.underlay /\ channel \in Channels /\ Capacity \in Nat /\ Len(channel.events) \in Nat
  BY OpenChannel, WorkerFields, ViewFields DEF IInv, Good, Typed
<1>2. e \in Events /\ e.type = type /\ e.gen = worker.gen
  BY <1>1 DEF Event, Events
<1>3. channel' = [channel EXCEPT !.events = Append(@, e)]
  OBVIOUS
<1> HIDE DEF e
<1>4. /\ channel' \in Channels /\ channel'.closed = channel.closed
      /\ Len(channel'.events) = Len(channel.events) + 1 /\ channel'.events # <<>>
      /\ channel'.events[Len(channel'.events)] = e
      /\ \A i \in 1..Len(channel.events) : channel'.events[i] = channel.events[i]
      /\ \A types, gen : Told(channel', types, gen) <=>
             Told(channel, types, gen) \/ (type \in types /\ worker.gen = gen)
  BY <1>1, <1>2, <1>3, EventSent
<1>5. Typed(view, worker', mailbox, channel', slot, cpu)
  BY <1>1, <1>4 DEF IInv, Good, Typed
<1>6. Surface(view, worker', mailbox, channel', cpu)
  BY <1>1, <1>4 DEF IInv, Good, Rules, Surface
<1>7. Generations(view, worker', mailbox, channel')
  <2>1. worker'.gen <= view.generation /\ worker.gen <= view.generation
    BY <1>1 DEF IInv, Good, Rules, Generations
  <2>2. ASSUME NEW i \in 1..Len(channel'.events) PROVE channel'.events[i].gen <= view.generation
    <3>1. i \in 1..Len(channel.events) \/ i = Len(channel'.events)
      BY <1>1, <1>4
    <3> QED
      BY <1>2, <1>4, <2>1, <3>1 DEF IInv, Good, Rules, Generations
  <2>3. mailbox.load # NoLoad => worker'.gen # view.generation
    <3>1. mailbox.load # NoLoad => worker.gen # view.generation
      BY DEF IInv, Good, Rules, Generations
    <3> QED
      BY <1>1, <2>1, <3>1
  <2> QED
    BY <1>1, <2>1, <2>2, <2>3 DEF IInv, Good, Rules, Generations
<1>8. Sending(worker')
  BY DEF Sending
<1>9. Models(view, worker', channel')
  BY <1>1, <1>4 DEF IInv, Good, Rules, Models, Sending, Drawing
<1>10. Announcements(view, worker', channel')
  <2>1. (worker.pc = "send" /\ type = "ModelLoadFailed") => worker.after = "idle"
    BY DEF IInv, Good, Rules, Sending, FailureTypes
  <2>2. (worker.pc = "send" /\ worker.after = "loop") => type = "ModelLoaded"
    BY DEF IInv, Good, Rules, Sending, FailureTypes
  <2>3. (worker.pc = "send" /\ worker.after = "idle") => type \in FailureTypes
    BY DEF IInv, Good, Rules, Sending, FailureTypes
  <2>4. (worker.pc = "send" /\ type = "Unavailable") => worker.after = "done"
    BY DEF IInv, Good, Rules, Sending, FailureTypes
  <2>5. ~(worker.pc \in {"send", "notify"} /\ Told(channel, {"ModelLoadFailed"}, view.generation))
    BY DEF IInv, Good, Rules, Announcements
  <2>6. /\ (Told(channel', EventTypes \ {"Unavailable"}, view.generation) /\ worker'.pc # "done") =>
               worker'.gen = view.generation /\ worker'.pc \in Drawing \cup {"blank", "idle", "send"}
        /\ Told(channel', {"ModelLoadFailed"}, view.generation) => worker'.pc \in {"idle", "done"}
    BY <1>4, <2>1, <2>4, <2>5 DEF IInv, Good, Rules, Announcements, Drawing
  <2>7. (worker'.gen = view.generation /\ worker'.pc \in Drawing \cup {"blank"}) =>
             view.state = "ready" \/ Told(channel', {"ModelLoaded"}, view.generation)
    BY <1>1, <1>4, <2>2 DEF IInv, Good, Rules, Announcements, Drawing
  <2>8. (worker'.gen = view.generation /\ worker'.pc = "idle") =>
            /\ channel'.events[Len(channel'.events)].type \in FailureTypes
            /\ channel'.events[Len(channel'.events)].gen = view.generation
    BY <1>2, <1>4, <2>3
  <2> QED
    BY <1>4, <2>6, <2>7, <2>8 DEF Announcements
<1>11. Frames(view, worker', channel', slot)
  <2>1. worker'.pc \in Drawing => type \in NewsTypes /\ worker'.gen = worker.gen /\ worker'.pc = "loop"
    BY DEF IInv, Good, Rules, Sending, FailureTypes, Drawing, NewsTypes
  <2>2. worker.pc = "notify" =>
            \/ ~(slot.frame \/ slot.notified) \/ slot.gen # view.generation
            \/ type \in NewsTypes /\ worker.gen = view.generation
    BY DEF IInv, Good, Rules, Frames, NewsTypes
  <2>3. /\ (slot.gen = view.generation /\ slot.frame) =>
               worker'.pc \in {"notify", "done"} \/ Told(channel', NewsTypes, view.generation)
        /\ (slot.gen = view.generation /\ slot.notified) =>
               worker'.pc \in {"notify", "undo", "done"} \/ Told(channel', NewsTypes, view.generation)
    BY <1>1, <1>4, <2>2 DEF IInv, Good, Rules, Frames
  <2> QED
    BY <1>2, <1>4, <2>1, <2>3 DEF IInv, Good, Rules, Frames, Drawing
<1>12. Inputs(view, worker', mailbox, cpu)
  <2>1. ~worker.woken
    BY DEF IInv, Good, Rules, Sending
  <2> QED
    BY <2>1 DEF IInv, Good, Rules, Inputs
<1>13. Fallback(view, cpu)
  BY DEF IInv, Good, Rules
<1> QED
  BY <1>5, <1>6, <1>7, <1>8, <1>9, <1>10, <1>11, <1>12, <1>13 DEF IInv, Good, Rules

\* Without its underlay the worker only stops: nothing is promised of it.
LEMMA BlindKeeps ==
    ASSUME IInv, ~view.underlay, UNCHANGED <<view, mailbox, channel, slot, cpu>>,
           worker.pc # "done", worker' \in Workers, Sending(worker'), worker'.pc \notin {"notify", "undo"},
           worker'.gen = IF worker'.pc = "done" THEN 0 ELSE worker.gen
    PROVE  IInv'
<1>1. channel.events = <<>> /\ \A types, gen : ~Told(channel, types, gen)
  BY Standing DEF IInv
<1>2. Models(view, worker', channel) /\ Announcements(view, worker', channel)
  BY <1>1 DEF IInv, Good, Rules, Models, Announcements
<1>3. Frames(view, worker', channel, slot) /\ Inputs(view, worker', mailbox, cpu)
  BY <1>1 DEF IInv, Good, Rules, Frames, Inputs
<1>4. Good(view, worker', mailbox, channel, slot, cpu)
  BY <1>2, <1>3, WorkerMoves DEF IInv
<1> QED
  BY <1>4 DEF IInv

LEMMA WorkerSendsKeeps ==
    ASSUME RendererAssumption, IInv, WorkerSends
    PROVE  IInv'
<1>1. /\ worker.pc = "send" /\ UNCHANGED <<view, mailbox, slot, cpu>>
      /\ worker \in Workers /\ worker.gen \in Nat
  BY WorkerFields DEF WorkerSends, At, OnlyWorker, IInv, Good, Typed
<1>2. /\ worker.after \in {"loop", "idle", "done"} /\ worker.event \in EventTypes
      /\ worker.after = "loop" <=> worker.event = "ModelLoaded"
      /\ ~worker.woken
  BY <1>1 DEF IInv, Good, Rules, Sending, FailureTypes, EventTypes
<1>3. ASSUME NEW pc \in {"idle", "done"}, GoTo(pc)
      PROVE  /\ worker' \in Workers /\ ~worker'.woken /\ worker'.pc = pc
             /\ worker'.gen = IF worker'.pc = "done" THEN 0 ELSE worker.gen
  BY <1>1, <1>3, GoesTo DEF WorkerPlaces
<1>4. CASE channel.closed
  <2>1. ~view.underlay
    BY <1>4 DEF IInv, Good, Rules, Surface
  <2>2. UNCHANGED channel /\ \E pc \in {"idle", "done"} : GoTo(pc)
    BY <1>2, <1>4 DEF WorkerSends
  <2>3. Sending(worker')
    BY <1>3, <2>2 DEF Sending
  <2> QED
    BY <1>1, <1>3, <2>1, <2>2, <2>3, BlindKeeps
<1>5. CASE ~channel.closed
  <2>1. /\ Len(channel.events) < Capacity
        /\ channel' = [channel EXCEPT !.events = Append(@, Event(worker.event, worker.gen))]
        /\ \E continuous \in BOOLEAN :
               IF worker.after = "loop"
               THEN worker' = [NewWorker EXCEPT !.pc = "loop", !.gen = worker.gen, !.continuous = continuous]
               ELSE GoTo(worker.after)
    BY <1>5 DEF WorkerSends
  <2>2. /\ worker' \in Workers /\ ~worker'.woken /\ worker'.pc = worker.after
        /\ worker'.gen = IF worker'.pc = "done" THEN 0 ELSE worker.gen
    <3>1. CASE worker.after = "loop"
      <4>1. \E continuous \in BOOLEAN :
               worker' = [NewWorker EXCEPT !.pc = "loop", !.gen = worker.gen, !.continuous = continuous]
        BY <2>1, <3>1
      <4> QED
        BY <4>1, <3>1, <1>1, NewWorkerIs DEF Workers, WorkerPlaces
    <3>2. CASE worker.after # "loop"
      BY <1>2, <1>3, <2>1, <3>2
    <3> QED
      BY <3>1, <3>2
  <2> QED
    BY <1>1, <1>2, <1>5, <2>1, <2>2, SentKeeps
<1> QED
  BY <1>4, <1>5

-----------------------------------------------------------------------------
(* The worker and the slot.                                                *)

LEMMA PublishesKeeps ==
    ASSUME IInv, WorkerPublishes
    PROVE  IInv'
<1>1. /\ worker.pc = "publish" /\ UNCHANGED <<view, mailbox, channel, cpu>>
      /\ worker \in Workers /\ slot \in Slots
      /\ slot.frame \in BOOLEAN /\ slot.notified \in BOOLEAN
  BY DEF WorkerPublishes, At, OnlyWorker, IInv, Good, Typed, Slots
<1>2. \E pc \in {"loop", "notify"} :
          /\ GoTo(pc)
          /\ \/ slot.gen # worker.gen /\ pc = "loop" /\ UNCHANGED slot
             \/ /\ slot.gen = worker.gen
                /\ slot' = [slot EXCEPT !.frame = TRUE, !.notified = TRUE]
                /\ pc = "loop" <=> slot.notified
  BY <1>1 DEF WorkerPublishes
<1>3. PICK pc \in {"loop", "notify"} :
          /\ GoTo(pc)
          /\ \/ slot.gen # worker.gen /\ pc = "loop" /\ UNCHANGED slot
             \/ /\ slot.gen = worker.gen
                /\ slot' = [slot EXCEPT !.frame = TRUE, !.notified = TRUE]
                /\ pc = "loop" <=> slot.notified
  BY <1>2
<1>4. /\ worker' \in Workers /\ worker'.pc = pc /\ worker'.gen = worker.gen
      /\ worker'.woken = worker.woken
  BY <1>1, <1>3, GoesTo DEF WorkerPlaces
<1>5. /\ slot' \in Slots /\ slot'.gen = slot.gen
      /\ slot.gen # worker.gen => slot' = slot /\ pc = "loop"
      /\ slot.gen = worker.gen => slot'.frame /\ slot'.notified /\ (pc = "loop" <=> slot.notified)
  BY <1>1, <1>3 DEF Slots
<1>6. ~worker'.woken
  BY <1>1, <1>4 DEF IInv, Good, Rules, Sending
<1>7. Typed(view, worker', mailbox, channel, slot', cpu)
  BY <1>4, <1>5 DEF IInv, Good, Typed
<1>8. Surface(view, worker', mailbox, channel, cpu) /\ Generations(view, worker', mailbox, channel)
  BY <1>1, <1>4 DEF IInv, Good, Rules, Surface, Generations
<1>9. Sending(worker') /\ Models(view, worker', channel) /\ Announcements(view, worker', channel)
  BY <1>1, <1>4, <1>6 DEF IInv, Good, Rules, Sending, Models, Announcements, Drawing
<1>10. Frames(view, worker', channel, slot')
  BY <1>1, <1>4, <1>5 DEF IInv, Good, Rules, Frames, Drawing
<1>11. Inputs(view, worker', mailbox, cpu)
  BY <1>1, <1>4, <1>6 DEF IInv, Good, Rules, Inputs, Sending
<1> QED
  BY <1>1, <1>7, <1>8, <1>9, <1>10, <1>11 DEF IInv, Good, Rules

\* A full channel holds an event of the current load behind which the window
\* finds the frame.
LEMMA NotifiesKeeps ==
    ASSUME RendererAssumption, IInv, WorkerNotifies
    PROVE  IInv'
<1>1. /\ worker.pc = "notify" /\ UNCHANGED <<view, mailbox, slot, cpu>>
      /\ worker \in Workers /\ worker.gen \in Nat /\ ~worker.woken
  BY WorkerFields DEF WorkerNotifies, At, OnlyWorker, IInv, Good, Typed, Rules, Sending
<1>2. ASSUME NEW pc \in {"loop", "undo", "done"}, GoTo(pc)
      PROVE  /\ worker' \in Workers /\ ~worker'.woken /\ worker'.pc = pc
             /\ worker'.gen = IF worker'.pc = "done" THEN 0 ELSE worker.gen
  BY <1>1, <1>2, GoesTo DEF WorkerPlaces
<1>3. CASE GoTo("done") /\ UNCHANGED channel
  <2>1. Good(view, worker', mailbox, channel, slot, cpu)
    BY <1>1, <1>3, GoesOn DEF IInv
  <2> QED
    BY <1>1, <1>3, <2>1 DEF IInv
<1>4. CASE /\ ~channel.closed /\ Len(channel.events) >= Capacity
           /\ GoTo("undo") /\ UNCHANGED channel
  <2>1. channel.events # <<>> /\ Len(channel.events) \in 1..Len(channel.events)
    <3>1. Len(channel.events) \in Nat /\ Len(channel.events) # 0
      BY <1>1, <1>4, OpenChannel
    <3> QED
      BY <3>1
  <2>2. /\ channel.events[Len(channel.events)].type \in NewsTypes
        /\ channel.events[Len(channel.events)].gen = worker.gen
    BY <1>1, <2>1 DEF IInv, Good, Rules, Frames, Drawing
  <2>3. Told(channel, NewsTypes, worker.gen)
    BY <2>1, <2>2 DEF Told
  <2>4. /\ worker' \in Workers /\ ~worker'.woken /\ worker'.pc = "undo" /\ worker'.gen = worker.gen
    BY <1>2, <1>4
  <2>5. Sending(worker') /\ Models(view, worker', channel) /\ Announcements(view, worker', channel)
    BY <1>1, <2>4 DEF IInv, Good, Rules, Sending, Models, Announcements, Drawing
  <2>6. Frames(view, worker', channel, slot)
    BY <1>1, <2>3, <2>4 DEF IInv, Good, Rules, Frames, Drawing
  <2>7. Inputs(view, worker', mailbox, cpu)
    BY <1>1, <2>4 DEF IInv, Good, Rules, Inputs
  <2>8. Good(view, worker', mailbox, channel, slot, cpu)
    BY <1>1, <2>4, <2>5, <2>6, <2>7, WorkerMoves DEF IInv
  <2> QED
    BY <1>1, <1>4, <2>8 DEF IInv
<1>5. CASE /\ ~channel.closed /\ Len(channel.events) < Capacity
           /\ channel' = [channel EXCEPT !.events = Append(@, Event("FrameAvailable", worker.gen))]
           /\ GoTo("loop")
  <2>1. /\ worker' \in Workers /\ ~worker'.woken /\ worker'.pc = "loop"
        /\ worker'.gen = IF worker'.pc = "done" THEN 0 ELSE worker.gen
    BY <1>2, <1>5
  <2> QED
    BY <1>1, <1>5, <2>1, SentKeeps DEF EventTypes
<1> QED
  BY <1>3, <1>4, <1>5 DEF WorkerNotifies

LEMMA UndoesKeeps ==
    ASSUME IInv, WorkerUndoes
    PROVE  IInv'
<1>1. /\ worker.pc = "undo" /\ UNCHANGED <<view, mailbox, channel, cpu>>
      /\ worker \in Workers /\ slot \in Slots /\ GoTo("loop")
      /\ slot' = [slot EXCEPT !.notified = FALSE]
  BY DEF WorkerUndoes, At, OnlyWorker, IInv, Good, Typed
<1>2. /\ worker' \in Workers /\ worker'.pc = "loop" /\ worker'.gen = worker.gen
      /\ worker'.woken = worker.woken
  BY <1>1, GoesTo DEF WorkerPlaces
<1>3. /\ slot' \in Slots /\ slot'.gen = slot.gen /\ slot'.frame = slot.frame /\ ~slot'.notified
  BY <1>1 DEF Slots
<1>4. ~worker'.woken
  BY <1>1, <1>2 DEF IInv, Good, Rules, Sending
<1>5. Typed(view, worker', mailbox, channel, slot', cpu)
  BY <1>2, <1>3 DEF IInv, Good, Typed
<1>6. Surface(view, worker', mailbox, channel, cpu) /\ Generations(view, worker', mailbox, channel)
  BY <1>1, <1>2 DEF IInv, Good, Rules, Surface, Generations
<1>7. Sending(worker') /\ Models(view, worker', channel) /\ Announcements(view, worker', channel)
  BY <1>1, <1>2, <1>4 DEF IInv, Good, Rules, Sending, Models, Announcements, Drawing
<1>8. Frames(view, worker', channel, slot')
  BY <1>1, <1>2, <1>3 DEF IInv, Good, Rules, Frames, Drawing
<1>9. Inputs(view, worker', mailbox, cpu)
  BY <1>1, <1>2, <1>4 DEF IInv, Good, Rules, Inputs, Sending
<1> QED
  BY <1>1, <1>5, <1>6, <1>7, <1>8, <1>9 DEF IInv, Good, Rules

LEMMA PanicsKeeps ==
    ASSUME RendererAssumption, IInv, WorkerPanics
    PROVE  IInv'
<1>1. /\ worker.pc # "done" /\ UNCHANGED <<view, mailbox, slot, cpu>> /\ GoTo("done")
      /\ worker \in Workers /\ channel \in Channels /\ view.generation \in Nat
  BY ViewFields DEF WorkerPanics, At, OnlyWorker, IInv, Good, Typed
<1>2. /\ worker' \in Workers /\ worker'.pc = "done" /\ worker'.gen = 0 /\ ~worker'.woken
  BY <1>1, GoesTo DEF WorkerPlaces
<1>3. CASE UNCHANGED channel
  <2>1. Sending(worker') /\ Models(view, worker', channel) /\ Announcements(view, worker', channel)
    BY <1>1, <1>2 DEF IInv, Good, Rules, Sending, Models, Announcements, Drawing, Generations
  <2>2. Frames(view, worker', channel, slot) /\ Inputs(view, worker', mailbox, cpu)
    BY <1>1, <1>2 DEF IInv, Good, Rules, Frames, Inputs, Drawing
  <2>3. Good(view, worker', mailbox, channel, slot, cpu)
    BY <1>1, <1>2, <2>1, <2>2, WorkerMoves DEF IInv
  <2> QED
    BY <1>1, <1>3, <2>3 DEF IInv
<1>4. CASE /\ ~channel.closed /\ Len(channel.events) < Capacity
           /\ channel' = [channel EXCEPT !.events = Append(@, Event("Unavailable", 0))]
  <2>1. /\ view.underlay /\ Capacity \in Nat /\ Len(channel.events) \in Nat
    BY <1>1, <1>4, OpenChannel
  <2>2. Event("Unavailable", 0) \in Events /\ Event("Unavailable", 0).type = "Unavailable"
        /\ Event("Unavailable", 0).gen = 0
    BY DEF Event, Events, EventTypes
  <2>3. /\ channel' \in Channels /\ channel'.closed = channel.closed
        /\ Len(channel'.events) = Len(channel.events) + 1 /\ channel'.events # <<>>
        /\ channel'.events[Len(channel'.events)].gen = 0
        /\ \A i \in 1..Len(channel.events) : channel'.events[i] = channel.events[i]
        /\ \A types, gen : Told(channel', types, gen) <=>
               Told(channel, types, gen) \/ ("Unavailable" \in types /\ 0 = gen)
    BY <1>1, <1>4, <2>2, EventSent
  <2>4. Typed(view, worker', mailbox, channel', slot, cpu)
    BY <1>2, <1>4, <2>1, <2>3 DEF IInv, Good, Typed
  <2>5. Surface(view, worker', mailbox, channel', cpu)
    BY <1>2, <1>4, <2>1, <2>3 DEF IInv, Good, Rules, Surface
  <2>6. Generations(view, worker', mailbox, channel')
    <3>1. ASSUME NEW i \in 1..Len(channel'.events) PROVE channel'.events[i].gen <= view.generation
      <4>1. i \in 1..Len(channel.events) \/ i = Len(channel'.events)
        BY <2>1, <2>3
      <4> QED
        BY <1>1, <2>3, <4>1 DEF IInv, Good, Rules, Generations
    <3>2. worker'.gen <= view.generation
      BY <1>1, <1>2
    <3>3. mailbox.load # NoLoad => worker'.gen # view.generation
      <4>1. worker.gen \in Nat
        BY <1>1, WorkerFields
      <4> QED
        BY <1>1, <1>2, <4>1 DEF IInv, Good, Rules, Generations
    <3> QED
      BY <1>2, <3>1, <3>2, <3>3 DEF IInv, Good, Rules, Generations
  <2>7. Sending(worker') /\ Models(view, worker', channel')
    BY <1>2, <2>3 DEF IInv, Good, Rules, Sending, Models, Drawing
  <2>8. Announcements(view, worker', channel')
    BY <1>2, <2>3 DEF Announcements, Drawing
  <2>9. Frames(view, worker', channel', slot)
    BY <1>2, <2>3 DEF IInv, Good, Rules, Frames, Drawing
  <2>10. Inputs(view, worker', mailbox, cpu)
    BY <1>2 DEF IInv, Good, Rules, Inputs
  <2> QED
    BY <1>1, <2>4, <2>5, <2>6, <2>7, <2>8, <2>9, <2>10 DEF IInv, Good, Rules
<1>5. ~channel.closed /\ ~(Len(channel.events) >= Capacity) => Len(channel.events) < Capacity
  BY <1>1, OpenChannel
<1> QED
  BY <1>3, <1>4, <1>5 DEF WorkerPanics

-----------------------------------------------------------------------------
(* What the handlers of the window do.                                     *)

LEMMA NewThings ==
    /\ NoTask \in Tasks /\ NoTask.pc = "none" /\ ~NoTask.closed
    /\ NewMailbox \in Mailboxes /\ NewMailbox.load = NoLoad
    /\ ~NewMailbox.wake /\ ~NewMailbox.shutdown
    /\ NewChannel \in Channels /\ NewChannel.events = <<>> /\ ~NewChannel.closed
    /\ NewSlot \in Slots /\ ~NewSlot.frame /\ ~NewSlot.notified
    /\ NoLoad \in LoadRequests /\ NoLoad.gen = 0 /\ NoLoad.model = FALSE
<1>1. <<>> \in Seq(Events)
  BY EmptySeq
<1>2. NoTask \in Tasks /\ NoTask.pc = "none" /\ ~NoTask.closed
  BY DEF NoTask, Tasks, TaskPlaces
<1>3. NoLoad \in LoadRequests /\ NoLoad.gen = 0 /\ NoLoad.model = FALSE
  BY DEF NoLoad, LoadRequests
<1>4. /\ NewMailbox \in Mailboxes /\ NewMailbox.load = NoLoad
      /\ ~NewMailbox.wake /\ ~NewMailbox.shutdown
  BY <1>3 DEF NewMailbox, Mailboxes
<1>5. NewChannel \in Channels /\ NewChannel.events = <<>> /\ ~NewChannel.closed
  BY <1>1 DEF NewChannel, Channels
<1>6. NewSlot \in Slots /\ ~NewSlot.frame /\ ~NewSlot.notified
  BY DEF NewSlot, Slots
<1> QED
  BY <1>2, <1>3, <1>4, <1>5, <1>6

\* A new load takes the place of every older one.
LEMMA LoadsGood ==
    ASSUME NEW v \in Views, NEW w \in Workers, NEW mail \in Mailboxes, NEW c \in Channels,
           NEW cell \in Slots, NEW model \in BOOLEAN, Loads(v, model, mail, cell),
           Len(c.events) <= Capacity,
           Surface([v EXCEPT !.cancelled = FALSE], w, mail, c, NoTask),
           w.gen <= v.generation,
           \A i \in 1..Len(c.events) : c.events[i].gen <= v.generation,
           Sending(w), NEW u, Frames(u, w, c, cell)
    PROVE  Good(view', w, mailbox', c, slot', cpu')
<1> DEFINE gen == v.generation + 1
           x == [v EXCEPT !.cancelled = FALSE]
<1>1. /\ v.generation \in Nat /\ gen \in Nat /\ w.gen \in Nat /\ w.gen < gen /\ w.gen # gen
      /\ v.underlay \in BOOLEAN
  BY ViewFields, WorkerFields
<1>2. view' = [v EXCEPT !.generation = gen, !.model = model, !.frame = 0, !.input = FALSE,
                        !.cancelled = FALSE, !.state = IF model THEN "loading" ELSE "none"]
  BY DEF Loads
<1>3. /\ x.underlay = v.underlay /\ x.listening = v.listening /\ x.pending = v.pending
      /\ x.released = v.released /\ x.restore = v.restore /\ x.closing = v.closing
      /\ x.gone = v.gone /\ x.quit = v.quit
  BY DEF Views
<1>4. /\ view'.generation = gen /\ view'.model = model /\ view'.frame = 0 /\ view'.input = FALSE
      /\ view'.cancelled = FALSE /\ view'.state = (IF model THEN "loading" ELSE "none")
      /\ view'.underlay = v.underlay /\ view'.listening = v.listening /\ view'.pending = v.pending
      /\ view'.released = v.released /\ view'.restore = v.restore /\ view'.closing = v.closing
      /\ view'.gone = v.gone /\ view'.quit = v.quit
  BY <1>2 DEF Views
<1>5. view' \in Views
  <2>1. (IF model THEN "loading" ELSE "none") \in {"none", "loading", "ready", "failed"}
    OBVIOUS
  <2> HIDE DEF gen
  <2> QED
    BY <1>1, <1>2, <2>1 DEF Views
<1>6. /\ mailbox' \in Mailboxes /\ slot' \in Slots /\ cpu' \in Tasks
      /\ mailbox'.shutdown = mail.shutdown
      /\ v.underlay => /\ mailbox'.load.gen = gen /\ mailbox'.load.model = model
                       /\ ~slot'.frame /\ ~slot'.notified /\ cpu' = NoTask
                       /\ mailbox'.load # NoLoad
      /\ ~v.underlay => /\ mailbox' = mail /\ slot' = cell
                        /\ cpu' = IF model THEN [NoTask EXCEPT !.pc = "load"] ELSE NoTask
  <2>1. CASE v.underlay
    <3>1. /\ mailbox' = [mail EXCEPT !.load = [gen |-> gen, model |-> model]]
          /\ slot' = [gen |-> gen, frame |-> FALSE, notified |-> FALSE]
          /\ cpu' = NoTask
      BY <2>1 DEF Loads
    <3> HIDE DEF gen
    <3>2. [gen |-> gen, model |-> model] \in LoadRequests
      BY <1>1 DEF LoadRequests
    <3>3. [gen |-> gen, model |-> model] # NoLoad
      BY <1>1, NewThings
    <3> QED
      BY <1>1, <2>1, <3>1, <3>2, <3>3, NewThings DEF Mailboxes, Slots
  <2>2. CASE ~v.underlay
    <3>1. /\ mailbox' = mail /\ slot' = cell
          /\ cpu' = IF model THEN [NoTask EXCEPT !.pc = "load"] ELSE NoTask
      BY <2>2 DEF Loads
    <3>2. [NoTask EXCEPT !.pc = "load"] \in Tasks
      BY NewThings DEF Tasks, TaskPlaces
    <3> QED
      BY <2>2, <3>1, <3>2, NewThings
  <2> QED
    BY <2>1, <2>2
<1>7. /\ cpu'.pc = IF model /\ ~v.underlay THEN "load" ELSE "none"
      /\ ~cpu'.closed
  <2>1. NoTask.pc = "none" /\ ~NoTask.closed /\ NoTask \in Tasks
    BY NewThings
  <2>2. [NoTask EXCEPT !.pc = "load"].pc = "load" /\ ~[NoTask EXCEPT !.pc = "load"].closed
    BY <2>1 DEF Tasks
  <2> QED
    BY <1>6, <2>1, <2>2
<1> HIDE DEF gen, x
<1>8. \A types : ~Told(c, types, gen)
  <2>1. ASSUME NEW i \in 1..Len(c.events) PROVE c.events[i].gen # gen
    <3>1. c.events \in Seq(Events)
      BY DEF Channels
    <3>2. c.events[i] \in Events
      BY <3>1, ElementOfSeq
    <3>3. c.events[i].gen \in Nat /\ c.events[i].gen <= v.generation
      BY <3>2 DEF Events
    <3> QED
      BY <1>1, <3>3 DEF gen
  <2> QED
    BY <2>1 DEF Told
<1>9. Typed(view', w, mailbox', c, slot', cpu')
  BY <1>5, <1>6 DEF Typed
<1>10. Surface(view', w, mailbox', c, cpu')
  <2>1. Surface(x, w, mail, c, NoTask)
    BY DEF x
  <2> QED
    BY <1>3, <1>4, <1>6, <1>7, <2>1 DEF Surface, Running
<1>11. Generations(view', w, mailbox', c)
  <2>1. ASSUME NEW i \in 1..Len(c.events) PROVE c.events[i].gen <= gen
    <3>1. c.events \in Seq(Events)
      BY DEF Channels
    <3>2. c.events[i] \in Events
      BY <3>1, ElementOfSeq
    <3>3. c.events[i].gen \in Nat /\ c.events[i].gen <= v.generation
      BY <3>2 DEF Events
    <3> QED
      BY <1>1, <3>3 DEF gen
  <2>2. ~v.underlay => mail.load = NoLoad
    BY <1>3 DEF Surface, x
  <2> QED
    BY <1>1, <1>4, <1>6, <2>1, <2>2 DEF Generations
<1>12. Models(view', w, c) /\ Announcements(view', w, c)
  BY <1>1, <1>4, <1>8 DEF Models, Announcements
<1>13. Frames(view', w, c, slot')
  BY <1>4, <1>6 DEF Frames, Surface
<1>14. Inputs(view', w, mailbox', cpu') /\ Fallback(view', cpu')
  BY <1>4, <1>7 DEF Inputs, Fallback
<1> QED
  BY <1>9, <1>10, <1>11, <1>12, <1>13, <1>14 DEF Good, Rules

\* The worker is asked to stop, for a view v that the handler has changed.
LEMMA StopsGood ==
    ASSUME RendererAssumption, IInv, view.underlay, NEW v \in Views, NEW load \in LoadRequests, Stops(v, load),
           v.generation = view.generation, v.model = view.model, v.state = view.state,
           ~v.gone, v.quit = "no",
           v.frame # 0 => v.frame = v.generation /\ v.visible,
           v.restore => v.released,
           v.closing \/ (load.gen = v.generation /\ load.model = v.model /\ v.restart),
           NEW t \in Tasks, t.pc = "none", ~t.closed
    PROVE  Good(view', worker, mailbox', channel', slot, t)
<1>1. /\ view' = [v EXCEPT !.underlay = FALSE, !.listening = FALSE, !.cancelled = TRUE,
                           !.pending = TRUE, !.stopped = load]
      /\ channel' = [events |-> <<>>, closed |-> TRUE]
      /\ mailbox' = [load |-> NoLoad, wake |-> TRUE, shutdown |-> TRUE]
  BY DEF Stops
<1>2. /\ view' \in Views
      /\ view'.generation = v.generation /\ view'.model = v.model /\ view'.state = v.state
      /\ view'.frame = v.frame /\ view'.visible = v.visible /\ ~view'.underlay /\ ~view'.listening
      /\ view'.pending /\ view'.stopped = load /\ view'.restart = v.restart
      /\ view'.released = v.released /\ view'.restore = v.restore /\ view'.closing = v.closing
      /\ view'.gone = v.gone /\ view'.quit = v.quit
  BY <1>1 DEF Views
<1>3. channel' \in Channels /\ channel'.events = <<>> /\ channel'.closed /\ Len(channel'.events) = 0
  <2>1. <<>> \in Seq(Events)
    BY EmptySeq
  <2> QED
    BY <1>1, <2>1 DEF Channels
<1>4. mailbox' \in Mailboxes /\ mailbox'.load = NoLoad
  BY <1>1, NewThings DEF Mailboxes
<1>5. \A types, gen : ~Told(channel', types, gen)
  BY <1>3 DEF Told
<1>6. Typed(view', worker, mailbox', channel', slot, t)
  <2>1. 0 <= Capacity
    <3>1. Len(channel.events) \in Nat /\ Len(channel.events) <= Capacity /\ Capacity \in Nat
      BY DEF IInv, Good, Typed, Channels, RendererAssumption
    <3> QED
      BY <3>1
  <2> QED
    BY <1>2, <1>3, <1>4, <2>1 DEF IInv, Good, Typed
<1>7. Surface(view', worker, mailbox', channel', t)
  BY <1>2, <1>3, <1>4 DEF IInv, Good, Rules, Surface, Running
<1>8. Generations(view', worker, mailbox', channel')
  BY <1>2, <1>3, <1>4 DEF IInv, Good, Rules, Generations
<1>9. Models(view', worker, channel') /\ Announcements(view', worker, channel')
  BY <1>2, <1>5 DEF IInv, Good, Rules, Models, Announcements
<1>10. Frames(view', worker, channel', slot)
  BY <1>2, <1>3 DEF IInv, Good, Rules, Frames
<1>11. Inputs(view', worker, mailbox', t)
  BY <1>2 DEF Inputs
<1>12. Fallback(view', t)
  BY <1>2 DEF IInv, Good, Rules, Fallback, Models
<1> QED
  BY <1>6, <1>7, <1>8, <1>9, <1>10, <1>11, <1>12 DEF IInv, Good, Rules

\* The last worker has ended: a new one is started, or the CPU draws.
LEMMA RestoresGood ==
    ASSUME RendererAssumption, IInv, NEW v \in Views, NEW ok \in BOOLEAN, NEW task \in Tasks,
           Restores(v, ok, task),
           v.generation = view.generation, v.model = view.model, v.state = view.state,
           v.cancelled = view.cancelled, v.listening = view.listening, v.input => view.input,
           ~view.underlay, Running(view), ~view.closing, worker.pc = "done",
           ~v.underlay, ~v.pending, Running(v), ~v.closing,
           v.frame # 0 => v.frame = v.generation /\ v.visible,
           task.pc = cpu.pc, task.closed = cpu.closed,
           cpu.wake => task.wake, cpu.needs => task.needs,
           (task.pc = "hidden" /\ v.visible) => task.rate \/ task.closed
    PROVE  IInv'
<1> DEFINE visible == [v EXCEPT !.restart = FALSE, !.restore = FALSE, !.released = FALSE]
           restored == [visible EXCEPT !.underlay = TRUE, !.listening = TRUE]
<1>1. /\ worker \in Workers /\ mailbox \in Mailboxes /\ channel \in Channels /\ slot \in Slots
      /\ view \in Views /\ cpu \in Tasks /\ Len(channel.events) <= Capacity
      /\ 0 <= Capacity /\ view.generation \in Nat
  BY ViewFields DEF IInv, Good, Typed, RendererAssumption
<1>2. /\ visible \in Views
      /\ visible.generation = v.generation /\ visible.model = v.model /\ visible.state = v.state
      /\ visible.frame = v.frame /\ visible.cancelled = v.cancelled /\ visible.input = v.input
      /\ visible.visible = v.visible /\ ~visible.underlay /\ visible.listening = v.listening
      /\ ~visible.pending /\ ~visible.restart /\ ~visible.released /\ ~visible.restore
      /\ ~visible.closing /\ ~visible.gone /\ visible.quit = "no"
  BY DEF Views, Running
<1>3. ~v.listening /\ ~view.listening
  BY DEF IInv, Good, Rules, Surface
<1>4. CASE ok
  <2>1. /\ worker' = NewWorker /\ channel' = NewChannel
        /\ Loads(restored, v.model, NewMailbox, NewSlot)
    BY <1>4 DEF Restores
  <2>2. restored \in Views /\ restored.generation = view.generation
    BY <1>2 DEF Views
  <2>3. Surface([restored EXCEPT !.cancelled = FALSE], NewWorker, NewMailbox, NewChannel, NoTask)
    <3> DEFINE x == [restored EXCEPT !.cancelled = FALSE]
    <3>1. /\ x.underlay /\ ~x.pending /\ x.listening /\ ~x.cancelled /\ ~x.released
          /\ ~x.closing /\ ~x.gone /\ x.quit = "no" /\ ~x.restore
      BY <1>2 DEF Views
    <3> HIDE DEF x
    <3>2. ~NewMailbox.shutdown /\ ~NewChannel.closed /\ NoTask.pc = "none"
      BY NewThings
    <3>3. Surface(x, NewWorker, NewMailbox, NewChannel, NoTask)
      BY <3>1, <3>2 DEF Surface
    <3> QED
      BY <3>3 DEF x
  <2>4. Len(NewChannel.events) = 0 /\ Len(NewChannel.events) <= Capacity
    BY <1>1, NewThings
  <2>5. \A i \in 1..Len(NewChannel.events) : NewChannel.events[i].gen <= restored.generation
    BY <2>4
  <2>6. Sending(NewWorker) /\ NewWorker.gen <= restored.generation /\ NewWorker \in Workers
    BY <1>1, <2>2, NewWorkerIs DEF Sending
  <2>7. Frames(view, NewWorker, NewChannel, NewSlot)
    BY NewThings, NewWorkerIs DEF IInv, Good, Rules, Frames, Drawing
  <2>8. v.model \in BOOLEAN
    BY ViewFields
  <2> HIDE DEF restored
  <2>9. Good(view', NewWorker, mailbox', NewChannel, slot', cpu')
    BY <2>1, <2>2, <2>3, <2>4, <2>5, <2>6, <2>7, <2>8, NewThings, LoadsGood
  <2> QED
    BY <2>1, <2>9 DEF IInv
<1>5. CASE ~ok /\ cpu.pc = "none" /\ v.model
  <2>1. Loads(visible, TRUE, mailbox, slot) /\ UNCHANGED <<worker, channel>>
    BY <1>5 DEF Restores
  <2>2. Surface([visible EXCEPT !.cancelled = FALSE], worker, mailbox, channel, NoTask)
    <3> DEFINE x == [visible EXCEPT !.cancelled = FALSE]
    <3>1. /\ ~x.underlay /\ ~x.listening /\ ~x.closing /\ ~x.gone /\ x.quit = "no" /\ ~x.restore
      BY <1>2, <1>3 DEF Views
    <3> HIDE DEF x
    <3> QED
      BY <3>1 DEF IInv, Good, Rules, Surface
  <2>3. /\ worker.gen <= visible.generation /\ Sending(worker) /\ Frames(view, worker, channel, slot)
        /\ \A i \in 1..Len(channel.events) : channel.events[i].gen <= visible.generation
    BY <1>2 DEF IInv, Good, Rules, Generations
  <2> HIDE DEF visible
  <2>4. Good(view', worker, mailbox', channel, slot', cpu')
    BY <1>1, <1>2, <2>1, <2>2, <2>3, LoadsGood
  <2> QED
    BY <2>1, <2>4 DEF IInv
<1>6. CASE ~ok /\ ~(cpu.pc = "none" /\ v.model)
  <2>1. view' = visible /\ cpu' = task /\ UNCHANGED <<worker, channel, mailbox, slot>>
    BY <1>6 DEF Restores
  <2> HIDE DEF visible
  <2>2. Typed(visible, worker, mailbox, channel, slot, task)
    BY <1>2 DEF IInv, Good, Typed
  <2>3. Surface(visible, worker, mailbox, channel, task)
    BY <1>2, <1>3 DEF IInv, Good, Rules, Surface, Running
  <2>4. Generations(visible, worker, mailbox, channel)
    BY <1>2 DEF IInv, Good, Rules, Generations, Surface
  <2>5. Models(visible, worker, channel) /\ Announcements(visible, worker, channel)
    BY <1>2 DEF IInv, Good, Rules, Models, Announcements
  <2>6. Frames(visible, worker, channel, slot)
    BY <1>2 DEF IInv, Good, Rules, Frames
  <2>7. Inputs(visible, worker, mailbox, task)
    BY <1>2 DEF IInv, Good, Rules, Inputs
  <2>8. Fallback(visible, task)
    BY <1>2, <1>6 DEF IInv, Good, Rules, Fallback, Models, Running
  <2>9. Good(visible, worker, mailbox, channel, slot, task)
    BY <2>2, <2>3, <2>4, <2>5, <2>6, <2>7, <2>8 DEF IInv, Good, Rules
  <2> QED
    BY <2>1, <2>9 DEF IInv
<1> QED
  BY <1>4, <1>5, <1>6

-----------------------------------------------------------------------------
(* The window.                                                             *)

LEMMA UserLoadsKeeps ==
    ASSUME IInv, NEW model \in BOOLEAN, UserLoads(model)
    PROVE  IInv'
<1>1. /\ Loads(view, model, mailbox, slot) /\ UNCHANGED <<worker, channel>>
      /\ view \in Views /\ worker \in Workers /\ mailbox \in Mailboxes /\ channel \in Channels
      /\ slot \in Slots /\ Len(channel.events) <= Capacity
  BY DEF UserLoads, IInv, Good, Typed
<1>2. Surface([view EXCEPT !.cancelled = FALSE], worker, mailbox, channel, NoTask)
  <2> DEFINE x == [view EXCEPT !.cancelled = FALSE]
  <2>1. /\ x.underlay = view.underlay /\ x.pending = view.pending /\ x.listening = view.listening
        /\ ~x.cancelled /\ x.released = view.released /\ x.closing = view.closing
        /\ x.gone = view.gone /\ x.quit = view.quit /\ x.restore = view.restore
    BY <1>1 DEF Views
  <2> HIDE DEF x
  <2> QED
    BY <2>1, NewThings DEF IInv, Good, Rules, Surface, Running
<1>3. /\ worker.gen <= view.generation /\ Sending(worker) /\ Frames(view, worker, channel, slot)
      /\ \A i \in 1..Len(channel.events) : channel.events[i].gen <= view.generation
  BY DEF IInv, Good, Rules, Generations
<1>4. Good(view', worker, mailbox', channel, slot', cpu')
  BY <1>1, <1>2, <1>3, LoadsGood
<1> QED
  BY <1>1, <1>4 DEF IInv

\* Input leaves a wake-up with the renderer there is.
LEMMA UserActsKeeps ==
    ASSUME IInv, UserActs
    PROVE  IInv'
<1>1. /\ view \in Views /\ mailbox \in Mailboxes /\ cpu \in Tasks
      /\ view' = [view EXCEPT !.input = TRUE] /\ UNCHANGED <<worker, channel, slot>>
      /\ mailbox' = IF view.underlay THEN [mailbox EXCEPT !.wake = TRUE] ELSE mailbox
      /\ cpu' = IF view.underlay THEN cpu ELSE [cpu EXCEPT !.wake = TRUE]
  BY DEF UserActs, IInv, Good, Typed
<1>2. /\ view' \in Views
      /\ view'.generation = view.generation /\ view'.model = view.model /\ view'.state = view.state
      /\ view'.frame = view.frame /\ view'.cancelled = view.cancelled /\ view'.visible = view.visible
      /\ view'.underlay = view.underlay /\ view'.listening = view.listening
      /\ view'.pending = view.pending /\ view'.stopped = view.stopped
      /\ view'.restart = view.restart /\ view'.released = view.released
      /\ view'.restore = view.restore /\ view'.closing = view.closing /\ view'.gone = view.gone
      /\ view'.quit = view.quit
  BY <1>1 DEF Views
<1>3. /\ mailbox' \in Mailboxes /\ mailbox'.load = mailbox.load
      /\ mailbox'.shutdown = mailbox.shutdown /\ (mailbox.wake => mailbox'.wake)
      /\ view.underlay => mailbox'.wake
  BY <1>1 DEF Mailboxes
<1>4. /\ cpu' \in Tasks /\ cpu'.pc = cpu.pc /\ cpu'.closed = cpu.closed
      /\ cpu'.needs = cpu.needs /\ cpu'.rate = cpu.rate
      /\ ~view.underlay => cpu'.wake
  BY <1>1 DEF Tasks
<1>5. Typed(view', worker', mailbox', channel', slot', cpu')
  BY <1>1, <1>2, <1>3, <1>4 DEF IInv, Good, Typed
<1>6. Surface(view', worker', mailbox', channel', cpu') /\ Generations(view', worker', mailbox', channel')
  BY <1>1, <1>2, <1>3, <1>4 DEF IInv, Good, Rules, Surface, Generations, Running
<1>7. /\ Sending(worker') /\ Models(view', worker', channel') /\ Announcements(view', worker', channel')
      /\ Frames(view', worker', channel', slot')
  BY <1>1, <1>2 DEF IInv, Good, Rules, Models, Announcements, Frames
<1>8. Inputs(view', worker', mailbox', cpu') /\ Fallback(view', cpu')
  BY <1>1, <1>2, <1>3, <1>4 DEF IInv, Good, Rules, Inputs, Fallback, Running
<1> QED
  BY <1>5, <1>6, <1>7, <1>8 DEF IInv, Good, Rules

\* A wake-up more, and what a task of the CPU is told, disturb nothing.
LEMMA WakesKeeps ==
    ASSUME IInv, UNCHANGED <<view, worker, channel, slot>>,
           mailbox' \in Mailboxes, mailbox'.load = mailbox.load,
           mailbox'.shutdown = mailbox.shutdown, mailbox.wake => mailbox'.wake,
           cpu' \in Tasks, cpu'.pc = cpu.pc, cpu'.closed = cpu.closed,
           cpu.needs => cpu'.needs, cpu.wake => cpu'.wake, cpu.rate => cpu'.rate
    PROVE  IInv'
<1>1. Typed(view, worker, mailbox', channel, slot, cpu')
  BY DEF IInv, Good, Typed
<1>2. Surface(view, worker, mailbox', channel, cpu') /\ Generations(view, worker, mailbox', channel)
  BY DEF IInv, Good, Rules, Surface, Generations
<1>3. Inputs(view, worker, mailbox', cpu') /\ Fallback(view, cpu')
  BY DEF IInv, Good, Rules, Inputs, Fallback
<1> QED
  BY <1>1, <1>2, <1>3 DEF IInv, Good, Rules

LEMMA UserSetsRateKeeps ==
    ASSUME IInv, UserSetsRate
    PROVE  IInv'
<1>1. /\ mailbox \in Mailboxes /\ cpu \in Tasks /\ UNCHANGED <<view, worker, channel, slot>>
      /\ mailbox' = IF view.underlay THEN [mailbox EXCEPT !.wake = TRUE] ELSE mailbox
      /\ cpu' = IF view.underlay THEN cpu ELSE [cpu EXCEPT !.rate = TRUE]
  BY DEF UserSetsRate, IInv, Good, Typed
<1>2. /\ mailbox' \in Mailboxes /\ mailbox'.load = mailbox.load
      /\ mailbox'.shutdown = mailbox.shutdown /\ (mailbox.wake => mailbox'.wake)
  BY <1>1 DEF Mailboxes
<1>3. /\ cpu' \in Tasks /\ cpu'.pc = cpu.pc /\ cpu'.closed = cpu.closed
      /\ cpu'.needs = cpu.needs /\ cpu'.wake = cpu.wake /\ (cpu.rate => cpu'.rate)
  BY <1>1 DEF Tasks
<1> QED
  BY <1>1, <1>2, <1>3, WakesKeeps

LEMMA TaskWoken ==
    ASSUME NEW wake \in BOOLEAN, cpu \in Tasks
    PROVE  /\ WokenTask(wake) \in Tasks /\ WokenTask(wake).pc = cpu.pc
           /\ WokenTask(wake).closed = cpu.closed /\ WokenTask(wake).needs = cpu.needs
           /\ cpu.wake => WokenTask(wake).wake
           /\ cpu.rate => WokenTask(wake).rate
           /\ (cpu.pc = "hidden" /\ ~cpu.closed) => WokenTask(wake).rate
<1> DEFINE rate == cpu.rate \/ Listens
           woken == cpu.wake \/ (wake /\ Listens)
           toggled == cpu.pc # "none"
<1>1. rate \in BOOLEAN /\ woken \in BOOLEAN /\ toggled \in BOOLEAN
  OBVIOUS
<1>2. /\ cpu.rate => rate
      /\ cpu.wake => woken
      /\ (cpu.pc = "hidden" /\ ~cpu.closed) => rate
  BY DEF Listens
<1>3. WokenTask(wake) = [cpu EXCEPT !.rate = rate, !.wake = woken, !.toggled = toggled]
  BY DEF WokenTask
<1> HIDE DEF rate, woken, toggled
<1> QED
  BY <1>1, <1>2, <1>3 DEF Tasks

\* Hidden, the pet gives the GPU back; while that is still under way it is
\* remembered that the model has to be drawn again.
LEMMA HideKeeps ==
    ASSUME RendererAssumption, IInv, Hide
    PROVE  IInv'
<1> DEFINE hidden == [view EXCEPT !.visible = FALSE, !.frame = 0, !.restore = FALSE,
                                  !.restart = @ \/ (view.pending /\ view.released)]
           given == [hidden EXCEPT !.released = TRUE, !.restart = TRUE]
           load == [gen |-> view.generation, model |-> view.model]
<1>1. /\ view \in Views /\ cpu \in Tasks /\ cpu' = WokenTask(FALSE) /\ UNCHANGED <<worker, slot>>
      /\ Running(view)
      /\ IF view.underlay THEN Stops(given, load) ELSE view' = hidden /\ UNCHANGED <<channel, mailbox>>
  BY DEF Hide, Toggles, Runs, Running, IInv, Good, Typed
<1>2. /\ cpu' \in Tasks /\ cpu'.pc = cpu.pc /\ cpu'.closed = cpu.closed /\ cpu'.needs = cpu.needs
      /\ cpu.wake => cpu'.wake
  BY <1>1, TaskWoken
<1>3. /\ hidden \in Views
      /\ hidden.generation = view.generation /\ hidden.model = view.model
      /\ hidden.state = view.state /\ hidden.frame = 0 /\ hidden.cancelled = view.cancelled
      /\ hidden.input = view.input /\ hidden.visible = FALSE /\ hidden.underlay = view.underlay
      /\ hidden.listening = view.listening /\ hidden.pending = view.pending
      /\ hidden.stopped = view.stopped /\ hidden.released = view.released
      /\ hidden.restart = (view.restart \/ (view.pending /\ view.released))
      /\ hidden.restore = FALSE /\ hidden.closing = view.closing /\ hidden.gone = view.gone
      /\ hidden.quit = view.quit
  <2>1. (view.restart \/ (view.pending /\ view.released)) \in BOOLEAN
    OBVIOUS
  <2> QED
    BY <1>1, <2>1 DEF Views
<1> HIDE DEF hidden
<1>4. CASE view.underlay
  <2>1. /\ given \in Views /\ given.generation = view.generation /\ given.model = view.model
        /\ given.state = view.state /\ given.frame = 0 /\ given.restore = FALSE
        /\ given.gone = view.gone /\ given.quit = view.quit /\ given.restart
    BY <1>3 DEF Views
  <2>2. load \in LoadRequests /\ load.gen = view.generation /\ load.model = view.model
    BY <1>1, ViewFields DEF LoadRequests
  <2>3. Stops(given, load)
    BY <1>1, <1>4
  <2>4. ~cpu'.closed /\ cpu'.pc = "none" /\ ~given.gone /\ given.quit = "no"
    BY <1>2, <1>4, <2>1 DEF IInv, Good, Rules, Surface, Fallback
  <2> HIDE DEF given, load
  <2>5. Good(view', worker, mailbox', channel', slot, cpu')
    BY <1>2, <1>4, <2>1, <2>2, <2>3, <2>4, StopsGood
  <2> QED
    BY <1>1, <2>5 DEF IInv
<1>5. CASE ~view.underlay
  <2>1. view' = hidden /\ UNCHANGED <<worker, slot, channel, mailbox>>
    BY <1>1, <1>5
  <2>2. Typed(hidden, worker, mailbox, channel, slot, cpu')
    BY <1>2, <1>3 DEF IInv, Good, Typed
  <2>3. Surface(hidden, worker, mailbox, channel, cpu') /\ Generations(hidden, worker, mailbox, channel)
    BY <1>3, <1>5 DEF IInv, Good, Rules, Surface, Generations, Running
  <2>4. /\ Models(hidden, worker, channel) /\ Announcements(hidden, worker, channel)
        /\ Frames(hidden, worker, channel, slot)
    BY <1>3 DEF IInv, Good, Rules, Models, Announcements, Frames
  <2>5. Inputs(hidden, worker, mailbox, cpu')
    BY <1>2, <1>3, <1>5 DEF IInv, Good, Rules, Inputs
  <2>6. Fallback(hidden, cpu')
    BY <1>2, <1>3, <1>5 DEF IInv, Good, Rules, Fallback, Surface, Running
  <2>7. Good(hidden, worker, mailbox, channel, slot, cpu')
    BY <2>2, <2>3, <2>4, <2>5, <2>6 DEF IInv, Good, Rules
  <2> QED
    BY <2>1, <2>7 DEF IInv
<1> QED
  BY <1>4, <1>5

\* Shown while the worker stops, the pet waits for it before it starts another.
LEMMA ShowKeeps ==
    ASSUME RendererAssumption, IInv, NEW ok \in BOOLEAN, Show(ok)
    PROVE  IInv'
<1> DEFINE shown == [view EXCEPT !.visible = TRUE]
           waits == [shown EXCEPT !.restore = TRUE, !.restart = FALSE]
<1>1. /\ view \in Views /\ mailbox \in Mailboxes /\ cpu \in Tasks /\ Running(view) /\ view.visible = FALSE
  <2>1. view \in Views /\ mailbox \in Mailboxes /\ cpu \in Tasks
    BY DEF IInv, Good, Typed
  <2> QED
    BY <2>1, ViewFields DEF Show, Toggles, Runs, Running
<1>2. PICK task \in Tasks :
          /\ task = WokenTask(TRUE)
          /\ task.pc = cpu.pc /\ task.closed = cpu.closed /\ task.needs = cpu.needs
          /\ (cpu.wake => task.wake) /\ (cpu.rate => task.rate)
          /\ (cpu.pc = "hidden" /\ ~cpu.closed) => task.rate
  BY <1>1, TaskWoken
<1>3. /\ shown \in Views
      /\ shown.generation = view.generation /\ shown.model = view.model
      /\ shown.state = view.state /\ shown.frame = view.frame /\ shown.cancelled = view.cancelled
      /\ shown.input = view.input /\ shown.visible = TRUE /\ shown.underlay = view.underlay
      /\ shown.listening = view.listening /\ shown.pending = view.pending
      /\ shown.stopped = view.stopped /\ shown.released = view.released
      /\ shown.restart = view.restart /\ shown.restore = view.restore
      /\ shown.closing = view.closing /\ shown.gone = view.gone /\ shown.quit = view.quit
  BY <1>1 DEF Views
<1>4. view.frame = 0
  BY <1>1 DEF IInv, Good, Rules, Frames
<1> HIDE DEF shown
<1>5. CASE view.released /\ ~view.pending
  <2>1. Restores(shown, ok, task)
    BY <1>2, <1>5 DEF Show, shown
  <2>2. ~view.underlay /\ ~view.closing /\ worker.pc = "done"
    BY <1>1, <1>5 DEF IInv, Good, Rules, Surface, Running
  <2>3. Running(shown) /\ ~shown.underlay /\ ~shown.pending /\ ~shown.closing
    BY <1>1, <1>3, <1>5, <2>2 DEF Running
  <2>4. /\ shown.frame # 0 => shown.frame = shown.generation /\ shown.visible
        /\ shown.input => view.input
        /\ (task.pc = "hidden" /\ shown.visible) => task.rate \/ task.closed
        /\ cpu.needs => task.needs
    BY <1>2, <1>3, <1>4
  <2> QED
    BY <1>1, <1>2, <1>3, <2>1, <2>2, <2>3, <2>4, RestoresGood
<1>6. CASE ~(view.released /\ ~view.pending)
  <2> DEFINE v == IF view.released THEN waits ELSE shown
  <2>1. /\ view' = v /\ cpu' = task /\ UNCHANGED <<worker, channel, slot>>
        /\ mailbox' = IF view.underlay THEN [mailbox EXCEPT !.wake = TRUE] ELSE mailbox
    BY <1>2, <1>6 DEF Show, shown
  <2>2. /\ mailbox' \in Mailboxes /\ mailbox'.load = mailbox.load
        /\ mailbox'.shutdown = mailbox.shutdown /\ (mailbox.wake => mailbox'.wake)
    BY <1>1, <2>1 DEF Mailboxes
  <2>3. /\ v \in Views
        /\ v.generation = view.generation /\ v.model = view.model
        /\ v.state = view.state /\ v.frame = view.frame /\ v.cancelled = view.cancelled
        /\ v.input = view.input /\ v.visible = TRUE /\ v.underlay = view.underlay
        /\ v.listening = view.listening /\ v.pending = view.pending
        /\ v.stopped = view.stopped /\ v.released = view.released
        /\ v.closing = view.closing /\ v.gone = view.gone /\ v.quit = view.quit
        /\ view.released => v.restore
        /\ ~view.released => v.restart = view.restart /\ v.restore = view.restore
    <3>1. CASE view.released
      <4>1. v = waits
        BY <3>1
      <4>2. /\ waits \in Views
            /\ waits.generation = view.generation /\ waits.model = view.model
            /\ waits.state = view.state /\ waits.frame = view.frame
            /\ waits.cancelled = view.cancelled /\ waits.input = view.input
            /\ waits.visible = TRUE /\ waits.underlay = view.underlay
            /\ waits.listening = view.listening /\ waits.pending = view.pending
            /\ waits.stopped = view.stopped /\ waits.released = view.released
            /\ waits.closing = view.closing /\ waits.gone = view.gone
            /\ waits.quit = view.quit /\ waits.restore
        BY <1>3 DEF Views
      <4> HIDE DEF v, waits
      <4> QED
        BY <3>1, <4>1, <4>2
    <3>2. CASE ~view.released
      <4>1. v = shown
        BY <3>2
      <4> HIDE DEF v, waits
      <4> QED
        BY <1>3, <3>2, <4>1
    <3> QED
      BY <3>1, <3>2
  <2> HIDE DEF v
  <2>4. Typed(v, worker, mailbox', channel, slot, task)
    BY <1>2, <2>2, <2>3 DEF IInv, Good, Typed
  <2>5. Surface(v, worker, mailbox', channel, task) /\ Generations(v, worker, mailbox', channel)
    <3>1. Surface(v, worker, mailbox', channel, task)
      BY <1>2, <2>2, <2>3 DEF IInv, Good, Rules, Surface, Running
    <3>2. Generations(v, worker, mailbox', channel)
      BY <1>2, <2>2, <2>3 DEF IInv, Good, Rules, Generations
    <3> QED
      BY <3>1, <3>2
  <2>6. /\ Models(v, worker, channel) /\ Announcements(v, worker, channel)
        /\ Frames(v, worker, channel, slot)
    BY <1>4, <2>3 DEF IInv, Good, Rules, Models, Announcements, Frames
  <2>7. Inputs(v, worker, mailbox', task)
    BY <1>2, <2>2, <2>3 DEF IInv, Good, Rules, Inputs
  <2>8. Fallback(v, task)
    BY <1>2, <1>6, <2>3 DEF IInv, Good, Rules, Fallback, Running
  <2>9. Good(v, worker, mailbox', channel, slot, task)
    BY <2>4, <2>5, <2>6, <2>7, <2>8 DEF IInv, Good, Rules
  <2> QED
    BY <2>1, <2>9 DEF IInv
<1> QED
  BY <1>5, <1>6

\* The worker has ended: the window goes, the GPU is tried again, or the model
\* that was being drawn is drawn by the CPU.
LEMMA StoppedKeeps ==
    ASSUME RendererAssumption, IInv, NEW ok \in BOOLEAN, Stopped(ok)
    PROVE  IInv'
<1> DEFINE over == [view EXCEPT !.pending = FALSE, !.stopped = NoLoad]
<1>1. /\ view \in Views /\ worker \in Workers /\ mailbox \in Mailboxes /\ channel \in Channels
      /\ slot \in Slots /\ cpu \in Tasks /\ Len(channel.events) <= Capacity
      /\ Running(view) /\ view.pending /\ worker.pc = "done"
  BY DEF Stopped, Runs, Running, At, IInv, Good, Typed
<1>2. ~view.underlay /\ ~view.listening
  BY <1>1 DEF IInv, Good, Rules, Surface
<1>3. /\ over \in Views
      /\ over.generation = view.generation /\ over.model = view.model
      /\ over.state = view.state /\ over.frame = view.frame /\ over.cancelled = view.cancelled
      /\ over.input = view.input /\ over.visible = view.visible /\ over.underlay = view.underlay
      /\ over.listening = view.listening /\ ~over.pending
      /\ over.released = view.released /\ over.restart = view.restart /\ over.restore = view.restore
      /\ over.closing = view.closing /\ over.gone = view.gone /\ over.quit = view.quit
  BY <1>1, NewThings DEF Views
<1> HIDE DEF over
<1>4. ASSUME NEW v \in Views, v.generation = view.generation, v.model = view.model,
             v.state = view.state, v.frame = view.frame, v.visible = view.visible,
             v.cancelled = view.cancelled, v.input = view.input,
             ~v.underlay, ~v.listening, ~v.pending, v.released = view.released,
             v.restore = view.restore, v.closing = view.closing, v.quit = "no",
             v.closing <=> v.gone,
             v.closing \/ ~(v.state \in {"loading", "ready"} /\ cpu.pc = "none")
      PROVE  Good(v, worker, mailbox, channel, slot, cpu)
  <2>1. Typed(v, worker, mailbox, channel, slot, cpu)
    BY <1>4 DEF IInv, Good, Typed
  <2>2. Surface(v, worker, mailbox, channel, cpu)
    BY <1>1, <1>2, <1>4 DEF IInv, Good, Rules, Surface, Running
  <2>3. Generations(v, worker, mailbox, channel)
    BY <1>1, <1>2, <1>4 DEF IInv, Good, Rules, Generations
  <2>4. /\ Models(v, worker, channel) /\ Announcements(v, worker, channel)
        /\ Frames(v, worker, channel, slot)
    BY <1>2, <1>4 DEF IInv, Good, Rules, Models, Announcements, Frames
  <2>5. Inputs(v, worker, mailbox, cpu)
    BY <1>2, <1>4 DEF IInv, Good, Rules, Inputs
  <2>6. Fallback(v, cpu)
    BY <1>1, <1>4 DEF IInv, Good, Rules, Fallback, Running
  <2> QED
    BY <2>1, <2>2, <2>3, <2>4, <2>5, <2>6 DEF IInv, Good, Rules
<1>5. CASE /\ view.closing /\ view' = [over EXCEPT !.gone = TRUE]
           /\ UNCHANGED <<worker, mailbox, channel, slot, cpu>>
  <2>1. /\ view' \in Views
        /\ view'.generation = view.generation /\ view'.model = view.model
        /\ view'.state = view.state /\ view'.frame = view.frame /\ view'.visible = view.visible
        /\ view'.cancelled = view.cancelled /\ view'.input = view.input /\ ~view'.underlay
        /\ ~view'.listening /\ ~view'.pending /\ view'.released = view.released
        /\ view'.restore = view.restore /\ view'.closing = view.closing
        /\ view'.quit = view.quit /\ view'.gone
    BY <1>2, <1>3, <1>5 DEF Views
  <2>2. view.quit = "no"
    BY <1>1 DEF Running
  <2>3. PICK v \in Views : v = view'
    BY <2>1
  <2>4. Good(v, worker, mailbox, channel, slot, cpu)
    BY <1>4, <1>5, <2>1, <2>2, <2>3
  <2> QED
    BY <1>5, <2>3, <2>4 DEF IInv
<1>6. CASE /\ ~view.closing /\ view.restore /\ view.visible
           /\ Restores([over EXCEPT !.restore = FALSE], ok, cpu)
  <2> DEFINE v == [over EXCEPT !.restore = FALSE]
  <2>1. /\ v \in Views
        /\ v.generation = view.generation /\ v.model = view.model
        /\ v.state = view.state /\ v.frame = view.frame /\ v.visible = view.visible
        /\ v.cancelled = view.cancelled /\ v.input = view.input /\ ~v.underlay
        /\ v.listening = view.listening /\ ~v.pending /\ v.closing = view.closing
        /\ v.quit = view.quit /\ v.gone = view.gone
    BY <1>2, <1>3 DEF Views
  <2>2. Restores(v, ok, cpu)
    BY <1>6
  <2> HIDE DEF v
  <2>3. Running(v) /\ ~v.closing /\ ~view.closing
    BY <1>1, <1>6, <2>1 DEF Running
  <2>4. v.frame # 0 => v.frame = v.generation /\ v.visible
    BY <2>1 DEF IInv, Good, Rules, Frames
  <2>5. (cpu.pc = "hidden" /\ v.visible) => cpu.rate \/ cpu.closed
    BY <2>1 DEF IInv, Good, Rules, Inputs
  <2> QED
    BY <1>1, <1>2, <2>1, <2>2, <2>3, <2>4, <2>5, RestoresGood
<1>7. CASE /\ ~view.closing /\ ~(view.restore /\ view.visible)
           /\ view.restart /\ view.generation = view.stopped.gen
           /\ Loads(over, view.stopped.model, mailbox, slot)
           /\ UNCHANGED <<worker, channel>>
  <2>1. view.stopped.model \in BOOLEAN
    BY <1>1 DEF Views, LoadRequests
  <2>2. Surface([over EXCEPT !.cancelled = FALSE], worker, mailbox, channel, NoTask)
    <3> DEFINE x == [over EXCEPT !.cancelled = FALSE]
    <3>1. /\ ~x.underlay /\ ~x.listening /\ ~x.closing /\ x.gone = view.gone /\ x.quit = view.quit
          /\ x.restore = view.restore /\ x.released = view.released
      BY <1>2, <1>3, <1>7 DEF Views
    <3> HIDE DEF x
    <3>2. Surface(x, worker, mailbox, channel, NoTask)
      BY <1>1, <1>2, <3>1 DEF IInv, Good, Rules, Surface, Running
    <3> QED
      BY <3>2 DEF x
  <2>3. /\ worker.gen <= over.generation /\ Sending(worker) /\ Frames(view, worker, channel, slot)
        /\ \A i \in 1..Len(channel.events) : channel.events[i].gen <= over.generation
    BY <1>3 DEF IInv, Good, Rules, Generations
  <2>4. Good(view', worker, mailbox', channel, slot', cpu')
    BY <1>1, <1>3, <1>7, <2>1, <2>2, <2>3, LoadsGood
  <2> QED
    BY <1>7, <2>4 DEF IInv
<1>8. CASE /\ ~view.closing /\ ~(view.restore /\ view.visible)
           /\ ~(view.restart /\ view.generation = view.stopped.gen)
           /\ view' = over
           /\ UNCHANGED <<worker, mailbox, channel, slot, cpu>>
  <2>1. ~(view.state \in {"loading", "ready"} /\ cpu.pc = "none")
    BY <1>1, <1>2, <1>8 DEF IInv, Good, Rules, Fallback
  <2>2. over.quit = "no" /\ ~over.gone
    BY <1>1, <1>3 DEF Running
  <2>3. Good(over, worker, mailbox, channel, slot, cpu)
    BY <1>2, <1>3, <1>4, <1>8, <2>1, <2>2
  <2> QED
    BY <1>8, <2>3 DEF IInv
<1> QED
  BY <1>5, <1>6, <1>7, <1>8 DEF Stopped, over

LEMMA TaskClosed ==
    ASSUME cpu \in Tasks
    PROVE  /\ Closed(cpu) \in Tasks /\ Closed(cpu).pc = cpu.pc /\ Closed(cpu).wake = cpu.wake
           /\ Closed(cpu).rate = cpu.rate /\ Closed(cpu).needs = cpu.needs
           /\ cpu.closed => Closed(cpu).closed
           /\ cpu.pc = "none" => Closed(cpu) = cpu
<1>1. CASE cpu.pc \in {"none", "ended"}
  BY <1>1 DEF Closed
<1>2. CASE cpu.pc \notin {"none", "ended"}
  <2>1. Closed(cpu) = [cpu EXCEPT !.closed = TRUE]
    BY <1>2 DEF Closed
  <2> QED
    BY <1>2, <2>1 DEF Tasks
<1> QED
  BY <1>1, <1>2

\* A window without an underlay goes on with nothing but what it wants undone.
LEMMA WindowRests ==
    ASSUME IInv, ~view.underlay, UNCHANGED <<worker, mailbox, channel, slot>>,
           NEW v \in Views, NEW t \in Tasks,
           v.generation = view.generation, v.model = view.model, v.state = view.state,
           v.frame = view.frame, v.visible = view.visible, v.input = view.input,
           ~v.underlay, v.listening = view.listening, v.pending = view.pending,
           v.released = view.released, v.restore = view.restore,
           view.closing => v.closing, view.gone => v.gone,
           view.quit # "no" => v.quit # "no",
           v.closing => v.gone \/ v.pending,
           (v.gone \/ v.quit = "over") => worker.pc = "done",
           v.closing \/ v.gone \/ v.quit # "no",
           t.pc = cpu.pc, t.wake = cpu.wake, t.rate = cpu.rate, t.needs = cpu.needs,
           cpu.closed => t.closed,
           t.closed => v.closing \/ v.quit # "no"
    PROVE  Good(v, worker, mailbox, channel, slot, t)
<1>1. Typed(v, worker, mailbox, channel, slot, t)
  BY DEF IInv, Good, Typed
<1>2. Surface(v, worker, mailbox, channel, t) /\ Generations(v, worker, mailbox, channel)
  BY DEF IInv, Good, Rules, Surface, Generations, Running
<1>3. /\ Models(v, worker, channel) /\ Announcements(v, worker, channel)
      /\ Frames(v, worker, channel, slot)
  BY DEF IInv, Good, Rules, Models, Announcements, Frames
<1>4. Inputs(v, worker, mailbox, t)
  BY DEF IInv, Good, Rules, Inputs
<1>5. Fallback(v, t)
  BY DEF IInv, Good, Rules, Fallback, Running
<1> QED
  BY <1>1, <1>2, <1>3, <1>4, <1>5 DEF IInv, Good, Rules

LEMMA CloseKeeps ==
    ASSUME RendererAssumption, IInv, Close
    PROVE  IInv'
<1> DEFINE closing == [view EXCEPT !.restart = FALSE, !.closing = TRUE, !.cancelled = TRUE]
           load == [gen |-> view.generation, model |-> FALSE]
<1>1. /\ view \in Views /\ cpu \in Tasks /\ Running(view) /\ UNCHANGED <<worker, slot>>
      /\ cpu' = Closed(cpu) /\ worker \in Workers /\ view.pending \in BOOLEAN
  BY ViewFields DEF Close, Runs, Running, IInv, Good, Typed
<1>2. PICK t \in Tasks :
          /\ t = Closed(cpu) /\ t.pc = cpu.pc /\ t.wake = cpu.wake /\ t.rate = cpu.rate
          /\ t.needs = cpu.needs
          /\ cpu.closed => t.closed
          /\ cpu.pc = "none" => t = cpu
  BY <1>1, TaskClosed
<1>3. /\ closing \in Views
      /\ closing.generation = view.generation /\ closing.model = view.model
      /\ closing.state = view.state /\ closing.frame = view.frame /\ closing.visible = view.visible
      /\ closing.input = view.input /\ closing.underlay = view.underlay
      /\ closing.listening = view.listening /\ closing.pending = view.pending
      /\ closing.released = view.released /\ closing.restore = view.restore
      /\ closing.closing /\ closing.gone = view.gone /\ closing.quit = view.quit
  BY <1>1 DEF Views
<1> HIDE DEF closing
<1>4. CASE view.underlay
  <2>1. Stops(closing, load)
    BY <1>4 DEF Close, closing
  <2>2. load \in LoadRequests
    BY <1>1, ViewFields DEF LoadRequests
  <2>3. ~t.closed /\ t.pc = "none" /\ ~closing.gone /\ closing.quit = "no"
    BY <1>1, <1>2, <1>3, <1>4 DEF IInv, Good, Rules, Surface, Fallback, Running
  <2>4. /\ closing.frame # 0 => closing.frame = closing.generation /\ closing.visible
        /\ closing.restore => closing.released
    BY <1>3 DEF IInv, Good, Rules, Surface, Frames
  <2> HIDE DEF load
  <2>5. Good(view', worker, mailbox', channel', slot, t)
    BY <1>3, <1>4, <2>1, <2>2, <2>3, <2>4, StopsGood
  <2> QED
    BY <1>1, <1>2, <2>5 DEF IInv
<1>5. CASE ~view.underlay
  <2>1. view' = [closing EXCEPT !.gone = ~view.pending] /\ UNCHANGED <<channel, mailbox>>
    BY <1>5 DEF Close, closing
  <2>2. PICK v \in Views :
        /\ v = view'
        /\ v.generation = view.generation /\ v.model = view.model /\ v.state = view.state
        /\ v.frame = view.frame /\ v.visible = view.visible /\ v.input = view.input
        /\ ~v.underlay /\ v.listening = view.listening /\ v.pending = view.pending
        /\ v.released = view.released /\ v.restore = view.restore
        /\ v.closing /\ v.gone = ~view.pending /\ v.quit = view.quit
    BY <1>1, <1>3, <1>5, <2>1 DEF Views
  <2>3. ~view.pending => worker.pc = "done"
    BY <1>1, <1>5 DEF IInv, Good, Rules, Surface, Running
  <2>4. Good(v, worker, mailbox, channel, slot, t)
    BY <1>1, <1>2, <1>5, <2>1, <2>2, <2>3, WindowRests DEF Running
  <2> QED
    BY <1>1, <1>2, <2>1, <2>2, <2>4 DEF IInv
<1> QED
  BY <1>4, <1>5

LEMMA QuitKeeps ==
    ASSUME RendererAssumption, IInv, Quit
    PROVE  IInv'
<1>1. /\ view \in Views /\ cpu \in Tasks /\ Running(view) /\ UNCHANGED <<worker, slot>>
      /\ cpu' = IF view.pending THEN cpu ELSE Closed(cpu)
      /\ view' = [view EXCEPT !.quit = "waits", !.restart = FALSE, !.underlay = FALSE, !.cancelled = TRUE]
  BY DEF Quit, Runs, Running, IInv, Good, Typed
<1>2. /\ cpu' \in Tasks /\ cpu'.pc = cpu.pc /\ cpu'.wake = cpu.wake /\ cpu'.rate = cpu.rate
      /\ cpu'.needs = cpu.needs
      /\ cpu.closed => cpu'.closed
  BY <1>1, TaskClosed
<1>3. /\ view' \in Views
      /\ view'.generation = view.generation /\ view'.model = view.model /\ view'.state = view.state
      /\ view'.frame = view.frame /\ view'.visible = view.visible /\ view'.input = view.input
      /\ ~view'.underlay /\ view'.listening = view.listening /\ view'.pending = view.pending
      /\ view'.released = view.released /\ view'.restore = view.restore
      /\ view'.closing = view.closing /\ view'.gone = view.gone /\ view'.quit = "waits"
  BY <1>1 DEF Views
<1>4. /\ channel' \in Channels /\ mailbox' \in Mailboxes /\ Len(channel'.events) <= Capacity
      /\ mailbox'.load = NoLoad /\ channel'.events = <<>>
      /\ worker.pc = "done" \/ channel'.closed
  <2>1. CASE view.underlay
    <3>1. /\ channel' = [events |-> <<>>, closed |-> TRUE]
          /\ mailbox' = [load |-> NoLoad, wake |-> TRUE, shutdown |-> TRUE]
      BY <2>1 DEF Quit
    <3>2. <<>> \in Seq(Events) /\ Len(<<>>) <= Capacity
      BY EmptySeq DEF RendererAssumption
    <3> QED
      BY <3>1, <3>2, NewThings DEF Channels, Mailboxes
  <2>2. CASE ~view.underlay
    <3>1. UNCHANGED <<channel, mailbox>>
      BY <2>2 DEF Quit
    <3> QED
      BY <2>2, <3>1 DEF IInv, Good, Typed, Rules, Surface
  <2> QED
    BY <2>1, <2>2
<1>5. \A types, gen : ~Told(channel', types, gen)
  <2>1. Len(channel'.events) = 0
    BY <1>4
  <2> QED
    BY <2>1 DEF Told
<1>6. Typed(view', worker, mailbox', channel', slot, cpu')
  BY <1>2, <1>3, <1>4 DEF IInv, Good, Typed
<1>7. Surface(view', worker, mailbox', channel', cpu')
  BY <1>1, <1>3, <1>4 DEF IInv, Good, Rules, Surface, Running
<1>8. Generations(view', worker, mailbox', channel')
  BY <1>3, <1>4 DEF IInv, Good, Rules, Generations
<1>9. Models(view', worker, channel') /\ Announcements(view', worker, channel')
  BY <1>3, <1>5 DEF IInv, Good, Rules, Models, Announcements
<1>10. Frames(view', worker, channel', slot)
  BY <1>3, <1>4 DEF IInv, Good, Rules, Frames
<1>11. Inputs(view', worker, mailbox', cpu')
  <2>1. view.underlay => cpu'.pc = "none"
    BY <1>2 DEF IInv, Good, Rules, Surface
  <2> QED
    BY <1>2, <1>3, <2>1 DEF IInv, Good, Rules, Inputs
<1>12. Fallback(view', cpu')
  BY <1>2, <1>3 DEF IInv, Good, Rules, Fallback, Running
<1> QED
  BY <1>1, <1>6, <1>7, <1>8, <1>9, <1>10, <1>11, <1>12 DEF IInv, Good, Rules

LEMMA QuitWaitsKeeps ==
    ASSUME IInv, NEW late \in BOOLEAN, QuitWaits(late)
    PROVE  IInv'
<1>1. /\ view \in Views /\ cpu \in Tasks /\ view.quit = "waits"
      /\ UNCHANGED <<worker, mailbox, channel, slot, cpu>>
      /\ view' = [view EXCEPT !.quit = IF late THEN "late" ELSE "over"]
      /\ ~late => worker.pc = "done"
  BY DEF QuitWaits, At, IInv, Good, Typed
<1>2. ~view.underlay
  BY <1>1 DEF IInv, Good, Rules, Surface
<1>3. PICK v \in Views :
      /\ v = view'
      /\ v.generation = view.generation /\ v.model = view.model /\ v.state = view.state
      /\ v.frame = view.frame /\ v.visible = view.visible /\ v.input = view.input
      /\ v.underlay = view.underlay /\ v.listening = view.listening /\ v.pending = view.pending
      /\ v.released = view.released /\ v.restore = view.restore
      /\ v.closing = view.closing /\ v.gone = view.gone
      /\ v.quit = IF late THEN "late" ELSE "over"
  <2>1. (IF late THEN "late" ELSE "over") \in {"no", "waits", "late", "over"}
    OBVIOUS
  <2> QED
    BY <1>1, <2>1 DEF Views
<1>4. /\ v.closing => v.gone \/ v.pending
      /\ (v.gone \/ v.quit = "over") => worker.pc = "done"
      /\ v.quit # "no"
  BY <1>1, <1>3 DEF IInv, Good, Rules, Surface
<1>5. Good(v, worker, mailbox, channel, slot, cpu)
  BY <1>1, <1>2, <1>3, <1>4, WindowRests
<1> QED
  BY <1>1, <1>3, <1>5 DEF IInv

-----------------------------------------------------------------------------
(* The events.                                                             *)

\* An event is taken: a load is loaded or has failed, frames are taken out of
\* the slot, or the event is of an older load.
LEMMA TakenGood ==
    ASSUME RendererAssumption, IInv, view.underlay, channel.events # <<>>, TakesEvent,
           NEW v \in Views, NEW s \in Slots,
           v.generation = view.generation, v.model = view.model, v.visible = view.visible,
           v.cancelled = view.cancelled, v.underlay = view.underlay, v.listening = view.listening,
           v.pending = view.pending, v.released = view.released, v.restore = view.restore,
           v.closing = view.closing, v.gone = view.gone, v.quit = view.quit,
           v.input => view.input,
           v.frame # 0 => v.frame = v.generation /\ v.visible,
           \/ s = slot /\ (Head(channel.events).type \notin NewsTypes
                              \/ Head(channel.events).gen # view.generation)
           \/ ~s.frame /\ ~s.notified,
           \/ v.state = view.state /\ (Head(channel.events).gen # view.generation
                                          \/ Head(channel.events).type = "FrameAvailable")
           \/ /\ Head(channel.events).gen = view.generation
              /\ \/ Head(channel.events).type = "ModelLoaded" /\ v.state = "ready"
                 \/ Head(channel.events).type = "ModelLoadFailed" /\ v.state = "failed"
    PROVE  Good(v, worker, mailbox, channel', s, cpu)
<1> DEFINE h == Head(channel.events)
<1>1. channel \in Channels /\ channel' = [channel EXCEPT !.events = Tail(@)]
  BY DEF TakesEvent, IInv, Good, Typed
<1>2. /\ channel' \in Channels /\ channel'.closed = channel.closed
      /\ Len(channel'.events) = Len(channel.events) - 1
      /\ h \in Events /\ Len(channel.events) \in Nat /\ Len(channel'.events) \in Nat
      /\ h = channel.events[1]
      /\ \A i \in 1..Len(channel'.events) :
             channel'.events[i] = channel.events[i + 1] /\ i + 1 \in 1..Len(channel.events)
      /\ channel'.events # <<>> =>
             channel'.events[Len(channel'.events)] = channel.events[Len(channel.events)]
      /\ channel'.events = <<>> => channel.events[Len(channel.events)] = h
      /\ \A types, gen : Told(channel, types, gen) <=>
             Told(channel', types, gen) \/ (h.type \in types /\ h.gen = gen)
  BY <1>1, EventTaken, SMTT(60)
<1>3. h.type \in EventTypes
  BY <1>2 DEF Events
<1> HIDE DEF h
<1>4. /\ \/ s = slot /\ (h.type \notin NewsTypes \/ h.gen # view.generation)
         \/ ~s.frame /\ ~s.notified
      /\ \/ v.state = view.state /\ (h.gen # view.generation \/ h.type = "FrameAvailable")
         \/ /\ h.gen = view.generation
            /\ \/ h.type = "ModelLoaded" /\ v.state = "ready"
               \/ h.type = "ModelLoadFailed" /\ v.state = "failed"
  BY DEF h
<1>5. Typed(v, worker, mailbox, channel', s, cpu)
  <2>1. Len(channel'.events) <= Capacity
    <3>1. Len(channel.events) <= Capacity
      BY DEF IInv, Good, Typed
    <3>2. Capacity \in Nat
      BY DEF RendererAssumption
    <3> QED
      BY <1>2, <3>1, <3>2
  <2> QED
    BY <1>2, <2>1 DEF IInv, Good, Typed
<1>6. Surface(v, worker, mailbox, channel', cpu)
  BY <1>2 DEF IInv, Good, Rules, Surface, Running
<1>7. Generations(v, worker, mailbox, channel')
  BY <1>2 DEF IInv, Good, Rules, Generations
<1>8. Models(v, worker, channel')
  <2>1. h.gen = view.generation /\ h.type # "Unavailable" => view.model
    BY <1>2, <1>3 DEF IInv, Good, Rules, Models
  <2> QED
    BY <1>2, <1>4, <2>1 DEF IInv, Good, Rules, Models
<1>9. Announcements(v, worker, channel')
  <2>1. /\ (Told(channel', EventTypes \ {"Unavailable"}, view.generation) /\ worker.pc # "done") =>
               worker.gen = view.generation /\ worker.pc \in Drawing \cup {"blank", "idle", "send"}
        /\ Told(channel', {"ModelLoadFailed"}, view.generation) => worker.pc \in {"idle", "done"}
    BY <1>2 DEF IInv, Good, Rules, Announcements
  <2>2. (worker.gen = view.generation /\ worker.pc \in Drawing \cup {"blank"}) =>
             v.state = "ready" \/ Told(channel', {"ModelLoaded"}, view.generation)
    <3>1. (worker.pc \in Drawing \cup {"blank"} /\ h.gen = view.generation) => h.type # "ModelLoadFailed"
      BY <1>2 DEF IInv, Good, Rules, Announcements, Drawing
    <3> QED
      BY <1>2, <1>4, <3>1 DEF IInv, Good, Rules, Announcements
  <2>3. (worker.gen = view.generation /\ worker.pc = "idle" /\ view.model) =>
            IF channel'.events = <<>> THEN v.state = "failed"
            ELSE /\ channel'.events[Len(channel'.events)].type \in FailureTypes
                 /\ channel'.events[Len(channel'.events)].gen = view.generation
    <3>1. (worker.gen = view.generation /\ worker.pc = "idle" /\ view.model) =>
              /\ channel.events[Len(channel.events)].type \in FailureTypes
              /\ channel.events[Len(channel.events)].gen = view.generation
      BY DEF IInv, Good, Rules, Announcements
    <3> QED
      BY <1>2, <1>4, <3>1 DEF FailureTypes
  <2> QED
    BY <2>1, <2>2, <2>3 DEF Announcements
<1>10. Frames(v, worker, channel', s)
  BY <1>2, <1>4 DEF IInv, Good, Rules, Frames
<1>11. Inputs(v, worker, mailbox, cpu)
  BY DEF IInv, Good, Rules, Inputs, Surface
<1>12. Fallback(v, cpu)
  BY DEF IInv, Good, Rules, Fallback, Surface
<1> QED
  BY <1>5, <1>6, <1>7, <1>8, <1>9, <1>10, <1>11, <1>12 DEF IInv, Good, Rules

LEMMA FallsBackKeeps ==
    ASSUME RendererAssumption, IInv, view.underlay, FallsBack(view), UNCHANGED <<worker, slot, cpu>>
    PROVE  IInv'
<1> DEFINE v == [view EXCEPT !.restart = TRUE]
           load == [gen |-> view.generation, model |-> view.model]
<1>1. view \in Views /\ cpu \in Tasks /\ ~view.pending /\ ~view.gone /\ view.quit = "no" /\ ~view.closing
  BY DEF IInv, Good, Typed, Rules, Surface
<1>2. Stops(v, load)
  BY <1>1 DEF FallsBack
<1>3. /\ v \in Views /\ v.generation = view.generation /\ v.model = view.model
      /\ v.state = view.state /\ v.gone = view.gone /\ v.quit = view.quit /\ v.frame = view.frame
      /\ v.visible = view.visible /\ v.restore = view.restore /\ v.released = view.released
      /\ v.restart
  BY <1>1 DEF Views
<1>4. load \in LoadRequests /\ load.gen = view.generation /\ load.model = view.model
  BY <1>1, ViewFields DEF LoadRequests
<1>5. cpu.pc = "none" /\ ~cpu.closed
  BY <1>1 DEF IInv, Good, Rules, Surface, Fallback
<1>6. (view.frame # 0 => view.frame = view.generation /\ view.visible) /\ (view.restore => view.released)
  BY DEF IInv, Good, Rules, Frames, Surface
<1> HIDE DEF v, load
<1>7. ~v.gone /\ v.quit = "no" /\ (v.frame # 0 => v.frame = v.generation /\ v.visible)
      /\ (v.restore => v.released)
  BY <1>1, <1>3, <1>6
<1>8. Good(view', worker, mailbox', channel', slot, cpu)
  BY <1>1, <1>2, <1>3, <1>4, <1>5, <1>7, StopsGood
<1> QED
  BY <1>8 DEF IInv

\* The window that hears an event has its underlay.
LEMMA HearsIt ==
    ASSUME IInv, NEW type, Hears(type)
    PROVE  /\ view.underlay /\ channel.events # <<>> /\ Head(channel.events).type = type
           /\ view \in Views /\ slot \in Slots /\ UNCHANGED <<worker, cpu>>
           /\ view.frame # 0 => view.frame = view.generation /\ view.visible
           /\ Head(channel.events).gen = view.generation <=> Current
  BY DEF Hears, Runs, Current, IInv, Good, Typed, Rules, Surface, Frames, Running

LEMMA TakesFrameIs ==
    ASSUME slot \in Slots, TakesFrame
    PROVE  slot' \in Slots /\ ~slot'.frame /\ ~slot'.notified
  BY DEF TakesFrame, Slots

LEMMA HearLoadedKeeps ==
    ASSUME RendererAssumption, IInv, HearLoaded
    PROVE  IInv'
<1>1. Hears("ModelLoaded") /\ TakesEvent /\ UNCHANGED mailbox
  BY DEF HearLoaded
<1>2. /\ view.underlay /\ channel.events # <<>> /\ Head(channel.events).type = "ModelLoaded"
      /\ view \in Views /\ slot \in Slots /\ UNCHANGED <<worker, cpu>>
      /\ view.frame # 0 => view.frame = view.generation /\ view.visible
      /\ Head(channel.events).gen = view.generation <=> Current
  BY <1>1, HearsIt
<1>3. CASE Current
  <2>1. /\ TakesFrame
        /\ view' = [view EXCEPT !.state = "ready",
                                !.frame = IF view.visible THEN Head(channel.events).gen ELSE @]
    BY <1>3 DEF HearLoaded
  <2>2. PICK frame \in Nat : /\ view' = [view EXCEPT !.state = "ready", !.frame = frame]
                             /\ frame # 0 => frame = view.generation /\ view.visible
    <3>1. view.generation \in Nat /\ view.frame \in Nat
      BY <1>2, ViewFields
    <3> QED
      BY <1>2, <1>3, <2>1, <3>1
  <2>3. /\ view' \in Views
        /\ view'.generation = view.generation /\ view'.model = view.model /\ view'.visible = view.visible
        /\ view'.cancelled = view.cancelled /\ view'.underlay = view.underlay
        /\ view'.listening = view.listening /\ view'.pending = view.pending
        /\ view'.released = view.released /\ view'.restore = view.restore /\ view'.closing = view.closing
        /\ view'.gone = view.gone /\ view'.quit = view.quit /\ view'.input = view.input
        /\ view'.frame = frame /\ view'.state = "ready"
    BY <1>2, <2>2 DEF Views
  <2>4. slot' \in Slots /\ ~slot'.frame /\ ~slot'.notified
    BY <1>2, <2>1, TakesFrameIs
  <2>5. Good(view', worker, mailbox, channel', slot', cpu)
    BY <1>1, <1>2, <1>3, <2>2, <2>3, <2>4, TakenGood
  <2> QED
    BY <1>1, <1>2, <2>3, <2>4, <2>5 DEF IInv
<1>4. CASE ~Current
  <2>1. UNCHANGED <<view, slot>>
    BY <1>4 DEF HearLoaded
  <2>2. Good(view, worker, mailbox, channel', slot, cpu)
    BY <1>1, <1>2, <1>4, TakenGood
  <2> QED
    BY <1>1, <1>2, <2>1, <2>2 DEF IInv
<1> QED
  BY <1>3, <1>4

LEMMA HearFrameKeeps ==
    ASSUME RendererAssumption, IInv, HearFrame
    PROVE  IInv'
<1>1. Hears("FrameAvailable") /\ TakesEvent /\ UNCHANGED mailbox
  BY DEF HearFrame
<1>2. /\ view.underlay /\ channel.events # <<>> /\ Head(channel.events).type = "FrameAvailable"
      /\ view \in Views /\ slot \in Slots /\ UNCHANGED <<worker, cpu>>
      /\ view.frame # 0 => view.frame = view.generation /\ view.visible
      /\ Head(channel.events).gen = view.generation <=> Current
  BY <1>1, HearsIt
<1>3. CASE Current
  <2>1. /\ TakesFrame
        /\ \/ view' = view
           \/ /\ slot.gen = view.generation /\ view.visible
              /\ view' = [view EXCEPT !.frame = slot.gen]
    BY <1>3 DEF HearFrame
  <2>2. PICK frame \in Nat : /\ view' = [view EXCEPT !.frame = frame]
                             /\ frame # 0 => frame = view.generation /\ view.visible
    <3>1. view.generation \in Nat /\ view.frame \in Nat /\ [view EXCEPT !.frame = view.frame] = view
      BY <1>2, ViewFields DEF Views
    <3> QED
      BY <1>2, <1>3, <2>1, <3>1
  <2>3. /\ view' \in Views
        /\ view'.generation = view.generation /\ view'.model = view.model /\ view'.visible = view.visible
        /\ view'.cancelled = view.cancelled /\ view'.underlay = view.underlay
        /\ view'.listening = view.listening /\ view'.pending = view.pending
        /\ view'.released = view.released /\ view'.restore = view.restore /\ view'.closing = view.closing
        /\ view'.gone = view.gone /\ view'.quit = view.quit /\ view'.input = view.input
        /\ view'.frame = frame /\ view'.state = view.state
    BY <1>2, <2>2 DEF Views
  <2>4. slot' \in Slots /\ ~slot'.frame /\ ~slot'.notified
    BY <1>2, <2>1, TakesFrameIs
  <2>5. Good(view', worker, mailbox, channel', slot', cpu)
    BY <1>1, <1>2, <1>3, <2>2, <2>3, <2>4, TakenGood
  <2> QED
    BY <1>1, <1>2, <2>3, <2>4, <2>5 DEF IInv
<1>4. CASE ~Current
  <2>1. UNCHANGED <<view, slot>>
    BY <1>4 DEF HearFrame
  <2>2. Good(view, worker, mailbox, channel', slot, cpu)
    BY <1>1, <1>2, <1>4, TakenGood
  <2> QED
    BY <1>1, <1>2, <2>1, <2>2 DEF IInv
<1> QED
  BY <1>3, <1>4

LEMMA HearLoadFailedKeeps ==
    ASSUME RendererAssumption, IInv, HearLoadFailed
    PROVE  IInv'
<1>1. Hears("ModelLoadFailed") /\ TakesEvent /\ UNCHANGED <<slot, mailbox>>
  BY DEF HearLoadFailed
<1>2. /\ view.underlay /\ channel.events # <<>> /\ Head(channel.events).type = "ModelLoadFailed"
      /\ view \in Views /\ slot \in Slots /\ UNCHANGED <<worker, cpu>>
      /\ view.frame # 0 => view.frame = view.generation /\ view.visible
      /\ Head(channel.events).gen = view.generation <=> Current
  BY <1>1, HearsIt
<1>3. CASE Current
  <2>1. view' = [view EXCEPT !.state = "failed", !.frame = 0, !.input = FALSE]
    BY <1>3 DEF HearLoadFailed
  <2>2. /\ view' \in Views
        /\ view'.generation = view.generation /\ view'.model = view.model /\ view'.visible = view.visible
        /\ view'.cancelled = view.cancelled /\ view'.underlay = view.underlay
        /\ view'.listening = view.listening /\ view'.pending = view.pending
        /\ view'.released = view.released /\ view'.restore = view.restore /\ view'.closing = view.closing
        /\ view'.gone = view.gone /\ view'.quit = view.quit /\ view'.input = FALSE
        /\ view'.frame = 0 /\ view'.state = "failed"
    BY <1>2, <2>1 DEF Views
  <2>3. Good(view', worker, mailbox, channel', slot, cpu)
    BY <1>1, <1>2, <1>3, <2>2, TakenGood DEF NewsTypes
  <2> QED
    BY <1>1, <1>2, <2>2, <2>3 DEF IInv
<1>4. CASE ~Current
  <2>1. UNCHANGED view
    BY <1>4 DEF HearLoadFailed
  <2>2. Good(view, worker, mailbox, channel', slot, cpu)
    BY <1>1, <1>2, <1>4, TakenGood
  <2> QED
    BY <1>1, <1>2, <2>1, <2>2 DEF IInv
<1> QED
  BY <1>3, <1>4

LEMMA HearFailuresKeep ==
    ASSUME RendererAssumption, IInv, HearGpuFailed \/ HearUnavailable \/ HearEnd
    PROVE  IInv'
<1>1. CASE HearGpuFailed
  <2>1. Hears("ModelGpuFailed") /\ UNCHANGED slot
    BY <1>1 DEF HearGpuFailed
  <2>2. /\ view.underlay /\ channel.events # <<>> /\ view \in Views /\ slot \in Slots
        /\ UNCHANGED <<worker, cpu>>
        /\ view.frame # 0 => view.frame = view.generation /\ view.visible
        /\ Head(channel.events).gen = view.generation <=> Current
    BY <2>1, HearsIt
  <2>3. CASE Current
    <3>1. FallsBack(view)
      BY <1>1, <2>3 DEF HearGpuFailed
    <3> QED
      BY <2>1, <2>2, <3>1, FallsBackKeeps
  <2>4. CASE ~Current
    <3>1. TakesEvent /\ UNCHANGED <<view, mailbox>>
      BY <1>1, <2>4 DEF HearGpuFailed
    <3>2. Good(view, worker, mailbox, channel', slot, cpu)
      BY <2>2, <2>4, <3>1, TakenGood
    <3> QED
      BY <2>1, <2>2, <3>1, <3>2 DEF IInv
  <2> QED
    BY <2>3, <2>4
<1>2. CASE HearUnavailable
  <2>1. Hears("Unavailable") /\ FallsBack(view) /\ UNCHANGED slot
    BY <1>2 DEF HearUnavailable
  <2> QED
    BY <2>1, HearsIt, FallsBackKeeps
<1>3. CASE HearEnd
  BY <1>3, FallsBackKeeps DEF HearEnd
<1> QED
  BY <1>1, <1>2, <1>3

-----------------------------------------------------------------------------
(* The task of the CPU.                                                    *)

LEMMA TaskMoves ==
    ASSUME IInv, Running(view), cpu.pc \notin {"none", "ended"},
           UNCHANGED <<worker, mailbox, channel, slot>>, view' \in Views, cpu' \in Tasks,
           view'.generation = view.generation, view'.model = view.model,
           view'.visible = view.visible, view'.underlay = view.underlay,
           view'.listening = view.listening, view'.pending = view.pending,
           view'.released = view.released, view'.restore = view.restore,
           view'.closing = view.closing, view'.gone = view.gone, view'.quit = view.quit,
           view'.frame # 0 => view'.frame = view'.generation /\ view'.visible,
           cpu'.pc \notin {"none", "load"}, cpu'.closed => cpu.closed,
           cpu'.pc # "ended" => ~view'.cancelled \/ view'.cancelled = view.cancelled,
           cpu'.pc = "ended" => view'.state = "failed" \/ view.closing,
           (view'.input /\ cpu'.pc # "ended" /\ ~cpu'.closed) =>
               cpu'.wake \/ (cpu'.needs /\ cpu'.pc # "render"),
           (cpu'.pc = "hidden" /\ view'.visible) => cpu'.rate \/ cpu'.closed
    PROVE  IInv'
<1>1. ~view.underlay /\ view.model
  BY DEF IInv, Good, Rules, Surface, Fallback
<1>2. \A types, gen : ~Told(channel, types, gen)
  BY <1>1, Standing DEF IInv
<1>3. Typed(view', worker, mailbox, channel, slot, cpu')
  BY DEF IInv, Good, Typed
<1>4. Surface(view', worker, mailbox, channel, cpu')
  BY <1>1 DEF IInv, Good, Rules, Surface, Running
<1>5. Generations(view', worker, mailbox, channel)
  BY <1>1 DEF IInv, Good, Rules, Generations
<1>6. Models(view', worker, channel) /\ Announcements(view', worker, channel)
  <2>1. Models(view', worker, channel)
    BY <1>1, <1>2 DEF IInv, Good, Rules, Models
  <2>2. Announcements(view', worker, channel)
    BY <1>1, <1>2 DEF Announcements
  <2> QED
    BY <2>1, <2>2
<1>7. Frames(view', worker, channel, slot)
  BY <1>1 DEF IInv, Good, Rules, Frames
<1>8. Inputs(view', worker, mailbox, cpu')
  BY <1>1 DEF Inputs
<1>9. Fallback(view', cpu')
  BY <1>1 DEF IInv, Good, Rules, Fallback, Running
<1> QED
  BY <1>3, <1>4, <1>5, <1>6, <1>7, <1>8, <1>9 DEF IInv, Good, Rules

LEMMA TaskFacts ==
    ASSUME IInv, NEW pc \in TaskPlaces \ {"none", "ended"}, Task(pc)
    PROVE  /\ Running(view) /\ cpu.pc = pc /\ view \in Views /\ cpu \in Tasks /\ ~view.underlay
           /\ view.generation \in Nat
           /\ view.frame # 0 => view.frame = view.generation /\ view.visible
           /\ (view.input /\ ~cpu.closed) => cpu.wake \/ (cpu.needs /\ pc \notin {"load", "render"})
           /\ (pc = "hidden" /\ view.visible) => cpu.rate \/ cpu.closed
           /\ view.cancelled => view.closing
           /\ cpu.closed => view.closing
<1>1. Running(view) /\ cpu.pc = pc
  BY DEF Task, Runs, Running
<1>2. /\ view \in Views /\ cpu \in Tasks /\ ~view.underlay
      /\ view.frame # 0 => view.frame = view.generation /\ view.visible
  BY <1>1 DEF IInv, Good, Typed, Rules, Surface, Frames
<1>3. /\ (view.input /\ ~cpu.closed) => cpu.wake \/ (cpu.needs /\ pc \notin {"load", "render"})
      /\ (pc = "hidden" /\ view.visible) => cpu.rate \/ cpu.closed
  BY <1>1, <1>2 DEF IInv, Good, Rules, Inputs
<1>4. (view.cancelled => view.closing) /\ (cpu.closed => view.closing)
  BY <1>1 DEF IInv, Good, Rules, Fallback, Running
<1> QED
  BY <1>1, <1>2, <1>3, <1>4, ViewFields

LEMMA TaskEndsIs ==
    ASSUME TaskEnds
    PROVE  cpu' \in Tasks /\ cpu'.pc = "ended" /\ ~cpu'.closed
<1>1. cpu' = [NoTask EXCEPT !.pc = "ended"] /\ "ended" \in TaskPlaces
  BY DEF TaskEnds, TaskPlaces
<1> QED
  BY <1>1, NewThings DEF Tasks

\* The task of a window that closes ends for that.
LEMMA TaskStops ==
    ASSUME IInv, NEW pc \in TaskPlaces \ {"none", "ended"}, Task(pc), view.closing, TaskEnds,
           UNCHANGED view, OnlyTask
    PROVE  IInv'
<1>1. /\ Running(view) /\ cpu.pc = pc /\ view \in Views
      /\ view.frame # 0 => view.frame = view.generation /\ view.visible
  BY TaskFacts
<1>2. cpu' \in Tasks /\ cpu'.pc = "ended" /\ ~cpu'.closed
  BY TaskEndsIs
<1> QED
  BY <1>1, <1>2, TaskMoves DEF OnlyTask

LEMMA CpuFails ==
    ASSUME IInv, NEW pc \in TaskPlaces \ {"none", "ended"}, Task(pc), TaskEnds, OnlyTask,
           \/ view' = [view EXCEPT !.state = "failed", !.frame = 0, !.input = FALSE]
           \/ view' = [view EXCEPT !.state = "failed", !.frame = 0, !.input = FALSE, !.cancelled = TRUE]
    PROVE  IInv'
<1>1. Running(view) /\ cpu.pc = pc /\ view \in Views
  BY TaskFacts
<1>2. cpu' \in Tasks /\ cpu'.pc = "ended" /\ ~cpu'.closed
  BY TaskEndsIs
<1>3. /\ view' \in Views /\ view'.generation = view.generation /\ view'.model = view.model
      /\ view'.visible = view.visible /\ view'.underlay = view.underlay
      /\ view'.listening = view.listening /\ view'.pending = view.pending
      /\ view'.released = view.released /\ view'.restore = view.restore
      /\ view'.closing = view.closing /\ view'.gone = view.gone /\ view'.quit = view.quit
      /\ view'.frame = 0 /\ view'.state = "failed" /\ ~view'.input
  <2>1. CASE view' = [view EXCEPT !.state = "failed", !.frame = 0, !.input = FALSE]
    BY <1>1, <2>1 DEF Views
  <2>2. CASE view' = [view EXCEPT !.state = "failed", !.frame = 0, !.input = FALSE, !.cancelled = TRUE]
    BY <1>1, <2>2 DEF Views
  <2> QED
    BY <2>1, <2>2
<1>4. UNCHANGED <<worker, mailbox, channel, slot>>
  BY DEF OnlyTask
<1> QED
  BY <1>1, <1>2, <1>3, <1>4, TaskMoves

\* A frame is shown while the pet is visible.
LEMMA FrameShown ==
    ASSUME view \in Views, view.frame # 0 => view.frame = view.generation /\ view.visible,
           \/ view' = [view EXCEPT !.frame = IF view.visible THEN view.generation ELSE @]
           \/ view' = [view EXCEPT !.state = "ready",
                                   !.frame = IF view.visible THEN view.generation ELSE @]
    PROVE  /\ view' \in Views /\ view'.generation = view.generation /\ view'.model = view.model
           /\ view'.visible = view.visible /\ view'.underlay = view.underlay
           /\ view'.listening = view.listening /\ view'.pending = view.pending
           /\ view'.released = view.released /\ view'.restore = view.restore
           /\ view'.closing = view.closing /\ view'.gone = view.gone /\ view'.quit = view.quit
           /\ view'.input = view.input /\ view'.cancelled = view.cancelled
           /\ view'.frame # 0 => view'.frame = view'.generation /\ view'.visible
<1>1. view.generation \in Nat /\ view.frame \in Nat
  BY ViewFields
<1>2. PICK frame \in Nat :
          /\ frame = IF view.visible THEN view.generation ELSE view.frame
          /\ \/ view' = [view EXCEPT !.frame = frame]
             \/ view' = [view EXCEPT !.state = "ready", !.frame = frame]
  BY <1>1
<1>3. frame # 0 => frame = view.generation /\ view.visible
  BY <1>2
<1> QED
  BY <1>2, <1>3 DEF Views

LEMMA CpuLoadsKeeps ==
    ASSUME IInv, NEW ok \in BOOLEAN, CpuLoads(ok)
    PROVE  IInv'
<1>1. "load" \in TaskPlaces \ {"none", "ended"} /\ Task("load") /\ OnlyTask
  BY DEF CpuLoads, TaskPlaces
<1>2. CASE /\ \E continuous \in BOOLEAN : cpu' = [cpu EXCEPT !.pc = "check", !.needs = continuous]
           /\ view' = [view EXCEPT !.state = "ready", !.frame = IF view.visible THEN view.generation ELSE @]
  <2>1. /\ Running(view) /\ cpu.pc = "load" /\ view \in Views /\ cpu \in Tasks
        /\ view.frame # 0 => view.frame = view.generation /\ view.visible
        /\ (view.input /\ ~cpu.closed) => cpu.wake
    BY <1>1, TaskFacts
  <2>2. PICK continuous \in BOOLEAN : cpu' = [cpu EXCEPT !.pc = "check", !.needs = continuous]
    BY <1>2
  <2>3. cpu' \in Tasks /\ cpu'.pc = "check" /\ cpu'.closed = cpu.closed /\ cpu'.wake = cpu.wake
    BY <2>1, <2>2 DEF Tasks, TaskPlaces
  <2>4. UNCHANGED <<worker, mailbox, channel, slot>>
    BY <1>1 DEF OnlyTask
  <2> QED
    BY <1>2, <2>1, <2>3, <2>4, FrameShown, TaskMoves
<1>3. CASE /\ TaskEnds
           /\ view' = [view EXCEPT !.state = "failed", !.frame = 0, !.input = FALSE]
  BY <1>1, <1>3, CpuFails
<1>4. CASE view.cancelled /\ TaskEnds /\ UNCHANGED view
  BY <1>1, <1>4, TaskFacts, TaskStops
<1> QED
  BY <1>2, <1>3, <1>4 DEF CpuLoads

LEMMA CpuChecksKeeps ==
    ASSUME IInv, CpuChecks
    PROVE  IInv'
<1>1. "check" \in TaskPlaces \ {"none", "ended"} /\ Task("check")
      /\ UNCHANGED <<view, worker, mailbox, channel, slot>>
  BY DEF CpuChecks, TaskPlaces, OnlyTask
<1>2. /\ Running(view) /\ cpu.pc = "check" /\ view \in Views /\ cpu \in Tasks /\ ~view.underlay
      /\ view.frame # 0 => view.frame = view.generation /\ view.visible
      /\ (view.input /\ ~cpu.closed) => cpu.wake \/ cpu.needs
  BY <1>1, TaskFacts
<1>3. PICK pc \in TaskPlaces, needs \in BOOLEAN :
          /\ cpu' = [cpu EXCEPT !.pc = pc, !.needs = needs, !.toggled = FALSE]
          /\ pc = IF view.visible THEN "wait" ELSE "hidden"
          /\ cpu.needs => needs
  <2>1. (cpu.needs \/ cpu.toggled \/ ~view.visible) \in BOOLEAN
    OBVIOUS
  <2>2. (IF view.visible THEN "wait" ELSE "hidden") \in TaskPlaces
    BY DEF TaskPlaces
  <2>3. cpu' = [cpu EXCEPT !.pc = IF view.visible THEN "wait" ELSE "hidden",
                           !.needs = @ \/ cpu.toggled \/ ~view.visible, !.toggled = FALSE]
    BY <1>2 DEF CpuChecks
  <2> QED
    BY <2>1, <2>2, <2>3
<1>4. /\ cpu' \in Tasks /\ cpu'.pc = pc /\ cpu'.needs = needs /\ cpu'.wake = cpu.wake
      /\ cpu'.closed = cpu.closed
  BY <1>2, <1>3 DEF Tasks
<1>5. pc \in {"wait", "hidden"} /\ (pc = "hidden" => ~view.visible)
  BY <1>3
<1> QED
  BY <1>1, <1>2, <1>3, <1>4, <1>5, TaskMoves

LEMMA CpuWaitsKeep ==
    ASSUME IInv, CpuHearsRate \/ CpuCloses \/ CpuHearsWake
    PROVE  IInv'
<1>1. PICK pc \in {"wait", "hidden"} :
          Task(pc) /\ UNCHANGED <<view, worker, mailbox, channel, slot>>
  BY DEF CpuHearsRate, CpuCloses, CpuHearsWake, OnlyTask
<1>2. /\ Running(view) /\ cpu.pc = pc /\ view \in Views /\ cpu \in Tasks
      /\ view.frame # 0 => view.frame = view.generation /\ view.visible
      /\ (view.input /\ ~cpu.closed) => cpu.wake \/ cpu.needs
      /\ cpu.closed => view.closing
  BY <1>1, TaskFacts DEF TaskPlaces
<1>3. CASE CpuHearsRate
  <2>1. cpu' = [cpu EXCEPT !.pc = "check", !.rate = FALSE]
    BY <1>3 DEF CpuHearsRate
  <2>2. /\ cpu' \in Tasks /\ cpu'.pc = "check" /\ cpu'.wake = cpu.wake /\ cpu'.needs = cpu.needs
        /\ cpu'.closed = cpu.closed
    BY <1>2, <2>1 DEF Tasks, TaskPlaces
  <2> QED
    BY <1>1, <1>2, <2>2, TaskMoves
<1>4. CASE CpuCloses
  <2>1. cpu.closed /\ TaskEnds
    BY <1>4 DEF CpuCloses
  <2> QED
    BY <1>1, <1>2, <2>1, TaskStops DEF OnlyTask, TaskPlaces
<1>5. CASE CpuHearsWake
  <2>1. cpu' = [cpu EXCEPT !.wake = FALSE, !.needs = TRUE] /\ Task("wait")
    BY <1>5 DEF CpuHearsWake
  <2>2. /\ cpu' \in Tasks /\ cpu'.pc = "wait" /\ cpu'.needs /\ cpu'.closed = cpu.closed
    BY <1>2, <2>1 DEF Tasks, Task
  <2> QED
    BY <1>1, <1>2, <2>2, TaskMoves
<1> QED
  BY <1>3, <1>4, <1>5

LEMMA CpuStartsKeeps ==
    ASSUME IInv, CpuStarts
    PROVE  IInv'
<1>1. "wait" \in TaskPlaces \ {"none", "ended"} /\ Task("wait")
      /\ UNCHANGED <<worker, mailbox, channel, slot>>
      /\ cpu' = [cpu EXCEPT !.pc = "render", !.wake = FALSE]
      /\ view' = [view EXCEPT !.input = FALSE]
  BY DEF CpuStarts, TaskPlaces, OnlyTask
<1>2. /\ Running(view) /\ cpu.pc = "wait" /\ view \in Views /\ cpu \in Tasks
      /\ view.frame # 0 => view.frame = view.generation /\ view.visible
  BY <1>1, TaskFacts
<1>3. /\ view' \in Views /\ view'.generation = view.generation /\ view'.model = view.model
      /\ view'.visible = view.visible /\ view'.underlay = view.underlay
      /\ view'.listening = view.listening /\ view'.pending = view.pending
      /\ view'.released = view.released /\ view'.restore = view.restore
      /\ view'.closing = view.closing /\ view'.gone = view.gone /\ view'.quit = view.quit
      /\ view'.frame = view.frame /\ view'.cancelled = view.cancelled /\ ~view'.input
  BY <1>1, <1>2 DEF Views
<1>4. cpu' \in Tasks /\ cpu'.pc = "render" /\ cpu'.closed = cpu.closed
  BY <1>1, <1>2 DEF Tasks, TaskPlaces
<1> QED
  BY <1>1, <1>2, <1>3, <1>4, TaskMoves

LEMMA CpuRendersKeeps ==
    ASSUME IInv, NEW ok \in BOOLEAN, CpuRenders(ok)
    PROVE  IInv'
<1>1. "render" \in TaskPlaces \ {"none", "ended"} /\ Task("render") /\ OnlyTask
  BY DEF CpuRenders, TaskPlaces
<1>2. CASE /\ \E continuous \in BOOLEAN :
                  cpu' = [cpu EXCEPT !.pc = "check", !.wake = FALSE, !.needs = continuous \/ cpu.wake]
           /\ view' = [view EXCEPT !.frame = IF view.visible THEN view.generation ELSE @]
  <2>1. /\ Running(view) /\ cpu.pc = "render" /\ view \in Views /\ cpu \in Tasks
        /\ view.frame # 0 => view.frame = view.generation /\ view.visible
    BY <1>1, TaskFacts
  <2>2. PICK needs \in BOOLEAN :
            /\ cpu' = [cpu EXCEPT !.pc = "check", !.wake = FALSE, !.needs = needs]
            /\ cpu.wake => needs
    <3>1. PICK continuous \in BOOLEAN :
              cpu' = [cpu EXCEPT !.pc = "check", !.wake = FALSE, !.needs = continuous \/ cpu.wake]
      BY <1>2
    <3>2. (continuous \/ cpu.wake) \in BOOLEAN
      OBVIOUS
    <3> QED
      BY <3>1, <3>2
  <2>3. cpu' \in Tasks /\ cpu'.pc = "check" /\ cpu'.closed = cpu.closed /\ cpu'.needs = needs
    BY <2>1, <2>2 DEF Tasks, TaskPlaces
  <2>4. UNCHANGED <<worker, mailbox, channel, slot>>
    BY <1>1 DEF OnlyTask
  <2>5. (view.input /\ ~cpu.closed) => cpu.wake
    BY <1>1, TaskFacts
  <2> QED
    BY <1>2, <2>1, <2>2, <2>3, <2>4, <2>5, FrameShown, TaskMoves
<1>3. CASE /\ TaskEnds
           /\ view' = [view EXCEPT !.state = "failed", !.frame = 0, !.input = FALSE, !.cancelled = TRUE]
  BY <1>1, <1>3, CpuFails
<1>4. CASE view.cancelled /\ TaskEnds /\ UNCHANGED view
  BY <1>1, <1>4, TaskFacts, TaskStops
<1> QED
  BY <1>2, <1>3, <1>4 DEF CpuRenders

-----------------------------------------------------------------------------
(* The theorems.                                                           *)

LEMMA InitGood ==
    ASSUME RendererAssumption, Init
    PROVE  IInv
<1>1. PICK gpu \in BOOLEAN :
          /\ view = [generation |-> 0, model |-> FALSE, state |-> "none", frame |-> 0,
                     cancelled |-> FALSE, input |-> FALSE, visible |-> TRUE,
                     underlay |-> gpu, listening |-> gpu, pending |-> FALSE, stopped |-> NoLoad,
                     restart |-> FALSE, released |-> FALSE, restore |-> FALSE,
                     closing |-> FALSE, gone |-> FALSE, quit |-> "no"]
          /\ worker = [NewWorker EXCEPT !.pc = IF gpu THEN "first" ELSE "done"]
  BY DEF Init
<1>2. mailbox = NewMailbox /\ channel = NewChannel /\ slot = NewSlot /\ cpu = NoTask
  BY DEF Init
<1>3. worker \in Workers /\ worker.pc = (IF gpu THEN "first" ELSE "done") /\ worker.gen = 0 /\ ~worker.woken
  <2>1. (IF gpu THEN "first" ELSE "done") \in WorkerPlaces
    BY DEF WorkerPlaces
  <2> QED
    BY <1>1, <2>1, NewWorkerIs DEF Workers
<1>4. /\ view \in Views /\ view.generation = 0 /\ view.state = "none" /\ view.frame = 0
      /\ ~view.model /\ ~view.input /\ view.underlay = gpu /\ view.listening = gpu
      /\ ~view.cancelled /\ ~view.pending /\ ~view.released /\ ~view.restore /\ ~view.closing
      /\ ~view.gone /\ view.quit = "no"
  BY <1>1, NewThings DEF Views
<1>5. Len(channel.events) = 0 /\ Len(channel.events) <= Capacity
  BY <1>2, NewThings DEF RendererAssumption
<1>6. \A types, gen : ~Told(channel, types, gen)
  BY <1>5 DEF Told
<1>7. Typed(view, worker, mailbox, channel, slot, cpu)
  BY <1>2, <1>3, <1>4, <1>5, NewThings DEF Typed
<1>8. Surface(view, worker, mailbox, channel, cpu)
  BY <1>2, <1>3, <1>4, NewThings DEF Surface, Running
<1>9. Generations(view, worker, mailbox, channel)
  BY <1>2, <1>3, <1>4, <1>5, NewThings DEF Generations
<1>10. Sending(worker) /\ Models(view, worker, channel) /\ Announcements(view, worker, channel)
  BY <1>3, <1>4, <1>6 DEF Sending, Models, Announcements, Drawing
<1>11. Frames(view, worker, channel, slot)
  BY <1>2, <1>3, <1>4, NewThings DEF Frames, Drawing
<1>12. Inputs(view, worker, mailbox, cpu) /\ Fallback(view, cpu)
  BY <1>2, <1>4, NewThings DEF Inputs, Fallback
<1> QED
  BY <1>7, <1>8, <1>9, <1>10, <1>11, <1>12 DEF IInv, Good, Rules

\* A step of the worker.
LEMMA WorkerStep ==
    ASSUME RendererAssumption, IInv, WorkerNext \/ WorkerPanics
    PROVE  IInv'
<1>1. CASE \E ok \in BOOLEAN : WorkerInitialises(ok) \/ WorkerClears(ok)
  BY <1>1, InitialisesKeeps, ClearsKeeps
<1>2. CASE \E outcome : WorkerLoads(outcome) \/ WorkerFirstFrame(outcome) \/ WorkerDraws(outcome)
  BY <1>2, LoadsKeeps, FirstFrameKeeps, DrawsKeeps
<1>3. CASE WorkerIdles \/ WorkerRetries \/ WorkerSends \/ WorkerWaits \/ WorkerBlanks
  BY <1>3, IdlesKeeps, RetriesKeeps, WorkerSendsKeeps, WaitsKeeps, BlanksKeeps
<1>4. CASE WorkerPublishes \/ WorkerNotifies \/ WorkerUndoes \/ WorkerPanics
  BY <1>4, PublishesKeeps, NotifiesKeeps, UndoesKeeps, PanicsKeeps
<1> QED
  BY <1>1, <1>2, <1>3, <1>4 DEF WorkerNext

\* A step of the window, of the user or of the CPU task.
LEMMA WindowStep ==
    ASSUME RendererAssumption, IInv,
           \/ EventNext \/ CpuNext
           \/ \E model \in BOOLEAN : UserLoads(model)
           \/ UserActs \/ UserSetsRate \/ Hide
           \/ \E ok \in BOOLEAN : Show(ok) \/ Stopped(ok)
           \/ Close \/ Quit \/ \E late \in BOOLEAN : QuitWaits(late)
    PROVE  IInv'
<1>1. CASE EventNext
  BY <1>1, HearLoadedKeeps, HearFrameKeeps, HearLoadFailedKeeps, HearFailuresKeep DEF EventNext
<1>2. CASE CpuNext
  BY <1>2, CpuLoadsKeeps, CpuRendersKeeps, CpuChecksKeeps, CpuWaitsKeep, CpuStartsKeeps DEF CpuNext
<1>3. CASE \/ \E model \in BOOLEAN : UserLoads(model)
           \/ UserActs \/ UserSetsRate \/ Hide
  BY <1>3, UserLoadsKeeps, UserActsKeeps, UserSetsRateKeeps, HideKeeps
<1>4. CASE \E ok \in BOOLEAN : Show(ok) \/ Stopped(ok)
  BY <1>4, ShowKeeps, StoppedKeeps
<1>5. CASE Close \/ Quit \/ \E late \in BOOLEAN : QuitWaits(late)
  BY <1>5, CloseKeeps, QuitKeeps, QuitWaitsKeeps
<1> QED
  BY <1>1, <1>2, <1>3, <1>4, <1>5

LEMMA StutterGood ==
    ASSUME IInv, UNCHANGED vars
    PROVE  IInv'
  BY DEF IInv, vars

\* The window, the worker, the mailbox, the channel, the slot and the task of
\* the CPU keep what each expects of the others, whatever the user does and
\* whatever fails (all of src/src/model/gpu_underlay and of the handlers in
\* src/src/ui/desktop_pet that use it).
THEOREM InductiveInvariant == Spec => []IInv
<1>1. Init => IInv
  BY InitGood, RendererAssumption
<1>2. IInv /\ [Next]_vars => IInv'
  <2> SUFFICES ASSUME IInv, [Next]_vars PROVE IInv'
    OBVIOUS
  <2>1. CASE WorkerNext \/ WorkerPanics
    BY <2>1, WorkerStep, RendererAssumption
  <2>2. CASE \/ EventNext \/ CpuNext
             \/ \E model \in BOOLEAN : UserLoads(model)
             \/ UserActs \/ UserSetsRate \/ Hide
             \/ \E ok \in BOOLEAN : Show(ok) \/ Stopped(ok)
             \/ Close \/ Quit \/ \E late \in BOOLEAN : QuitWaits(late)
    BY <2>2, WindowStep, RendererAssumption
  <2>3. CASE UNCHANGED vars
    BY <2>3, StutterGood
  <2> QED
    BY <2>1, <2>2, <2>3 DEF Next, Over
<1> QED
  BY <1>1, <1>2, PTL DEF Spec

\* The surface never outlives what it is drawn on: the window goes, and a
\* worker is started or the CPU takes over, only when the last worker has ended
\* (begin_gpu_shutdown and restore_gpu_underlay).
THEOREM SurfaceTheorem == Spec => []SurfaceIsReleasedFirst
<1>1. IInv => SurfaceIsReleasedFirst
  <2> SUFFICES ASSUME IInv PROVE SurfaceIsReleasedFirst
    OBVIOUS
  <2>1. /\ view \in Views /\ worker \in Workers /\ mailbox \in Mailboxes /\ slot \in Slots
        /\ cpu \in Tasks /\ Len(channel.events) <= Capacity
    BY DEF IInv, Good, Typed
  <2>2. worker.gen \in 0..view.generation
    <3>1. worker.gen <= view.generation
      BY DEF IInv, Good, Rules, Generations
    <3> QED
      BY <2>1, <3>1, ViewFields, WorkerFields
  <2>3. TypeOK
    <3>1. cpu.pc \in TaskPlaces /\ worker.pc \in WorkerPlaces
      BY <2>1 DEF Tasks, Workers
    <3> QED
      BY <2>1, <2>2, <3>1 DEF TypeOK, Views, Mailboxes, Slots, TaskPlaces, WorkerPlaces
  <2>4. /\ view.underlay => ~view.pending /\ ~mailbox.shutdown
        /\ (~view.underlay /\ ~view.pending /\ view.quit = "no") => At("done")
        /\ (view.gone \/ view.quit = "over") => At("done")
    BY DEF IInv, Good, Rules, Surface, At
  <2> QED
    BY <2>3, <2>4 DEF SurfaceIsReleasedFirst
<1> QED
  BY <1>1, InductiveInvariant, PTL

\* What is shown is the current model, and nothing while the pet is hidden; and
\* a frame in the slot is announced, also when the channel was full
\* (LatestFrameSlot::publish, notification_failed and take_presented_frame).
THEOREM NewestFrameTheorem == Spec => []NewestFrameIsShown
<1>1. IInv => NewestFrameIsShown
  <2> SUFFICES ASSUME IInv PROVE NewestFrameIsShown
    OBVIOUS
  <2>1. ASSUME view.underlay, slot.frame, slot.gen = view.generation, worker.pc \notin {"notify", "done"}
        PROVE  \E i \in DOMAIN channel.events :
                   channel.events[i] \in {Event(type, view.generation) :
                                              type \in {"ModelLoaded", "FrameAvailable"}}
    <3>1. Told(channel, NewsTypes, view.generation)
      BY <2>1 DEF IInv, Good, Rules, Frames
    <3>2. PICK i \in 1..Len(channel.events) :
              channel.events[i].type \in NewsTypes /\ channel.events[i].gen = view.generation
      BY <3>1 DEF Told
    <3>3. channel.events \in Seq(Events)
      BY DEF IInv, Good, Typed, Channels
    <3>4. DOMAIN channel.events = 1..Len(channel.events) /\ channel.events[i] \in Events
      BY <3>2, <3>3, ElementOfSeq
    <3>5. channel.events[i] = Event(channel.events[i].type, view.generation)
      BY <3>2, <3>4 DEF Events, Event
    <3> QED
      BY <3>2, <3>4, <3>5 DEF NewsTypes
  <2>2. view.frame # 0 => view.frame = view.generation /\ view.visible
    BY DEF IInv, Good, Rules, Frames
  <2> QED
    BY <2>1, <2>2 DEF NewestFrameIsShown, At
<1> QED
  BY <1>1, InductiveInvariant, PTL

\* Input that waits has left the renderer of the current model a reason to
\* draw (WorkerMailbox::wait, wait_for_surface_retry and the wake channels of
\* the CPU task).
THEOREM InputTheorem == Spec => []InputIsSeen
<1>1. IInv => InputIsSeen
  BY DEF IInv, Good, Rules, Inputs, InputIsSeen, Listens, At
<1> QED
  BY <1>1, InductiveInvariant, PTL

\* A model that is loading or ready has a renderer or will have one
\* (load_model_inner, fallback_to_cpu and finish_gpu_shutdown).
THEOREM RendererTheorem == Spec => []ModelHasRenderer
<1>1. IInv => ModelHasRenderer
  <2> SUFFICES ASSUME IInv, Running(view), ~view.closing, view.state \in {"loading", "ready"}
               PROVE  ModelHasRenderer
    BY DEF ModelHasRenderer, Runs, Running
  <2>1. view.model
    BY DEF IInv, Good, Rules, Models
  <2>2. CASE ~view.underlay
    <3>1. CASE cpu.pc = "none"
      BY <2>2, <3>1 DEF IInv, Good, Rules, Fallback, ModelHasRenderer, Views, LoadRequests, Typed
    <3>2. CASE cpu.pc # "none"
      <4>1. cpu.pc # "ended"
        BY DEF IInv, Good, Rules, Fallback
      <4> QED
        BY <2>2, <3>2, <4>1 DEF ModelHasRenderer
    <3> QED
      BY <3>1, <3>2
  <2>3. CASE view.underlay
    <3>1. view.listening /\ (mailbox.load # NoLoad => mailbox.load.gen = view.generation)
      BY <2>3 DEF IInv, Good, Rules, Surface, Generations
    <3>2. channel.events \in Seq(Events) /\ DOMAIN channel.events = 1..Len(channel.events)
          /\ worker.pc \in WorkerPlaces
      <4>1. channel.events \in Seq(Events) /\ worker.pc \in WorkerPlaces
        BY DEF IInv, Good, Typed, Channels, Workers
      <4> QED
        BY <4>1
    <3>3. CASE mailbox.load # NoLoad \/ worker.pc = "done"
      BY <2>3, <3>1, <3>3 DEF ModelHasRenderer, GpuDraws, FailureUnderWay, At
    <3>4. CASE mailbox.load = NoLoad /\ worker.pc # "done"
      <4>1. worker.gen = view.generation
        BY <2>3, <3>4 DEF IInv, Good, Rules, Generations
      <4>2. CASE worker.pc = "idle"
        <5>1. /\ channel.events # <<>>
              /\ channel.events[Len(channel.events)].type \in FailureTypes
              /\ channel.events[Len(channel.events)].gen = view.generation
          BY <2>1, <2>3, <4>1, <4>2 DEF IInv, Good, Rules, Announcements
        <5>2. Len(channel.events) \in DOMAIN channel.events
          BY <3>2, <5>1, EmptySeq
        <5>3. FailureUnderWay
          BY <5>1, <5>2 DEF FailureUnderWay, FailureTypes
        <5> QED
          BY <2>3, <3>1, <5>3 DEF ModelHasRenderer
      <4>3. CASE worker.pc = "first"
        BY <2>1, <4>1, <4>3 DEF IInv, Good, Rules, Sending, Models
      <4>4. CASE worker.pc \in {"init", "top", "load", "frame"}
        BY <2>3, <3>1, <4>1, <4>4 DEF ModelHasRenderer, GpuDraws, At
      <4>5. CASE worker.pc = "send"
        BY <2>3, <3>1, <4>1, <4>5
           DEF IInv, Good, Rules, Sending, ModelHasRenderer, GpuDraws, FailureUnderWay, FailureTypes, At
      <4>6. CASE worker.pc \in Drawing \cup {"blank"}
        <5>1. CASE Told(channel, {"ModelLoaded"}, view.generation)
          <6>1. PICK i \in 1..Len(channel.events) :
                    channel.events[i].type = "ModelLoaded" /\ channel.events[i].gen = view.generation
            BY <5>1 DEF Told
          <6>2. channel.events[i] \in Events
            BY <3>2, <6>1, ElementOfSeq
          <6>3. channel.events[i] = Event("ModelLoaded", view.generation)
            BY <6>1, <6>2 DEF Events, Event
          <6> QED
            BY <2>3, <3>1, <3>2, <4>1, <4>6, <6>3 DEF ModelHasRenderer, GpuDraws, At, Drawing
        <5>2. CASE view.state = "ready"
          BY <2>3, <3>1, <4>1, <4>6, <5>2 DEF ModelHasRenderer, GpuDraws, At, Drawing
        <5> QED
          BY <2>3, <4>1, <4>6, <5>1, <5>2 DEF IInv, Good, Rules, Announcements
      <4> QED
        BY <3>2, <3>4, <4>2, <4>3, <4>4, <4>5, <4>6 DEF WorkerPlaces, Drawing
    <3> QED
      BY <3>3, <3>4
  <2> QED
    BY <2>2, <2>3
<1> QED
  BY <1>1, InductiveInvariant, PTL

=============================================================================
