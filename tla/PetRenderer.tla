---------------------------- MODULE PetRenderer ----------------------------
(***************************************************************************)
(* How the pet is drawn: the window thread, the GPU worker with its        *)
(* mailbox, its bounded event channel and its latest-frame slot, and the   *)
(* CPU task that takes over when the GPU fails or the pet is hidden        *)
(* (src/src/model/gpu_underlay, src/src/ui/desktop_pet/gpu_lifecycle.rs    *)
(* and model_task.rs).                                                     *)
(*                                                                         *)
(* A load of a model is a generation; which model it is does not matter    *)
(* here, only whether there is one.  A handler of the window is one        *)
(* action, for nothing else runs on its thread.  The worker is paused only *)
(* on the way to its shutdown, in the same handler, and a paused worker    *)
(* waits for nothing but that: pausing is left out.  So are sizes, frame   *)
(* rates and what a frame shows.                                           *)
(***************************************************************************)
EXTENDS Naturals, Sequences, SequencesExt

CONSTANTS
    Capacity,   \* of the event channel
    MaxOrders,  \* bound on the loads of the user, and on hiding and showing the pet
    MaxFaults   \* bound on failures

ASSUME RendererAssumption ==
    /\ Capacity \in Nat \ {0}
    /\ {MaxOrders, MaxFaults} \subseteq Nat

VARIABLES
    view,    \* the fields of DesktopPetView
    worker,  \* the GPU worker
    mailbox, \* WorkerMailbox
    channel, \* the event channel, and whether the window closed it
    slot,    \* LatestFrameSlot
    cpu,     \* model_task and its two wake channels
    used     \* how often the user and the failures acted

vars == <<view, worker, mailbox, channel, slot, cpu, used>>

NoLoad == [gen |-> 0, model |-> FALSE]
NewWorker == [pc |-> "first", gen |-> 0, model |-> FALSE, woken |-> FALSE, render |-> FALSE,
              continuous |-> FALSE, event |-> "none", after |-> "none"]
NewMailbox == [load |-> NoLoad, wake |-> FALSE, shutdown |-> FALSE]
NewChannel == [events |-> <<>>, closed |-> FALSE]
NewSlot == [gen |-> 0, frame |-> FALSE, notified |-> FALSE]
NoTask == [pc |-> "none", wake |-> FALSE, rate |-> FALSE, needs |-> FALSE,
           toggled |-> FALSE, closed |-> FALSE]

Event(type, gen) == [type |-> type, gen |-> gen]

\* The window before its first load; the GPU may not be there at all.
Init ==
    /\ \E gpu \in BOOLEAN :
           /\ view = [generation |-> 0, model |-> FALSE, state |-> "none", frame |-> 0,
                      cancelled |-> FALSE, input |-> FALSE, visible |-> TRUE,
                      underlay |-> gpu, listening |-> gpu, pending |-> FALSE, stopped |-> NoLoad,
                      restart |-> FALSE, released |-> FALSE, restore |-> FALSE,
                      closing |-> FALSE, gone |-> FALSE, quit |-> "no"]
           /\ worker = [NewWorker EXCEPT !.pc = IF gpu THEN "first" ELSE "done"]
    /\ mailbox = NewMailbox
    /\ channel = NewChannel
    /\ slot = NewSlot
    /\ cpu = NoTask
    /\ used = [orders |-> 0, faults |-> 0]

\* A generation is cancelled when another takes its place.
Cancelled(gen) == gen # view.generation \/ view.cancelled

AFault == used.faults < MaxFaults /\ used' = [used EXCEPT !.faults = @ + 1]

AnOrder == used.orders < MaxOrders /\ used' = [used EXCEPT !.orders = @ + 1]

\* An outcome that is FALSE is a fault.
Outcome(ok) == (ok /\ UNCHANGED used) \/ (~ok /\ AFault)

-----------------------------------------------------------------------------
(* The GPU worker.                                                         *)

At(pc) == worker.pc = pc

OnlyWorker == UNCHANGED <<view, cpu>>

\* What the worker knows of a load it has given up, or it itself, is forgotten.
GoTo(pc) ==
    worker' = CASE pc = "done" -> [NewWorker EXCEPT !.pc = pc]
                [] pc = "idle" -> [NewWorker EXCEPT !.pc = pc, !.gen = worker.gen]
                [] OTHER -> [worker EXCEPT !.pc = pc]

\* send_blocking, and where it goes on.
Sends(type, after) ==
    worker' = [NewWorker EXCEPT !.pc = "send", !.gen = worker.gen, !.event = type, !.after = after]

\* WorkerMailbox::wait has something to return.
HasMail == mailbox.shutdown \/ mailbox.load # NoLoad \/ mailbox.wake

\* Variant: a wake-up is consumed together with the replacement it came with.
TakesLoadAndWake(pc, woken) ==
    /\ ~mailbox.shutdown /\ mailbox.load # NoLoad
    /\ worker' = [NewWorker EXCEPT !.pc = pc, !.gen = mailbox.load.gen, !.model = mailbox.load.model]
    /\ mailbox' = [mailbox EXCEPT !.load = NoLoad, !.wake = FALSE]

\* A replacement is taken; a wake-up that came before it is posted again.
TakesLoad(pc, woken) ==
    /\ ~mailbox.shutdown /\ mailbox.load # NoLoad
    /\ worker' = [NewWorker EXCEPT !.pc = pc, !.gen = mailbox.load.gen, !.model = mailbox.load.model]
    /\ mailbox' = [mailbox EXCEPT !.load = NoLoad, !.wake = @ \/ woken]

Leaves ==
    /\ mailbox.shutdown
    /\ GoTo("done")
    /\ UNCHANGED mailbox

\* wait_for_replacement, before the first load and after a load that ended.
WorkerIdles ==
    /\ At("first") \/ At("idle")
    /\ HasMail
    /\ \/ Leaves
       \/ TakesLoad(IF At("first") THEN "init" ELSE "top", worker.woken)
       \/ /\ ~mailbox.shutdown /\ mailbox.load = NoLoad
          /\ worker' = [worker EXCEPT !.woken = TRUE]
          /\ mailbox' = [mailbox EXCEPT !.wake = FALSE]
    /\ UNCHANGED <<channel, slot, used>>
    /\ OnlyWorker

\* GpuSurface::new, which gives up early when it is told to shut down.
WorkerInitialises(ok) ==
    /\ At("init")
    /\ \/ Outcome(ok) /\ IF ok THEN GoTo("top") ELSE Sends("Unavailable", "done")
       \/ ok /\ mailbox.shutdown /\ GoTo("done") /\ UNCHANGED used
    /\ UNCHANGED <<mailbox, channel, slot>>
    /\ OnlyWorker

\* resize and clear_surface_until_ready.
WorkerClears(ok) ==
    /\ At("top")
    /\ Outcome(ok)
    /\ IF ok THEN GoTo(IF worker.model THEN "load" ELSE "idle") ELSE Sends("Unavailable", "done")
    /\ UNCHANGED <<mailbox, channel, slot>>
    /\ OnlyWorker

\* wait_for_surface_retry: while the surface is not ready a shutdown or a
\* replacement is noticed, and a wake-up kept.
WorkerRetries ==
    /\ At("top") \/ At("frame") \/ At("blank")
    /\ Leaves \/ TakesLoad("top", FALSE)
    /\ UNCHANGED <<channel, slot, used>>
    /\ OnlyWorker

\* load_for_gpu and GpuModelRenderer::new.
WorkerLoads(outcome) ==
    /\ At("load")
    /\ \/ outcome = "ok" /\ GoTo("frame") /\ UNCHANGED used
       \/ outcome = "cancelled" /\ Cancelled(worker.gen) /\ GoTo("idle") /\ UNCHANGED used
       \/ outcome \in {"ModelLoadFailed", "ModelGpuFailed"} /\ Sends(outcome, "idle") /\ AFault
    /\ UNCHANGED <<mailbox, channel, slot>>
    /\ OnlyWorker

\* The first frame, which makes the model loaded.
WorkerFirstFrame(outcome) ==
    /\ At("frame")
    /\ \/ outcome = "ok" /\ Sends("ModelLoaded", "loop") /\ UNCHANGED used
       \/ outcome = "cancelled" /\ Cancelled(worker.gen) /\ GoTo("idle") /\ UNCHANGED used
       \/ outcome = "model" /\ Sends("ModelGpuFailed", "idle") /\ AFault
       \/ outcome = "surface" /\ Sends("Unavailable", "done") /\ AFault
    /\ UNCHANGED <<mailbox, channel, slot>>
    /\ OnlyWorker

\* send_blocking waits for room and fails when the window closed the channel.
WorkerSends ==
    /\ At("send")
    /\ \/ /\ channel.closed
          /\ GoTo(IF worker.event = "ModelLoaded" THEN "done" ELSE worker.after)
          /\ UNCHANGED channel
       \/ /\ ~channel.closed /\ Len(channel.events) < Capacity
          /\ channel' = [channel EXCEPT !.events = Append(@, Event(worker.event, worker.gen))]
          /\ \E continuous \in BOOLEAN :
                 IF worker.after = "loop"
                 THEN worker' = [NewWorker EXCEPT !.pc = "loop", !.gen = worker.gen, !.continuous = continuous]
                 ELSE GoTo(worker.after)
    /\ UNCHANGED <<mailbox, slot, used>>
    /\ OnlyWorker

\* The wait of the frame loop, without a limit when there is nothing to draw; the
\* frame rate is set again around it, which may fail.
WorkerWaits ==
    /\ At("loop")
    /\ HasMail \/ worker.render \/ worker.continuous
    /\ \/ Leaves /\ UNCHANGED used
       \/ TakesLoad("top", FALSE) /\ UNCHANGED used
       \/ /\ ~mailbox.shutdown /\ mailbox.load = NoLoad
          /\ worker' = [worker EXCEPT !.render = @ \/ mailbox.wake, !.pc = "draw"]
          /\ mailbox' = [mailbox EXCEPT !.wake = FALSE]
          /\ UNCHANGED used
       \/ Sends("Unavailable", "done") /\ AFault /\ UNCHANGED mailbox
    /\ UNCHANGED <<channel, slot>>
    /\ OnlyWorker

\* render_model, with the commands that have come for this generation.
WorkerDraws(outcome) ==
    /\ At("draw")
    /\ view' = [view EXCEPT !.input = @ /\ worker.gen # view.generation]
    /\ \/ /\ outcome = "ok" /\ UNCHANGED used
          /\ \E continuous \in BOOLEAN :
                 worker' = [worker EXCEPT !.pc = "publish", !.render = FALSE, !.continuous = continuous]
       \/ /\ outcome = "later" /\ AFault
          /\ worker' = [worker EXCEPT !.pc = "loop", !.render = TRUE]
       \/ outcome = "cancelled" /\ Cancelled(worker.gen) /\ GoTo("idle") /\ UNCHANGED used
       \/ outcome = "model" /\ GoTo("blank") /\ AFault
       \/ outcome = "surface" /\ Sends("Unavailable", "done") /\ AFault
    /\ UNCHANGED <<mailbox, channel, slot, cpu>>

\* The surface is cleared of a model that cannot be drawn any more.
WorkerBlanks ==
    /\ At("blank")
    /\ \/ Sends("ModelGpuFailed", "idle") /\ UNCHANGED used
       \/ Sends("Unavailable", "done") /\ AFault
    /\ UNCHANGED <<mailbox, channel, slot>>
    /\ OnlyWorker

\* LatestFrameSlot::publish
WorkerPublishes ==
    /\ At("publish")
    /\ IF slot.gen = worker.gen
       THEN /\ slot' = [slot EXCEPT !.frame = TRUE, !.notified = TRUE]
            /\ GoTo(IF slot.notified THEN "loop" ELSE "notify")
       ELSE GoTo("loop") /\ UNCHANGED slot
    /\ UNCHANGED <<mailbox, channel, used>>
    /\ OnlyWorker

\* The notification is not waited for: without room it is taken back.
WorkerNotifies ==
    /\ At("notify")
    /\ \/ channel.closed /\ GoTo("done") /\ UNCHANGED channel
       \/ /\ ~channel.closed /\ Len(channel.events) >= Capacity
          /\ GoTo("undo") /\ UNCHANGED channel
       \/ /\ ~channel.closed /\ Len(channel.events) < Capacity
          /\ channel' = [channel EXCEPT !.events = Append(@, Event("FrameAvailable", worker.gen))]
          /\ GoTo("loop")
    /\ UNCHANGED <<mailbox, slot, used>>
    /\ OnlyWorker

\* notification_failed
WorkerUndoes ==
    /\ At("undo")
    /\ slot' = [slot EXCEPT !.notified = FALSE]
    /\ GoTo("loop")
    /\ UNCHANGED <<mailbox, channel, used>>
    /\ OnlyWorker

\* A panic is told when there is room, and otherwise by the end of the channel.
WorkerPanics ==
    /\ ~At("done") /\ ~At("first")
    /\ AFault
    /\ GoTo("done")
    /\ channel' = IF channel.closed \/ Len(channel.events) >= Capacity THEN channel
                  ELSE [channel EXCEPT !.events = Append(@, Event("Unavailable", 0))]
    /\ UNCHANGED <<mailbox, slot>>
    /\ OnlyWorker

-----------------------------------------------------------------------------
(* What the handlers of the window do, for a view v they have changed.     *)

\* load_model_inner, of a generation that is not reused.
Loads(v, model, mail, cell) ==
    LET gen == v.generation + 1
    IN /\ view' = [v EXCEPT !.generation = gen, !.model = model, !.frame = 0, !.input = FALSE,
                            !.cancelled = FALSE, !.state = IF model THEN "loading" ELSE "none"]
       /\ IF v.underlay
          THEN /\ mailbox' = [mail EXCEPT !.load = [gen |-> gen, model |-> model]]
               /\ slot' = [gen |-> gen, frame |-> FALSE, notified |-> FALSE]
               /\ cpu' = NoTask
          ELSE /\ cpu' = IF model THEN [NoTask EXCEPT !.pc = "load"] ELSE NoTask
               /\ mailbox' = mail /\ slot' = cell

\* Variant: the event channel stays open while the worker is asked to stop.
StopsQuietly(v, load) ==
    /\ view' = [v EXCEPT !.underlay = FALSE, !.listening = FALSE, !.cancelled = TRUE,
                         !.pending = TRUE, !.stopped = load]
    /\ mailbox' = [load |-> NoLoad, wake |-> TRUE, shutdown |-> TRUE]
    /\ UNCHANGED channel

\* request_shutdown of the underlay, and begin_gpu_shutdown up to its join.
Stops(v, load) ==
    /\ view' = [v EXCEPT !.underlay = FALSE, !.listening = FALSE, !.cancelled = TRUE,
                         !.pending = TRUE, !.stopped = load]
    /\ channel' = [events |-> <<>>, closed |-> TRUE]
    /\ mailbox' = [load |-> NoLoad, wake |-> TRUE, shutdown |-> TRUE]

\* fallback_to_cpu
FallsBack(v) ==
    IF v.pending
    THEN /\ view' = [v EXCEPT !.cancelled = TRUE, !.restart = TRUE]
         /\ UNCHANGED <<channel, mailbox>>
    ELSE Stops([v EXCEPT !.restart = TRUE], [gen |-> v.generation, model |-> v.model])

\* restore_gpu_underlay, with a new worker or without one.
Restores(v, ok, task) ==
    LET visible == [v EXCEPT !.restart = FALSE, !.restore = FALSE, !.released = FALSE]
    IN CASE ok -> /\ worker' = NewWorker
                  /\ channel' = NewChannel
                  /\ Loads([visible EXCEPT !.underlay = TRUE, !.listening = TRUE], v.model, NewMailbox, NewSlot)
         [] ~ok /\ cpu.pc = "none" /\ v.model -> /\ Loads(visible, TRUE, mailbox, slot)
                                                 /\ UNCHANGED <<worker, channel>>
         [] OTHER -> /\ view' = visible
                     /\ cpu' = task
                     /\ UNCHANGED <<worker, channel, mailbox, slot>>

-----------------------------------------------------------------------------
(* The window.                                                             *)

Runs == ~view.gone /\ view.quit = "no"

UserLoads(model) ==
    /\ Runs /\ AnOrder
    /\ Loads(view, model, mailbox, slot)
    /\ UNCHANGED <<worker, channel>>

\* The task has wake channels that can still be used.
Listens == cpu.pc \notin {"none", "ended"} /\ ~cpu.closed

\* A command for the model and wake_model; commands are taken in batches.
UserActs ==
    /\ Runs /\ view.state \in {"loading", "ready"} /\ ~view.input
    /\ view.underlay \/ Listens
    /\ view' = [view EXCEPT !.input = TRUE]
    /\ mailbox' = IF view.underlay THEN [mailbox EXCEPT !.wake = TRUE] ELSE mailbox
    /\ cpu' = IF view.underlay THEN cpu ELSE [cpu EXCEPT !.wake = TRUE]
    /\ UNCHANGED <<worker, channel, slot, used>>

\* wake_frame_rate_scheduler: the user changes the frame rate.
UserSetsRate ==
    /\ Runs /\ (view.underlay \/ Listens)
    /\ mailbox' = IF view.underlay THEN [mailbox EXCEPT !.wake = TRUE] ELSE mailbox
    /\ cpu' = IF view.underlay THEN cpu ELSE [cpu EXCEPT !.rate = TRUE]
    /\ UNCHANGED <<view, worker, channel, slot, used>>

Toggles(visible) ==
    /\ Runs /\ view.visible # visible /\ AnOrder

WokenTask(wake) ==
    [cpu EXCEPT !.rate = @ \/ Listens, !.wake = @ \/ (wake /\ Listens),
                !.toggled = cpu.pc # "none"]

\* Variant: hidden again while the worker stops, the pet no longer restarts.
HideForgetsRestart ==
    /\ Toggles(FALSE)
    /\ LET hidden == [view EXCEPT !.visible = FALSE, !.frame = 0, !.restore = FALSE]
       IN IF view.underlay
          THEN Stops([hidden EXCEPT !.released = TRUE, !.restart = TRUE],
                     [gen |-> view.generation, model |-> view.model])
          ELSE view' = hidden /\ UNCHANGED <<channel, mailbox>>
    /\ cpu' = WokenTask(FALSE)
    /\ UNCHANGED <<worker, slot>>

\* set_desktop_pet_visible(false): the GPU is given back.
Hide ==
    /\ Toggles(FALSE)
    /\ LET hidden == [view EXCEPT !.visible = FALSE, !.frame = 0, !.restore = FALSE,
                                  !.restart = @ \/ (view.pending /\ view.released)]
       IN IF view.underlay
          THEN Stops([hidden EXCEPT !.released = TRUE, !.restart = TRUE],
                     [gen |-> view.generation, model |-> view.model])
          ELSE view' = hidden /\ UNCHANGED <<channel, mailbox>>
    /\ cpu' = WokenTask(FALSE)
    /\ UNCHANGED <<worker, slot>>

\* Variant: a new worker is started while the last one still stops.
ShowAtOnce(ok) ==
    /\ Toggles(TRUE)
    /\ LET shown == [view EXCEPT !.visible = TRUE]
       IN IF view.released
          THEN Restores(shown, ok, WokenTask(TRUE))
          ELSE /\ ok
               /\ view' = shown
               /\ mailbox' = IF view.underlay THEN [mailbox EXCEPT !.wake = TRUE] ELSE mailbox
               /\ cpu' = WokenTask(TRUE)
               /\ UNCHANGED <<worker, channel, slot>>

\* set_desktop_pet_visible(true)
Show(ok) ==
    /\ Toggles(TRUE)
    /\ LET shown == [view EXCEPT !.visible = TRUE]
       IN IF view.released /\ ~view.pending
          THEN Restores(shown, ok, WokenTask(TRUE))
          ELSE /\ ok
               /\ view' = IF view.released THEN [shown EXCEPT !.restore = TRUE, !.restart = FALSE]
                          ELSE shown
               /\ mailbox' = IF view.underlay THEN [mailbox EXCEPT !.wake = TRUE] ELSE mailbox
               /\ cpu' = WokenTask(TRUE)
               /\ UNCHANGED <<worker, channel, slot>>

\* The worker was joined: what the window wanted meanwhile is done.
Stopped(ok) ==
    /\ Runs /\ view.pending /\ At("done")
    /\ LET over == [view EXCEPT !.pending = FALSE, !.stopped = NoLoad]
           restores == ~view.closing /\ view.restore /\ view.visible
       IN \/ /\ view.closing /\ ok
             /\ view' = [over EXCEPT !.gone = TRUE]
             /\ UNCHANGED <<worker, mailbox, channel, slot, cpu>>
          \/ /\ restores
             /\ Restores([over EXCEPT !.restore = FALSE], ok, cpu)
          \/ /\ ~view.closing /\ ~restores /\ ok
             /\ IF view.restart /\ view.generation = view.stopped.gen
                THEN Loads(over, view.stopped.model, mailbox, slot)
                ELSE view' = over /\ UNCHANGED <<mailbox, slot, cpu>>
             /\ UNCHANGED <<worker, channel>>
    /\ UNCHANGED used

\* The wake channels of the task are closed: it ends at its next wait.
Closed(task) == IF task.pc \in {"none", "ended"} THEN task ELSE [task EXCEPT !.closed = TRUE]

\* request_window_close
Close ==
    /\ Runs /\ ~view.closing
    /\ LET closing == [view EXCEPT !.restart = FALSE, !.closing = TRUE, !.cancelled = TRUE]
       IN IF view.underlay THEN Stops(closing, [gen |-> view.generation, model |-> FALSE])
          ELSE /\ view' = [closing EXCEPT !.gone = ~view.pending]
               /\ UNCHANGED <<channel, mailbox>>
    /\ cpu' = Closed(cpu)
    /\ UNCHANGED <<worker, slot, used>>

\* shutdown_gpu_for_quit: the thread of the window waits for the worker.
Quit ==
    /\ Runs
    /\ IF view.underlay
       THEN /\ channel' = [events |-> <<>>, closed |-> TRUE]
            /\ mailbox' = [load |-> NoLoad, wake |-> TRUE, shutdown |-> TRUE]
       ELSE UNCHANGED <<channel, mailbox>>
    /\ view' = [view EXCEPT !.quit = "waits", !.restart = FALSE, !.underlay = FALSE, !.cancelled = TRUE]
    /\ cpu' = IF view.pending THEN cpu ELSE Closed(cpu)
    /\ UNCHANGED <<worker, slot, used>>

\* Only the wait for a shutdown that was under way has a limit.
QuitWaits(late) ==
    /\ view.quit = "waits"
    /\ IF late THEN view.pending /\ ~At("done") ELSE At("done")
    /\ view' = [view EXCEPT !.quit = IF late THEN "late" ELSE "over"]
    /\ UNCHANGED <<worker, mailbox, channel, slot, cpu, used>>

-----------------------------------------------------------------------------
(* handle_gpu_event.                                                       *)

Hears(type) ==
    /\ Runs /\ view.listening
    /\ channel.events # <<>>
    /\ Head(channel.events).type = type
    /\ UNCHANGED <<worker, cpu, used>>

Current == Head(channel.events).gen = view.generation /\ view.underlay

TakesEvent == channel' = [channel EXCEPT !.events = Tail(@)]

\* Variant: the frame is taken, and the next one is not announced.
TakesFrameOnly == slot' = [slot EXCEPT !.frame = FALSE]

\* take_presented_frame
TakesFrame == slot' = [slot EXCEPT !.frame = FALSE, !.notified = FALSE]

HearLoaded ==
    /\ Hears("ModelLoaded")
    /\ TakesEvent
    /\ IF Current
       THEN /\ TakesFrame
            /\ view' = [view EXCEPT !.state = "ready",
                                    !.frame = IF view.visible THEN Head(channel.events).gen ELSE @]
       ELSE UNCHANGED <<view, slot>>
    /\ UNCHANGED mailbox

HearFrame ==
    /\ Hears("FrameAvailable")
    /\ TakesEvent
    /\ IF Current
       THEN /\ TakesFrame
            /\ view' = IF slot.frame /\ slot.gen = view.generation /\ view.visible
                       THEN [view EXCEPT !.frame = slot.gen] ELSE view
       ELSE UNCHANGED <<view, slot>>
    /\ UNCHANGED mailbox

HearLoadFailed ==
    /\ Hears("ModelLoadFailed")
    /\ TakesEvent
    /\ view' = IF Current THEN [view EXCEPT !.state = "failed", !.frame = 0, !.input = FALSE] ELSE view
    /\ UNCHANGED <<slot, mailbox>>

\* A renderer or the surface is lost, or the channel ended: the CPU takes over.
HearGpuFailed ==
    /\ Hears("ModelGpuFailed")
    /\ IF Current THEN FallsBack(view) ELSE TakesEvent /\ UNCHANGED <<view, mailbox>>
    /\ UNCHANGED slot

HearUnavailable ==
    /\ Hears("Unavailable")
    /\ FallsBack(view)
    /\ UNCHANGED slot

HearEnd ==
    /\ Runs /\ view.listening /\ view.underlay
    /\ channel.events = <<>> /\ At("done")
    /\ FallsBack(view)
    /\ UNCHANGED <<worker, slot, cpu, used>>

-----------------------------------------------------------------------------
(* The CPU task.  A new load or the end of the window drops it.            *)

Task(pc) == Runs /\ cpu.pc = pc

OnlyTask == UNCHANGED <<worker, mailbox, channel, slot>>

TaskEnds == cpu' = [NoTask EXCEPT !.pc = "ended"]

CpuLoads(ok) ==
    /\ Task("load")
    /\ \/ /\ ok /\ UNCHANGED used
          /\ \E continuous \in BOOLEAN : cpu' = [cpu EXCEPT !.pc = "check", !.needs = continuous]
          /\ view' = [view EXCEPT !.state = "ready", !.frame = IF view.visible THEN view.generation ELSE @]
       \/ /\ ~ok /\ AFault
          /\ TaskEnds
          /\ view' = [view EXCEPT !.state = "failed", !.frame = 0, !.input = FALSE]
       \/ ok /\ view.cancelled /\ TaskEnds /\ UNCHANGED <<view, used>>
    /\ OnlyTask

\* The head of the frame loop.
CpuChecks ==
    /\ Task("check")
    /\ IF view.underlay THEN TaskEnds
       ELSE cpu' = [cpu EXCEPT !.pc = IF view.visible THEN "wait" ELSE "hidden",
                               !.needs = @ \/ cpu.toggled \/ ~view.visible, !.toggled = FALSE]
    /\ UNCHANGED <<view, used>>
    /\ OnlyTask

\* A change of the frame rate comes first, also before a frame that is due.
CpuHearsRate ==
    /\ Task("wait") \/ Task("hidden")
    /\ cpu.rate
    /\ cpu' = [cpu EXCEPT !.pc = "check", !.rate = FALSE]
    /\ UNCHANGED <<view, used>>
    /\ OnlyTask

CpuCloses ==
    /\ Task("wait") \/ Task("hidden")
    /\ ~cpu.rate /\ cpu.closed
    /\ TaskEnds
    /\ UNCHANGED <<view, used>>
    /\ OnlyTask

\* Input is consumed here, and kept as the need for a frame.
CpuHearsWake ==
    /\ Task("wait") /\ ~cpu.rate /\ ~cpu.closed /\ ~cpu.needs /\ cpu.wake
    /\ cpu' = [cpu EXCEPT !.wake = FALSE, !.needs = TRUE]
    /\ UNCHANGED <<view, used>>
    /\ OnlyTask

CpuStarts ==
    /\ Task("wait") /\ ~cpu.rate /\ ~cpu.closed /\ cpu.needs
    /\ cpu' = [cpu EXCEPT !.pc = "render", !.wake = FALSE]
    /\ view' = [view EXCEPT !.input = FALSE]
    /\ UNCHANGED used
    /\ OnlyTask

CpuRenders(ok) ==
    /\ Task("render")
    /\ \/ /\ ok /\ UNCHANGED used
          /\ \E continuous \in BOOLEAN :
                 cpu' = [cpu EXCEPT !.pc = "check", !.wake = FALSE, !.needs = continuous \/ cpu.wake]
          /\ view' = [view EXCEPT !.frame = IF view.visible THEN view.generation ELSE @]
       \/ /\ ~ok /\ AFault
          /\ TaskEnds
          /\ view' = [view EXCEPT !.state = "failed", !.frame = 0, !.input = FALSE, !.cancelled = TRUE]
       \/ ok /\ view.cancelled /\ TaskEnds /\ UNCHANGED <<view, used>>
    /\ OnlyTask

-----------------------------------------------------------------------------

Over == (view.gone \/ view.quit \in {"over", "late"}) /\ UNCHANGED vars

WorkerNext ==
    \/ \E ok \in BOOLEAN : WorkerInitialises(ok) \/ WorkerClears(ok)
    \/ \E outcome \in {"ok", "cancelled", "ModelLoadFailed", "ModelGpuFailed"} : WorkerLoads(outcome)
    \/ \E outcome \in {"ok", "cancelled", "model", "surface"} : WorkerFirstFrame(outcome)
    \/ \E outcome \in {"ok", "later", "cancelled", "model", "surface"} : WorkerDraws(outcome)
    \/ WorkerIdles \/ WorkerRetries \/ WorkerSends \/ WorkerWaits \/ WorkerBlanks
    \/ WorkerPublishes \/ WorkerNotifies \/ WorkerUndoes

EventNext ==
    HearLoaded \/ HearFrame \/ HearLoadFailed \/ HearGpuFailed \/ HearUnavailable \/ HearEnd

CpuNext ==
    \/ \E ok \in BOOLEAN : CpuLoads(ok) \/ CpuRenders(ok)
    \/ CpuChecks \/ CpuHearsRate \/ CpuCloses \/ CpuHearsWake \/ CpuStarts

Next ==
    \/ WorkerNext \/ WorkerPanics
    \/ EventNext
    \/ CpuNext
    \/ \E model \in BOOLEAN : UserLoads(model)
    \/ UserActs \/ UserSetsRate
    \/ Hide \/ \E ok \in BOOLEAN : Show(ok)
    \/ \E ok \in BOOLEAN : Stopped(ok)
    \/ Close \/ Quit
    \/ \E late \in BOOLEAN : QuitWaits(late)
    \/ Over

Fairness ==
    /\ WF_vars(WorkerNext)
    /\ WF_vars(EventNext)
    /\ WF_vars(CpuNext)
    /\ WF_vars(\E ok \in BOOLEAN : Stopped(ok))
    /\ WF_vars(QuitWaits(FALSE))

Spec == Init /\ [][Next]_vars /\ Fairness

-----------------------------------------------------------------------------

LoadRequests == [gen : Nat, model : BOOLEAN]

TypeOK ==
    /\ view \in [generation : Nat, model : BOOLEAN, state : {"none", "loading", "ready", "failed"},
                 frame : Nat, cancelled : BOOLEAN, input : BOOLEAN, visible : BOOLEAN,
                 underlay : BOOLEAN, listening : BOOLEAN, pending : BOOLEAN, stopped : LoadRequests,
                 restart : BOOLEAN, released : BOOLEAN, restore : BOOLEAN, closing : BOOLEAN,
                 gone : BOOLEAN, quit : {"no", "waits", "late", "over"}]
    /\ worker.pc \in {"first", "init", "top", "load", "frame", "send", "loop", "draw", "blank",
                      "publish", "notify", "undo", "idle", "done"}
    /\ worker.gen \in 0..view.generation
    /\ mailbox \in [load : LoadRequests, wake : BOOLEAN, shutdown : BOOLEAN]
    /\ Len(channel.events) <= Capacity
    /\ slot \in [gen : Nat, frame : BOOLEAN, notified : BOOLEAN]
    /\ cpu.pc \in {"none", "load", "check", "wait", "hidden", "render", "ended"}

\* The surface of the GPU never outlives what it is drawn on: the window goes,
\* and a worker is started or the CPU takes over for good, only when the last
\* worker has ended (begin_gpu_shutdown, restore_gpu_underlay).
SurfaceIsReleasedFirst ==
    /\ TypeOK
    /\ view.underlay => ~view.pending /\ ~mailbox.shutdown
    /\ (~view.underlay /\ ~view.pending /\ view.quit = "no") => At("done")
    /\ (view.gone \/ view.quit = "over") => At("done")

\* A failure of the current model or of the GPU that the window has yet to hear.
FailureUnderWay ==
    \/ At("done")
    \/ worker.event \in {"ModelLoadFailed", "ModelGpuFailed"} /\ At("send") /\ worker.gen = view.generation
    \/ worker.event = "Unavailable" /\ At("send")
    \/ \E i \in DOMAIN channel.events :
           \/ channel.events[i].type = "Unavailable"
           \/ /\ channel.events[i].type \in {"ModelLoadFailed", "ModelGpuFailed"}
              /\ channel.events[i].gen = view.generation

\* The generation is in the mailbox or in the hands of the worker.
GpuDraws ==
    \/ mailbox.load.gen = view.generation
    \/ worker.gen = view.generation /\ ~At("idle")

\* A model that is loading or ready has a renderer, or will have one: whatever
\* the order of failures, of hiding and showing and of new loads, the model
\* neither hangs in its loading state nor freezes.  A model that the GPU has is
\* announced to the window, and the CPU task of another generation never runs.
ModelHasRenderer ==
    (Runs /\ ~view.closing /\ view.state \in {"loading", "ready"}) =>
        \/ /\ view.underlay /\ view.listening
           /\ GpuDraws \/ FailureUnderWay
           /\ \/ view.state = "ready" \/ FailureUnderWay
              \/ mailbox.load.gen = view.generation
              \/ worker.gen = view.generation /\ worker.pc \in {"init", "top", "load", "frame"}
              \/ At("send") /\ worker.event = "ModelLoaded" /\ worker.gen = view.generation
              \/ \E i \in DOMAIN channel.events :
                     channel.events[i] = Event("ModelLoaded", view.generation)
        \/ ~view.underlay /\ cpu.pc \notin {"none", "ended"}
        \/ view.pending /\ view.restart /\ view.stopped.gen = view.generation /\ view.stopped.model
        \/ view.pending /\ view.restore /\ view.visible

\* What the window shows is the current model, and nothing while it is hidden;
\* and a newer frame in the slot is never left there: the notification of it is
\* under way, also when the channel was full and the notification taken back.
NewestFrameIsShown ==
    /\ view.frame # 0 => view.frame = view.generation /\ view.visible
    /\ (Runs /\ view.underlay /\ slot.frame /\ slot.gen = view.generation) =>
           \/ At("notify") \/ At("done")
           \/ \E i \in DOMAIN channel.events :
                  channel.events[i] \in {Event(type, view.generation) :
                                             type \in {"ModelLoaded", "FrameAvailable"}}

\* Input that waits for the renderer of the current model has left it a reason
\* to draw: a wake-up outlives the replacement of a model, the wait for a
\* surface, a change of the frame rate and the time the pet is hidden.
InputIsSeen ==
    (Runs /\ view.input /\ view.state \in {"loading", "ready"}) =>
        /\ view.underlay =>
               \/ mailbox.wake \/ worker.woken \/ At("draw") \/ At("done")
               \/ worker.gen = view.generation /\ (worker.render \/ worker.continuous)
        /\ (~view.underlay /\ Listens) =>
               \/ cpu.wake \/ cpu.needs \/ cpu.pc = "load"
               \/ cpu.pc = "hidden"
        /\ (~view.underlay /\ cpu.pc = "hidden" /\ view.visible) => cpu.rate \/ cpu.closed

\* A model that loads is loaded or fails, a shutdown of the worker ends, and so
\* does the program: the worker never waits for a window that waits for it.
PetSettles ==
    /\ (view.state = "loading") ~> (view.state # "loading" \/ ~Runs \/ view.closing)
    /\ view.pending ~> (~view.pending \/ ~Runs)
    /\ (view.quit = "waits") ~> view.quit # "waits"

====
