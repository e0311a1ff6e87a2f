----------------------------- MODULE AgentCore -----------------------------
(***************************************************************************)
(* The Agent of lunamate-agent: one chat session, one runtime              *)
(* configuration and the persisted document of every persona, shared by    *)
(* calls that run concurrently (agent_runtime.rs, agent_request.rs,        *)
(* agent_context.rs, agent_coordination.rs, store.rs).                     *)
(*                                                                         *)
(* A step is one critical section of the state mutex, one clone of the     *)
(* runtime lock taken outside it, or one host callback made while holding  *)
(* the turn of the document coordinator.  The coordinator appears as the   *)
(* queue it implements (OrderedOperations.tla): the head runs, a dropped   *)
(* call leaves the queue.                                                  *)
(***************************************************************************)
EXTENDS Naturals, FiniteSets, Sequences

CONSTANTS
    Personas,      \* personas of the configuration
    FirstPersona,  \* the persona Agent::load started with
    Calls,         \* slots, each for one call of the public API
    Offers,        \* workloads: what each slot may call in one of them
    MaxConfig,     \* bound on configuration revisions
    MaxFaults,     \* bound on failing host callbacks
    MaxDeltas,     \* bound on streamed events per request
    Utterances,    \* utterance numbers of the voice pipeline
    FirstDocs      \* what the personas' documents may be at the start

Apis == {"apply", "send", "cancel", "suspend", "resume", "voice", "unvoice", "take",
         "delete", "edit", "clear", "shutdown"}

Background == "background"   \* owner of the save tasks that persist() spawns

ASSUME AgentAssumption ==
    /\ FirstPersona \in Personas
    /\ Offers \subseteq [Calls -> SUBSET Apis]
    /\ MaxConfig \in Nat /\ MaxFaults \in Nat /\ MaxDeltas \in Nat
    /\ Utterances \subseteq Nat \ {0}
    /\ Background \notin Calls
    /\ FirstDocs \subseteq [Personas -> {"none", "ok", "invalid", "unsupported"}]

VARIABLES
    target,   \* target[r]: the persona that configuration revision r selects
    runtime,  \* Agent::runtime (RwLock): persona, revision, configuration_revision
    state,    \* Agent::state (Mutex): AgentState
    stores,   \* every ChatSessionStore created so far; state.store is one of them
    docs,     \* the persisted session document of each persona
    queue,    \* reserved document operations, in reservation order
    calls,    \* what each call is doing
    faults    \* host callbacks that failed

vars == <<target, runtime, state, stores, docs, queue, calls, faults>>

-----------------------------------------------------------------------------
\* Sessions.  A turn is its id, the persona in whose session it was started,
\* and the state of its assistant message ("edited": completed by an edit).
Terminal == {"complete", "failed", "cancelled", "interrupted", "voice", "edited"}

NoSession(p) == [home |-> p, turns |-> {}, active |-> 0, responses |-> 0, next |-> 1]

\* from_snapshot: responses are numbered afresh, turn ids continue, and a
\* response that was streaming comes back interrupted.
Restored(p, turns) ==
    [NoSession(p) EXCEPT
        !.turns = {IF t.st = "streaming" THEN [t EXCEPT !.st = "interrupted"] ELSE t : t \in turns},
        !.next = IF turns = {} THEN 1
                 ELSE 1 + CHOOSE n \in {t.id : t \in turns} : \A t \in turns : t.id <= n]

\* load_persona_session: the session and the store installed for a document.
\* An unsupported document, or a failing load, leaves the session without a
\* store; an invalid one is to be overwritten.
LoadResult(p, doc) ==
    IF doc.kind = "ok" THEN Restored(p, doc.turns) ELSE NoSession(p)

\* Variant: an unsupported document gets a writable store, like an invalid one.
WritableAlways(doc) == doc.kind \in {"none", "ok", "invalid", "unsupported"}

Writable(doc) == doc.kind # "unsupported"

\* start_turn_with_image without an active response.
Started(s) ==
    [s EXCEPT !.turns = @ \cup {[id |-> s.next, home |-> s.home, st |-> "streaming"]},
              !.active = s.responses + 1,
              !.responses = @ + 1,
              !.next = @ + 1]

\* set_response_state for the active response, whatever it is.
Ended(s, st) ==
    [s EXCEPT !.turns = {IF t.st = "streaming" THEN [t EXCEPT !.st = st] ELSE t : t \in @},
              !.active = 0]

\* discard_response_turn
Discarded(s) == [s EXCEPT !.turns = {t \in @ : t.st # "streaming"}, !.active = 0]

\* delete_messages of one turn, edit_message of its answer; neither applies
\* to a turn that is streaming, which every caller has interrupted before.
Mutated(api, turns, n) ==
    IF api = "delete" THEN {t \in turns : t.id # n}
    ELSE {IF t.id = n THEN [t EXCEPT !.st = "edited"] ELSE t : t \in turns}
Has(turns, n) == \E t \in turns : t.id = n

NoRequest == [rid |-> 0, rev |-> 0, call |-> Background]
NoVoice == [utterance |-> 0, rev |-> 0, persona |-> FirstPersona]

\* abort_active_request: the provider task is aborted; events it already sent
\* are still in the channel of the send call.
Aborted(s) == [s EXCEPT !.active_request = NoRequest]

\* Variant: the response id of the event is not compared.
IsCurrentAnyResponse(s, rid, rev) ==
    s.active_request.rev = rev /\ s.session.active # 0

\* request_is_current, and the response is the session's active one.
IsCurrent(s, rid, rev) ==
    /\ s.active_request.rid = rid /\ s.active_request.rev = rev
    /\ s.session.active = rid

-----------------------------------------------------------------------------
\* Document operations.
\* ChatSessionStore::new: revisions order the writes of this process only.
NewStore(p, ok) == [persona |-> p, ok |-> ok, latest |-> 0, tried |-> 0]
StoreOf(s) == stores[s.store]

\* The save of the session in s, after persist_revision was advanced.
SaveOf(s, c) == [op |-> "save", call |-> c, persona |-> StoreOf(s).persona,
                 store |-> s.store, n |-> s.persist_revision, turns |-> s.session.turns]

OpOf(op, c) == [op |-> op, call |-> c, persona |-> calls[c].persona,
                store |-> 0, n |-> calls[c].n, turns |-> {}]

\* next_revision(persist_revision), reserve, snapshot: the four lines every
\* critical section that persists ends with.  An unavailable store saves nothing.
Bumped(s) == [s EXCEPT !.persist_revision = @ + 1]
EnqueueSave(s, c) ==
    queue' = IF StoreOf(s).ok THEN Append(queue, SaveOf(s, c)) ELSE queue

\* ChatSessionStore::should_attempt
ShouldAttempt(store, rev) == rev > store.latest /\ rev >= store.tried

-----------------------------------------------------------------------------
IdleCall == [api |-> "none", pc |-> "idle", then |-> "done", persona |-> FirstPersona,
             n |-> 0, rt |-> [persona |-> FirstPersona, rev |-> 0], rid |-> 0, out |-> "none",
             loaded |-> NoSession(FirstPersona), events |-> 0, doomed |-> FALSE, stale |-> FALSE]

Init ==
    /\ target \in [1 .. MaxConfig -> Personas]
    /\ runtime = [persona |-> FirstPersona, rev |-> 1, cfg |-> 0]
    /\ \E kinds \in FirstDocs :
          docs = [p \in Personas |->
                [kind |-> kinds[p],
                 turns |-> IF kinds[p] = "ok" THEN {[id |-> 1, home |-> p, st |-> "complete"]} ELSE {}]]
    /\ stores = << NewStore(FirstPersona, Writable(docs[FirstPersona])) >>
    /\ state = [session |-> LoadResult(FirstPersona, docs[FirstPersona]), store |-> 1,
                persist_revision |-> 0, active_request |-> NoRequest, request_revision |-> 1,
                pending_cfg |-> 0, switching |-> FALSE, suspended |-> FALSE,
                shutting_down |-> FALSE, pending_voice |-> NoVoice]
    /\ queue = <<>>
    /\ calls = [c \in Calls |-> IdleCall]
    /\ faults = 0

\* Control of one call.
At(c, api, pc) == calls[c].api = api /\ calls[c].pc = pc
Goto(c, pc) == calls' = [calls EXCEPT ![c].pc = pc]
PersistThen(c, how, pc) == calls' = [calls EXCEPT ![c].pc = how, ![c].then = pc]
Finished(c, out) == [IdleCall EXCEPT !.api = calls[c].api, !.pc = "done", !.out = out,
                                     !.n = calls[c].n, !.persona = calls[c].persona]
Return(c, out) == calls' = [calls EXCEPT ![c] = Finished(c, out)]
Running(c) == calls[c].pc \notin {"idle", "done"}

\* cancel, suspend, resume and the voice calls all come from the UI thread,
\* which makes them one after the other.
UiApis == {"cancel", "suspend", "resume", "voice", "unvoice", "take"}
UiFree == \A c \in Calls : calls[c].api \in UiApis => ~Running(c)

\* The calls made so far and this one belong to one workload.
Enter(c, api) ==
    /\ calls[c].pc = "idle"
    /\ \E offer \in Offers : /\ api \in offer[c]
                             /\ \A d \in Calls : calls[d].api \in offer[d] \cup {"none"}
Opened(c, api, pc) == [calls[c] EXCEPT !.api = api, !.pc = pc]

\* A lifecycle change that outdates inputs composed before it (history only).
Outdate(cs) == [d \in Calls |-> IF cs[d].api = "send" /\ cs[d].pc \in {"input", "cloned"}
                                THEN [cs[d] EXCEPT !.stale = TRUE] ELSE cs[d]]

-----------------------------------------------------------------------------
\* persist(force): throttled unless forced; clones the session as it is now.
Persist(c) ==
    /\ calls[c].pc \in {"persist", "persist_weak"}
    /\ \/ StoreOf(state).ok /\ state' = Bumped(state) /\ EnqueueSave(state', Background)
       \/ /\ ~StoreOf(state).ok \/ calls[c].pc = "persist_weak"
          /\ UNCHANGED <<state, queue>>
    /\ Goto(c, calls[c].then)
    /\ UNCHANGED <<target, runtime, stores, docs, faults>>

-----------------------------------------------------------------------------
\* apply_configuration.  The UI spawns it with ever newer configuration
\* revisions; a refresh drops the task of the previous one, which then stops
\* at its next suspension point (ui/agent/configuration.rs).
Spawnable(rev) ==
    \A c \in Calls : calls[c].api = "apply" =>
        IF Running(c) \/ calls[c].out = "applied" THEN calls[c].n < rev ELSE calls[c].n <= rev

Refresh(c, rev) ==
    /\ Enter(c, "apply") /\ UiFree
    /\ Spawnable(rev)
    /\ calls' = [d \in Calls |->
          IF d = c THEN [Opened(c, "apply", "spawned") EXCEPT !.n = rev, !.persona = target[rev]]
          ELSE IF calls[d].api = "apply" /\ Running(d) THEN [calls[d] EXCEPT !.doomed = TRUE]
          ELSE calls[d]]
    /\ state' = [state EXCEPT !.pending_voice = NoVoice]
    /\ UNCHANGED <<target, runtime, stores, docs, queue, faults>>

\* The first critical section rejects, ...
Outdated(rev) ==
    \/ rev <= runtime.cfg
    \/ rev < state.pending_cfg
    \/ rev = state.pending_cfg /\ state.switching

ApplyReject(c) ==
    /\ At(c, "apply", "spawned")
    /\ \/ Outdated(calls[c].n) /\ Return(c, "rejected")
       \/ ~Outdated(calls[c].n) /\ state.shutting_down /\ Return(c, "error")
    /\ UNCHANGED <<target, runtime, state, stores, docs, queue, faults>>

Accepted(c) ==
    /\ At(c, "apply", "spawned")
    /\ ~Outdated(calls[c].n)
    /\ ~state.shutting_down

\* Variant: the provider request is not aborted.
InterruptedKeepsRequest(s, rev) ==
    [s EXCEPT !.session = Ended(s.session, "interrupted"),
              !.pending_voice = NoVoice, !.pending_cfg = rev]

\* what both branches do to the state: older work is invalidated, ...
Interrupted(s, rev) ==
    [Aborted(s) EXCEPT !.session = Ended(s.session, "interrupted"),
                       !.pending_voice = NoVoice, !.pending_cfg = rev]

\* ... replaces the configuration under the same persona, ...
ApplySamePersona(c) ==
    /\ Accepted(c)
    /\ calls[c].persona = runtime.persona
    /\ state' = [Interrupted(state, calls[c].n) EXCEPT !.switching = FALSE]
    /\ runtime' = [runtime EXCEPT !.rev = @ + 1, !.cfg = calls[c].n]
    /\ calls' = [calls EXCEPT ![c].pc = "persist_weak", ![c].then = "applied"]
    /\ UNCHANGED <<target, stores, docs, queue, faults>>

ApplyDone(c) ==
    /\ At(c, "apply", "applied")
    /\ Return(c, "applied")
    /\ UNCHANGED <<target, runtime, state, stores, docs, queue, faults>>

\* ... or begins to switch: the old session is saved first.
ApplySwitch(c) ==
    /\ Accepted(c)
    /\ calls[c].persona # runtime.persona
    /\ state' = [Bumped(Interrupted(state, calls[c].n)) EXCEPT !.switching = TRUE]
    /\ EnqueueSave(state', c)
    /\ Goto(c, IF StoreOf(state).ok THEN "saving" ELSE "saved")
    /\ UNCHANGED <<target, runtime, stores, docs, faults>>

\* The old session is saved, load_persona_session reserves its turn.
ApplyLoad(c) ==
    /\ At(c, "apply", "saved")
    /\ calls[c].out # "error"
    /\ queue' = Append(queue, OpOf("load", c))
    /\ Goto(c, "loading")
    /\ UNCHANGED <<target, runtime, state, stores, docs, faults>>

\* The save failed: only the newest configuration leaves the switching state.
ApplySaveFailed(c) ==
    /\ At(c, "apply", "saved")
    /\ calls[c].out = "error"
    /\ state' = IF state.pending_cfg = calls[c].n /\ runtime.cfg < calls[c].n
                THEN [state EXCEPT !.switching = FALSE] ELSE state
    /\ Return(c, "error")
    /\ UNCHANGED <<target, runtime, stores, docs, queue, faults>>

\* Variant: a newer pending configuration does not stop an older one.
StillPendingThoughNewer(rev) == state.switching /\ rev > runtime.cfg

\* The second critical section installs the loaded session, unless a newer
\* configuration was accepted meanwhile or the agent shuts down.
StillPending(rev) ==
    /\ state.pending_cfg = rev
    /\ state.switching
    /\ rev > runtime.cfg

\* Variants: the store or the pending utterance of the old persona is kept.
ApplyInstallKeepsStore(c) ==
    /\ At(c, "apply", "loaded")
    /\ StillPending(calls[c].n) /\ ~state.shutting_down
    /\ runtime' = [persona |-> calls[c].persona, rev |-> runtime.rev + 1, cfg |-> calls[c].n]
    /\ state' = [Aborted(state) EXCEPT
                    !.session = calls[c].loaded, !.pending_voice = NoVoice, !.switching = FALSE]
    /\ Return(c, "applied")
    /\ UNCHANGED <<target, stores, docs, queue, faults>>

ApplyInstallKeepsVoice(c) ==
    /\ At(c, "apply", "loaded")
    /\ StillPending(calls[c].n) /\ ~state.shutting_down
    /\ stores' = Append(stores, NewStore(calls[c].persona, calls[c].out # "unavailable"))
    /\ runtime' = [persona |-> calls[c].persona, rev |-> runtime.rev + 1, cfg |-> calls[c].n]
    /\ state' = [Aborted(state) EXCEPT
                    !.session = calls[c].loaded, !.store = Len(stores'), !.persist_revision = 0,
                    !.switching = FALSE]
    /\ Return(c, "applied")
    /\ UNCHANGED <<target, docs, queue, faults>>

ApplyInstall(c) ==
    /\ At(c, "apply", "loaded")
    /\ StillPending(calls[c].n) /\ ~state.shutting_down
    /\ stores' = Append(stores, NewStore(calls[c].persona, calls[c].out # "unavailable"))
    /\ runtime' = [persona |-> calls[c].persona, rev |-> runtime.rev + 1, cfg |-> calls[c].n]
    /\ state' = [Aborted(state) EXCEPT
                    !.session = calls[c].loaded, !.store = Len(stores'), !.persist_revision = 0,
                    !.pending_voice = NoVoice, !.switching = FALSE]
    /\ Return(c, "applied")
    /\ UNCHANGED <<target, docs, queue, faults>>

ApplyDiscard(c) ==
    /\ At(c, "apply", "loaded")
    /\ \/ ~StillPending(calls[c].n) /\ Return(c, "rejected") /\ UNCHANGED state
       \/ /\ StillPending(calls[c].n) /\ state.shutting_down
          /\ state' = [state EXCEPT !.switching = FALSE]
          /\ Return(c, "error")
    /\ UNCHANGED <<target, runtime, stores, docs, queue, faults>>

\* Variant: the reservation of a dropped call keeps its place in the queue.
DropApplyKeepsTurn(c) ==
    /\ calls[c].doomed
    /\ calls[c].pc \in {"spawned", "saving", "saved", "loading", "loaded"}
    /\ queue' = [i \in DOMAIN queue |->
                    IF queue[i].call = c THEN [queue[i] EXCEPT !.op = "dead"] ELSE queue[i]]
    /\ Return(c, "dropped")
    /\ UNCHANGED <<target, runtime, state, stores, docs, faults>>

\* SessionOperationReservation::drop: the operation of a call, which has at
\* most one, leaves the queue.
Withdrawn(c) ==
    LET at == {i \in DOMAIN queue : queue[i].call = c}
        i == CHOOSE i \in at : TRUE
    IN  IF at = {} THEN queue
        ELSE SubSeq(queue, 1, i - 1) \o SubSeq(queue, i + 1, Len(queue))

\* The task of a replaced refresh is dropped where it is suspended.
DropApply(c) ==
    /\ calls[c].doomed
    /\ calls[c].pc \in {"spawned", "saving", "saved", "loading", "loaded"}
    /\ queue' = Withdrawn(c)
    /\ Return(c, "dropped")
    /\ UNCHANGED <<target, runtime, state, stores, docs, faults>>

-----------------------------------------------------------------------------
\* send.  The UI gives up a pending utterance and reads the request revision
\* when it composes the input.  It also asks a snapshot of the agent whether an
\* answer streams, but that snapshot lags behind: no guard comes of it.
SendInput(c) ==
    /\ Enter(c, "send") /\ UiFree
    /\ calls' = [calls EXCEPT ![c] = [Opened(c, "send", "input") EXCEPT !.n = state.request_revision]]
    /\ state' = [state EXCEPT !.pending_voice = NoVoice]
    /\ UNCHANGED <<target, runtime, stores, docs, queue, faults>>

\* The runtime is cloned before the state is locked.
Clone == [persona |-> runtime.persona, rev |-> runtime.rev]

SendClone(c) ==
    /\ At(c, "send", "input")
    /\ calls' = [calls EXCEPT ![c].pc = "cloned", ![c].rt = Clone]
    /\ UNCHANGED <<target, runtime, state, stores, docs, queue, faults>>

\* Variant: a shutdown does not refuse messages.
MayStartInShutdown(c) ==
    /\ ~state.suspended
    /\ calls[c].n = state.request_revision
    /\ ~state.switching
    /\ state.session.active = 0

\* The refusals of send.
MayStart(c) ==
    /\ ~state.shutting_down
    /\ ~state.suspended
    /\ calls[c].n = state.request_revision
    /\ ~state.switching
    /\ state.session.active = 0

SendStart(c) ==
    /\ At(c, "send", "cloned")
    /\ IF MayStart(c)
       THEN /\ state' = [state EXCEPT
                   !.session = Started(@), !.pending_voice = NoVoice,
                   !.active_request = [rid |-> state.session.responses + 1,
                                        rev |-> calls[c].rt.rev, call |-> c]]
            /\ calls' = [calls EXCEPT ![c].rid = state.session.responses + 1,
                                     ![c].pc = "persist", ![c].then = "streaming"]
       ELSE Return(c, "error") /\ UNCHANGED state
    /\ UNCHANGED <<target, runtime, stores, docs, queue, faults>>

Mine(c) == IsCurrent(state, calls[c].rid, calls[c].rt.rev)

\* apply_stream_event: an event of a request that is no longer current ends
\* the loop; a delta is kept, a terminal event fixes the answer's state.
EndState == {"complete", "failed"}

\* Variant: the end of an answer is saved only when the interval has passed.
StreamEventThrottled(c) ==
    /\ At(c, "send", "streaming")
    /\ \/ ~Mine(c) /\ Goto(c, "ending") /\ UNCHANGED state
       \/ /\ Mine(c)
          /\ \E st \in EndState :
                state' = [Aborted(state) EXCEPT !.session = Ended(@, st)]
          /\ PersistThen(c, "persist_weak", "ending")
    /\ UNCHANGED <<target, runtime, stores, docs, queue, faults>>

StreamEvent(c) ==
    /\ At(c, "send", "streaming")
    /\ \/ ~Mine(c) /\ Goto(c, "ending") /\ UNCHANGED state
       \/ /\ Mine(c) /\ calls[c].events < MaxDeltas
          /\ calls' = [calls EXCEPT ![c].events = @ + 1,
                                   ![c].pc = "persist_weak", ![c].then = "streaming"]
          /\ UNCHANGED state
       \/ /\ Mine(c)
          /\ \E st \in EndState :
                state' = [Aborted(state) EXCEPT !.session = Ended(@, st)]
          /\ PersistThen(c, "persist", "ending")
    /\ UNCHANGED <<target, runtime, stores, docs, queue, faults>>

\* The event channel closed without a terminal event.
StreamClosed(c) ==
    /\ At(c, "send", "streaming")
    /\ Goto(c, "ending")
    /\ UNCHANGED <<target, runtime, state, stores, docs, queue, faults>>

\* After the provider task: a response that is still current failed, except
\* when the task of this call was aborted (Ok(Err(_)): the call just returns).  A
\* task that completed just before it was aborted could end a later request of
\* the same ids; there is one only where RepliesReachTheirOwnRequest says so.
SendEnd(c) ==
    /\ At(c, "send", "ending")
    /\ IF Mine(c) /\ state.active_request.call = c
       THEN /\ state' = [Aborted(state) EXCEPT !.session = Ended(@, "failed")]
            /\ PersistThen(c, "persist", "ended")
       ELSE Return(c, "ended") /\ UNCHANGED state
    /\ UNCHANGED <<target, runtime, stores, docs, queue, faults>>

\* A call whose last step was persist() returns.
Finish(c) ==
    /\ calls[c].pc = "ended"
    /\ Return(c, "ended")
    /\ UNCHANGED <<target, runtime, state, stores, docs, queue, faults>>

-----------------------------------------------------------------------------
\* Calls of the UI thread.  Those that end the active answer persist after
\* the critical section, the others return at once.
UiStep(c, api) ==
    /\ Enter(c, api)
    /\ UiFree
    /\ UNCHANGED <<target, runtime, stores, docs, queue, faults>>

\* next_revision(request_revision): inputs composed before are stale.
NewRequests(s) == [s EXCEPT !.request_revision = @ + 1]

Cancel(c) ==
    /\ UiStep(c, "cancel")
    /\ state.session.active # 0
    /\ state' = [NewRequests(Aborted(state)) EXCEPT !.session = Ended(@, "cancelled")]
    /\ calls' = [Outdate(calls) EXCEPT
                    ![c] = [Opened(c, "cancel", "persist") EXCEPT !.then = "ended"]]

\* suspend_and_discard_active_turn; the UI hides the pet only once.
Suspend(c) ==
    /\ UiStep(c, "suspend")
    /\ ~state.suspended
    /\ state' = [NewRequests(Aborted(state)) EXCEPT
                    !.suspended = TRUE, !.pending_voice = NoVoice, !.session = Discarded(@)]
    /\ calls' = [Outdate(calls) EXCEPT
                    ![c] = [Opened(c, "suspend", IF state.session.active # 0 THEN "persist" ELSE "ended")
                               EXCEPT !.then = "ended"]]

Resume(c) ==
    /\ UiStep(c, "resume")
    /\ state.suspended
    /\ state' = [state EXCEPT !.suspended = FALSE]
    /\ calls' = [calls EXCEPT ![c] = Opened(c, "resume", "ended")]

\* voice_started and take_voice_transcript clone the runtime first.
VoiceClone(c, api, utterance) ==
    /\ UiStep(c, api)
    /\ calls' = [calls EXCEPT ![c] = [Opened(c, api, "cloned") EXCEPT !.n = utterance, !.rt = Clone]]
    /\ UNCHANGED state

VoiceStarted(c) ==
    /\ At(c, "voice", "cloned")
    /\ LET voice == [utterance |-> calls[c].n, rev |-> calls[c].rt.rev, persona |-> calls[c].rt.persona]
       IN  IF state.shutting_down \/ state.pending_voice.utterance >= calls[c].n
           THEN Return(c, "none") /\ UNCHANGED state
           ELSE /\ state' = [NewRequests(Aborted(state)) EXCEPT
                               !.pending_voice = voice, !.session = Ended(@, "voice")]
                /\ calls' = [Outdate(calls) EXCEPT
                               ![c].pc = IF state.session.active # 0 THEN "persist" ELSE "ended",
                               ![c].then = "ended"]
    /\ UNCHANGED <<target, runtime, stores, docs, queue, faults>>

\* The pending voice still belongs to the runtime that was cloned.
VoiceFresh(c) ==
    /\ state.pending_voice.rev = calls[c].rt.rev
    /\ state.pending_voice.persona = calls[c].rt.persona
    /\ ~state.switching
    /\ ~state.shutting_down
    /\ state.session.active = 0

TakeTranscript(c) ==
    /\ At(c, "take", "cloned")
    /\ \/ /\ state.pending_voice.utterance # calls[c].n
          /\ Return(c, "none") /\ UNCHANGED state
       \/ /\ state.pending_voice.utterance = calls[c].n
          /\ Return(c, IF VoiceFresh(c) THEN "accepted" ELSE "none")
          /\ state' = [state EXCEPT !.pending_voice = NoVoice]
    /\ UNCHANGED <<target, runtime, stores, docs, queue, faults>>

CancelVoice(c, utterance) ==
    /\ UiStep(c, "unvoice")
    /\ state.pending_voice.utterance = utterance
    /\ state' = [state EXCEPT !.pending_voice = NoVoice]
    /\ calls' = [calls EXCEPT ![c] = [Opened(c, "unvoice", "ended") EXCEPT !.n = utterance]]

-----------------------------------------------------------------------------
\* edit_context_message, delete_context_messages and clear_context of the
\* settings page.  The runtime is cloned first: its persona decides whether
\* the running session or only a document is changed.
Edits == {"delete", "edit", "clear"}

EditClone(c, api, p, n) ==
    /\ Enter(c, api)
    /\ calls' = [calls EXCEPT ![c] = [Opened(c, api, "cloned") EXCEPT
                                         !.persona = p, !.n = n, !.rt = Clone]]
    /\ UNCHANGED <<target, runtime, state, stores, docs, queue, faults>>

\* Another persona: the document is changed in its turn of the queue.
EditElsewhere(c) ==
    /\ calls[c].api \in Edits /\ calls[c].pc = "cloned"
    /\ calls[c].rt.persona # calls[c].persona
    /\ queue' = Append(queue, OpOf(calls[c].api, c))
    /\ Goto(c, "waiting")
    /\ UNCHANGED <<target, runtime, state, stores, docs, faults>>

\* Variant: the snapshot is taken before the change.
SaveAndWaitUnchanged(c, unsaved) ==
    /\ EnqueueSave([state EXCEPT !.persist_revision = @ + 1], c)
    /\ IF StoreOf(state).ok THEN Goto(c, "waiting") ELSE Return(c, unsaved)

\* What every critical section that waits for its save ends with.
SaveAndWait(c, unsaved) ==
    /\ EnqueueSave(state', c)
    /\ IF StoreOf(state).ok THEN Goto(c, "waiting") ELSE Return(c, unsaved)

\* The running persona: an active answer is interrupted first, also when the
\* message turns out to be missing.
EditHere(c) ==
    /\ calls[c].api \in {"delete", "edit"} /\ calls[c].pc = "cloned"
    /\ calls[c].rt.persona = calls[c].persona
    /\ LET quiet == [Aborted(state) EXCEPT !.session = Ended(@, "interrupted")]
       IN  IF Has(quiet.session.turns, calls[c].n)
           THEN /\ state' = Bumped([quiet EXCEPT
                      !.session.turns = Mutated(calls[c].api, @, calls[c].n)])
                /\ SaveAndWait(c, "error")
           ELSE state' = quiet /\ Return(c, "error") /\ UNCHANGED queue
    /\ UNCHANGED <<target, runtime, stores, docs, faults>>

ClearHere(c) ==
    /\ At(c, "clear", "cloned")
    /\ calls[c].rt.persona = calls[c].persona
    /\ state' = Bumped([Aborted(state) EXCEPT !.session.turns = {}, !.session.active = 0])
    /\ SaveAndWait(c, "error")
    /\ UNCHANGED <<target, runtime, stores, docs, faults>>

\* shutdown, on the host's way out.
Shutdown(c) ==
    /\ Enter(c, "shutdown")
    /\ state' = [Bumped(Aborted(state)) EXCEPT
                    !.session = Ended(@, "interrupted"),
                    !.shutting_down = TRUE, !.pending_voice = NoVoice]
    /\ EnqueueSave(state', c)
    /\ calls' = [calls EXCEPT ![c] =
          IF StoreOf(state).ok THEN Opened(c, "shutdown", "waiting")
          ELSE [Opened(c, "shutdown", "done") EXCEPT !.out = "ok"]]
    /\ UNCHANGED <<target, runtime, stores, docs, faults>>

-----------------------------------------------------------------------------
\* The head of the queue calls the host's persistence callback and returns.
Op == Head(queue)
Serving(op) == queue # <<>> /\ Op.op \in op /\ queue' = Tail(queue)

Deliver(out) ==
    calls' = IF Op.call = Background THEN calls
             ELSE [calls EXCEPT ![Op.call] =
                      IF @.api = "apply" THEN [@ EXCEPT !.pc = "saved", !.out = out]
                      ELSE Finished(Op.call, out)]

Fail(out) ==
    /\ faults < MaxFaults
    /\ faults' = faults + 1
    /\ Deliver(out)
    /\ UNCHANGED docs

Write(p, doc) ==
    /\ docs' = [docs EXCEPT ![p] = doc]
    /\ Deliver("ok")
    /\ UNCHANGED faults

Document(turns) == [kind |-> "ok", turns |-> turns]

\* save_reserved
ServeSave ==
    /\ Serving({"save"})
    /\ \/ /\ ~ShouldAttempt(stores[Op.store], Op.n)
          /\ Deliver("ok")
          /\ UNCHANGED <<docs, faults, stores>>
       \/ /\ ShouldAttempt(stores[Op.store], Op.n)
          /\ Write(Op.persona, Document(Op.turns))
          /\ stores' = [stores EXCEPT ![Op.store].latest = Op.n, ![Op.store].tried = Op.n]
       \/ /\ ShouldAttempt(stores[Op.store], Op.n)
          /\ Fail("error")
          /\ stores' = [stores EXCEPT ![Op.store].tried = Op.n]
    /\ UNCHANGED <<target, runtime, state>>

Loaded(session, out) ==
    calls' = [calls EXCEPT ![Op.call].pc = "loaded", ![Op.call].loaded = session, ![Op.call].out = out]

ServeLoad ==
    /\ Serving({"load"})
    /\ \/ /\ Loaded(LoadResult(Op.persona, docs[Op.persona]),
                    IF Writable(docs[Op.persona]) THEN "ok" ELSE "unavailable")
          /\ UNCHANGED faults
       \/ /\ faults < MaxFaults
          /\ faults' = faults + 1
          /\ Loaded(NoSession(Op.persona), "unavailable")
    /\ UNCHANGED <<target, runtime, state, stores, docs>>

\* mutate_persona_session_reserved: read, change, write, under one turn.
ServeEdit ==
    /\ Serving({"delete", "edit"})
    /\ LET turns == Restored(Op.persona, docs[Op.persona].turns).turns
       IN  \/ /\ Has(turns, Op.n)
              /\ Write(Op.persona, Document(Mutated(Op.op, turns, Op.n)))
           \/ ~Has(turns, Op.n) /\ Deliver("error") /\ UNCHANGED <<docs, faults>>
           \/ Fail("error")
    /\ UNCHANGED <<target, runtime, state, stores>>

\* delete_persona_session_reserved
ServeClear ==
    /\ Serving({"clear"})
    /\ \/ Write(Op.persona, [kind |-> "none", turns |-> {}])
       \/ Fail("error")
    /\ UNCHANGED <<target, runtime, state, stores>>

Serve == ServeSave \/ ServeLoad \/ ServeEdit \/ ServeClear

-----------------------------------------------------------------------------
ApplyStep(c) == \/ ApplyReject(c) \/ ApplySamePersona(c) \/ ApplyDone(c) \/ ApplySwitch(c)
                \/ ApplyLoad(c) \/ ApplySaveFailed(c) \/ ApplyInstall(c) \/ ApplyDiscard(c)
                \/ DropApply(c)
SendStep(c) == SendClone(c) \/ SendStart(c) \/ StreamEvent(c) \/ StreamClosed(c) \/ SendEnd(c)
UiCall(c) == \/ Cancel(c) \/ Suspend(c) \/ Resume(c)
             \/ \E u \in Utterances : \/ VoiceClone(c, "voice", u) \/ VoiceClone(c, "take", u)
                                      \/ CancelVoice(c, u)
VoiceStep(c) == VoiceStarted(c) \/ TakeTranscript(c)

\* The settings page offers the messages it can see: those of a document or
\* of the running session.
Visible(p) == {t.id : t \in docs[p].turns \cup {u \in state.session.turns : u.home = p}}
EditCall(c) ==
    \E p \in Personas :
        \/ \E n \in Visible(p) : EditClone(c, "delete", p, n) \/ EditClone(c, "edit", p, n)
        \/ EditClone(c, "clear", p, 0)
EditStep(c) == EditElsewhere(c) \/ EditHere(c) \/ ClearHere(c)

Start(c) ==
    \/ \E rev \in 1 .. MaxConfig : Refresh(c, rev)
    \/ SendInput(c) \/ UiCall(c) \/ EditCall(c) \/ Shutdown(c)

\* What a call that was started does next.
Advance(c) ==
    Persist(c) \/ ApplyStep(c) \/ SendStep(c) \/ VoiceStep(c) \/ EditStep(c) \/ Finish(c)

\* Every call that will be made has returned and nothing is queued.
Quiet == queue = <<>> /\ \A c \in Calls : ~Running(c)
Rest == Quiet /\ UNCHANGED vars

Next == Serve \/ Rest \/ \E c \in Calls : Start(c) \/ Advance(c)

Spec == Init /\ [][Next]_vars

\* Tokio polls every task that can make progress, every host callback
\* returns, a provider stream ends (its transport has timeouts), and the lock
\* serves its queue (DocumentCoordinator).  Nothing makes a call start.
FairSpec == /\ Spec
            /\ WF_vars(Serve)
            /\ \A c \in Calls : WF_vars(Advance(c))
-----------------------------------------------------------------------------
Turns == [id : Nat \ {0}, home : Personas, st : Terminal \cup {"streaming"}]
Requests == [rid : Nat, rev : Nat, call : Calls \cup {Background}]

\* The state is well typed, and turn ids are unique in the session and below
\* the next one (next_turn_id survives a save and a restore).
TypeOK ==
    /\ runtime \in [persona : Personas, rev : Nat, cfg : 0 .. MaxConfig]
    /\ state.session.turns \subseteq Turns
    /\ state.session.home \in Personas
    /\ state.active_request \in Requests
    /\ state.store \in DOMAIN stores
    /\ \A p \in Personas : docs[p].turns \subseteq Turns
    /\ \A i \in DOMAIN queue : queue[i].call \in Calls \cup {Background}
    /\ \A c \in Calls : calls[c].api \in Apis \cup {"none"}
    /\ \A t, u \in state.session.turns : t.id = u.id => t = u
    /\ \A t \in state.session.turns : t.id < state.session.next

\* The session has an active response exactly when a provider request is
\* held, the request answers it, and exactly one turn is streaming: an answer
\* never streams without an owner and no two answers stream at once.
ActiveRequestOwnsResponse ==
    LET streaming == {t \in state.session.turns : t.st = "streaming"}
    IN  /\ state.active_request.rid = state.session.active
        /\ Cardinality(streaming) = IF state.session.active = 0 THEN 0 ELSE 1

\* A send whose events are still taken is the one that started the active
\* request: what an aborted provider left in its channel never reaches the
\* answer of a later request (apply_stream_event, request_is_current), also
\* when a switch of personas has restarted the response ids.  Not covered is an
\* answer that send started with a runtime it had cloned before a change of the
\* configuration: such a request can have the ids of one from before a switch.
RepliesReachTheirOwnRequest ==
    \A c \in Calls :
        (/\ At(c, "send", "streaming") /\ calls[c].rid # 0 /\ Mine(c)
         /\ state.active_request.rev = runtime.rev)
            => state.active_request.call = c

\* While the pet is hidden no answer is produced
\* (suspend_and_discard_active_turn).
HiddenPetIsSilent == state.suspended => state.session.active = 0

\* After shutdown no answer is produced and no input starts one.
NoReplyAfterShutdown == state.shutting_down => state.session.active = 0

\* No interleaving makes a hidden or a stopped pet answer.
SilenceHolds == HiddenPetIsSilent /\ NoReplyAfterShutdown

\* An input composed before a cancellation, a hiding or a voice utterance
\* never starts an answer, whenever its send runs (request_revision).
StaleInputNeverStarts ==
    \A c \in Calls : calls[c].stale => calls[c].pc \in {"input", "cloned", "done"}

\* An answer is one that somebody still wants: its events go to the request that
\* asked for them, and what was overtaken never asks.
AnswersAreWanted == RepliesReachTheirOwnRequest /\ StaleInputNeverStarts

\* A transcript is accepted only under the persona and the runtime its
\* utterance was registered under, as they are at that moment and not as they
\* were cloned, and never in the middle of a switch (take_voice_transcript).
TranscriptIsFresh ==
    [][\A c \in Calls : (At(c, "take", "cloned") /\ calls'[c].out = "accepted")
          => /\ state.pending_voice.rev = runtime.rev
             /\ state.pending_voice.persona = state.session.home
             /\ ~state.switching]_vars

\* Every turn in a persona's document, in a save on its way to it and in the
\* running session was started under that persona: a late save never writes
\* the previous persona's conversation into the next one's record
\* (store.rs, ChatSessionStore).
TurnsKeepTheirPersona ==
    /\ \A p \in Personas : \A t \in docs[p].turns : t.home = p
    /\ \A i \in DOMAIN queue : \A t \in queue[i].turns : t.home = queue[i].persona
    /\ \A t \in state.session.turns : t.home = state.session.home

\* The session and the store that saves it are the runtime persona's own.
SessionFollowsRuntime ==
    /\ state.session.home = runtime.persona
    /\ StoreOf(state).ok => StoreOf(state).persona = runtime.persona

\* Conversations of different personas never mix.
ConversationsStayApart == TurnsKeepTheirPersona /\ SessionFollowsRuntime

\* A session is exchanged only after every turn of it is in its document or
\* in a save that was reserved for it, unless its store is unavailable or a
\* callback failed (apply_configuration saves the old context first).
SwitchKeepsTheOldTurns ==
    [][(state'.store # state.store /\ StoreOf(state).ok /\ faults = 0)
          => \A t \in state.session.turns :
                \/ Has(docs[runtime.persona].turns, t.id)
                \/ \E i \in DOMAIN queue : /\ queue[i].persona = runtime.persona
                                           /\ Has(queue[i].turns, t.id)]_vars

\* A document of an unknown format is replaced only by clear_context of its
\* persona, never by a save of the session that could not read it.
UnsupportedDocumentIsKept ==
    [][\A p \in Personas : (docs[p].kind = "unsupported" /\ docs'[p] # docs[p])
          => queue # <<>> /\ Op.op = "clear" /\ Op.persona = p]_vars

\* A switch loses no stored conversation: neither the one it leaves nor one it
\* could not read.
DocumentsArePreserved == UnsupportedDocumentIsKept /\ SwitchKeepsTheOldTurns

\* What a restart would restore from p's document.
Recovered(p) == Restored(p, docs[p].turns).turns

\* When everything has returned, a restart restores the session that is
\* running: no save was lost, overtaken by an older one, or written elsewhere
\* (persist, save_reserved, should_attempt).
QuietSessionIsDurable ==
    (Quiet /\ faults = 0 /\ StoreOf(state).ok)
        => Recovered(runtime.persona) = Restored(runtime.persona, state.session.turns).turns

\* A shutdown that reports success has written the final session, even when
\* earlier saves failed, and nothing that was still running changes it after.
ShutdownIsDurable ==
    \A c \in Calls : (At(c, "shutdown", "done") /\ calls[c].out = "ok" /\ StoreOf(state).ok)
        => docs[runtime.persona].turns = state.session.turns

\* What is in memory when the program comes to rest is what a restart finds.
SessionsAreDurable == QuietSessionIsDurable /\ ShutdownIsDurable

\* A deletion that was acknowledged lasts: the turn is gone from the document
\* and from the session that runs under that persona.
AcknowledgedDeletionLasts ==
    (Quiet /\ faults = 0) =>
        \A c \in Calls : (At(c, "delete", "done") /\ calls[c].out = "ok") =>
            /\ ~Has(docs[calls[c].persona].turns, calls[c].n)
            /\ calls[c].persona = state.session.home
                  => ~Has(state.session.turns, calls[c].n)

\* When everything has returned and no save failed, the newest configuration
\* the host asked for is the one that runs (apply_configuration; refreshes
\* are spawned, dropped and resumed in any order).
NewestConfigurationWins ==
    (Quiet /\ faults = 0 /\ ~state.shutting_down)
        => \A c \in Calls : calls[c].api = "apply"
              => /\ calls[c].n <= runtime.cfg
                 /\ runtime.persona = target[runtime.cfg]
                 /\ ~state.switching

\* A switch that no call is working on any more does not leave the agent
\* refusing messages: some apply that will end it is running.
SwitchHasAnOwner ==
    state.switching => \/ state.shutting_down
                       \/ \E c \in Calls : calls[c].api = "apply" /\ Running(c)

\* However refreshes and switches interleave, the newest configuration runs in
\* the end and no switch is left behind.
SwitchesSettle == NewestConfigurationWins /\ SwitchHasAnOwner

\* Every call that was started returns, whatever fails or is dropped.
EveryCallReturns == \A c \in Calls : Running(c) ~> ~Running(c)
=============================================================================
