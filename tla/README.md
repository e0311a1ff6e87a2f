# Formal model of LunaMate

TLA+ modules for the parts of LunaMate where several tasks, threads or crashes
meet: the Agent of `crates/lunamate-agent` with its session, its provider task
and the queue that orders its document operations, the configuration store of
`crates/lunamate-config`, the voice pipeline, the renderers of the pet and the
deletion of personas.  TLC checks the modules on small instances; the theorems
named in section 5 are proved for every instance with TLAPS.

LunaMate is a Live2D desktop pet.  The GPUI thread owns the windows; a Tokio
runtime runs the Agent's network and database work; the background executor
writes configuration; dedicated threads run the voice pipeline, speech
recognition and the GPU renderer.

## 1. Inventory

Paths are relative to `src/`.  "A:" is `crates/lunamate-agent/src`, "C:" is
`crates/lunamate-config/src`, "U:" is `src`.

### Session document coordinator (A:store.rs)
State: `next_sequence`, `next_to_run`, `cancelled`, `running`, a `Notify`.
Operations: `reserve` takes a ticket under the caller's own lock; `wait_turn`
sleeps until the ticket is due; dropping a reservation skips the ticket,
dropping the guard passes the turn on.  Shared by every operation on a session
document, of any persona.  Hard: tasks are dropped at any await, so tickets
must be skipped exactly once and no wake-up may be lost.  Correct when: turns
are exclusive, in reservation order, nobody is overtaken (a superseded save
would answer `Ok` without writing), everybody gets a turn or is dropped.

### Agent core (A:agent_runtime.rs, agent_request.rs, agent_context.rs, agent_coordination.rs, store.rs)
State: `runtime` (RwLock: persona, model, prompt, revision, configuration
revision), `state` (Mutex: session, store, active request, request revision,
pending configuration, switching, suspended, shutting down, pending voice,
persist revision), and the documents behind the host's callbacks.  Operations:
`send` with its event loop, `cancel_active`, `suspend_and_discard_active_turn`,
`resume`, `voice_started`, `take_voice_transcript`, `cancel_voice`,
`apply_configuration`, `edit_context_message`, `delete_context_messages`,
`clear_context`, `shutdown`, and the save tasks `persist` spawns.  Hard: the
runtime is cloned before the state is locked; `apply_configuration` has two
awaits between its critical sections and is dropped when a newer refresh
starts; provider events outlive an abort; callbacks fail.  Correct when: turns
of a persona stay in its document, the newest configuration wins, a switch
ends, an answer belongs to its request, nothing happens to a hidden or closing
pet, what was saved or deleted stays so.

### Chat session (A:session/)
State: messages, token and image sums, active response, id counters, the voice
interruption marker.  Operations: `start_turn`, `append`, finishing states,
`update_limits`, delete, edit, clear, snapshot and restore.  Hard: trimming to
three budgets around an active turn, sums that must match the messages after
any sequence of calls, a snapshot taken during an answer.

### Provider (A:provider/, tools.rs, transport.rs)
A task per request: stream, one round of tools, retries, a bounded event
channel of 16, a deadline per wait and one for the reply.  Hard: abort at any
point, a full channel at a deadline, a retry after something was shown, the
window that answers an outfit request late, the permission revoked in between.
Correct when: the text is what came, once and in order; the trace is true;
nothing is sent after a revocation; the reply ends.

### Configuration store (C:)
State: `config.toml`; one atomic or snapshot per domain; one request counter
per domain; `write_lock`, `revision_lock`, the screenshot execution gate; the
Agent snapshot with its generation.  Operations: `reserve_*_revision` on the UI
thread, `set_*_at_revision` on the background executor, lock-free reads,
`begin_agent_screenshot_capture`.  Hard: tasks run in any order, several
domains write one file, the permission is four atomics read without a lock, a
write may fail with an unknown result, the machine may stop between rename and
sync.  Correct when: no update is lost, the newest request stands, memory and
file agree, the permission is never wider than the file nor used after it was
revoked, an acknowledged change survives.

### Voice pipeline (U:voice/, U:ui/agent/voice.rs)
State of the worker thread: revision, active utterance, pending transcription,
manual samples; one-slot transcription queue with its own thread.  Hard: late
transcripts, cancellation by a new utterance, lost audio, configuration
changes.  Correct when: an utterance ends once, whoever waits for a
transcription is answered, and the microphone is open for the user only.

### Pet renderers (U:ui/desktop_pet/, U:model/gpu_underlay/)
State: the view's generation, model state and frame; the GPU worker with its
mailbox, event channel and one-frame slot; the CPU task with two wake channels.
Operations: load, show, hide, input, fallback, restart, close, quit.  Hard:
three actors and two ways of drawing one window, notifications that coalesce
or do not fit, shutting down while any of it is under way.  Correct when: the
surface goes before the window, a model keeps a renderer, the newest frame and
input are not lost, everything comes to rest.

### Persona deletion (U:ui/settings/agent/persona/, A:memory.rs)
State: the published settings with their tombstones, the drafts of open and
closed windows, the claims in the Agent's memory, the stored data.  Operations:
delete, create, save, clean, hear of the results, open and close the window.
Hard: two writes with two deletions between them, ids that are used again,
windows closed in the middle, a crash anywhere.  Correct when: no persona
inherits the data of a deleted one and nothing of a living one is deleted.

### Chat view (U:ui/agent/) and the other settings (U:ui/settings/)
Views on the UI thread that start tasks and compare generations when results
come back: the refresh of the Agent's configuration, drafts and saves of every
settings page, the model scan.

### Others
Global shortcuts (U:shortcut/), database engine (U:database/), frame scheduler
and animation (U:model/), platform bindings, logging, theme, and the vendored
`crates/lunamate-mocari`.  `PROJECT.json` lists each with what is and is not
modelled; its hazards list names the line where each hard behaviour bites.

### Interaction
The settings window writes configuration and emits a change; the chat view
reads the Agent snapshot and spawns `apply_configuration` with its generation;
the Agent saves and loads documents through callbacks into the database; the
voice worker sends events to the desktop pet view, which calls the chat view,
which calls the Agent; the Agent's tools ask the configuration store for the
screenshot lease.

## 2. Modules and how they correspond to the code

| Module | What it is |
|---|---|
| `OrderedOperations` | What the coordinator promises: a queue whose head may run, from which a caller that gives up disappears |
| `DocumentCoordinator` | `SessionDocumentCoordinator` step by step, with `Notify`; refines `OrderedOperations` |
| `AgentCore` | The Agent's calls over `state`, `runtime`, stores, documents and the queue |
| `ChatSession` | One bounded session, a pure state machine |
| `ReplyStream` | The provider's task, its channel, the loop that reads it, the window that changes outfits |
| `ConfigCommit` | Configuration writes, the Agent snapshot, the screenshot permission, crash and restart |
| `PersonaDeletion` | Tombstones, cleanups, claims and the windows that drive them, crash and restart |
| `VoicePipeline` | The voice worker, the audio callback, the transcription queue and its thread, the window's side |
| `PetRenderer` | The view's renderers: the GPU worker and the CPU task |
| `...Proofs` | Theorems about the module of that name |
| `AgentRequestsProofs` | More theorems about `AgentCore`, building on `AgentCoreProofs` |
| `MC...` | The instances TLC checks; modules whose constants are numbers need none |

**DocumentCoordinator.**  `ops[o]` is the local state of one operation: idle,
reserved, checking, waiting on `notified`, holding the guard, done.  `Arm` is
`notify.notified()`, taken before the check, `CheckTurn` the block under the
lock; dropping is possible at every await.  `Notify` wakes every registered
waiter and keeps no permit.

**AgentCore.**  One step is one critical section of `state`, one clone of
`runtime` outside it, or one host callback made while holding the turn.  The
coordinator appears as the queue that `DocumentCoordinator` is shown to
implement: the head is served, a dropped call leaves the queue.  Calls are
slots; `Offer` says which calls a slot may make, and each makes one.  A turn is
its id, the persona in whose session it was started (`home`, which the code
does not store: it is how the properties recognise a turn) and the state of its
answer.  `SendInput`, refreshes and the calls of the pet window happen on the
UI thread one after the other (`UiFree`).  `active_request.call` stands for the
`AbortHandle`.  `stale` marks inputs that a cancel, a hide or an utterance
outdated; no action reads it.  `DropApply` is the chat view's
`refresh_task = None`.

**ChatSession.**  A message is its id, turn, role, state and sizes (text, image,
trace); a text is its number of tokens.  `Use` is what messages count in the
three totals, which the session keeps running (`usage`) and never computes anew.
`Trim` is the eviction of whole turns by which new turns, chunks and new limits
make room, as one operator; `Context` is the request the session builds, with
the interruption marker.  `Restore` is the writing of the session at any moment
and the next `from_snapshot`, turn by turn (`TakeTurn`), under limits that may have
changed; `ValidSnapshot` is what it demands.  `answer` is what the last call
returned.

**ReplyStream.**  A step of the task is one poll, from one await to the next;
`task` holds the locals of `stream_chat`, `stream_with_retry` and
`consume_stream` that its control depends on.  Whether the total deadline has
passed is the state `late`; a shorter deadline may expire at any wait for it.
`heard` is what came from the provider, against which the reply is compared; a
piece of text carries its round and attempt.  Three things look odd and are the
code's: a flush that meets the total deadline over a full channel counts as a
complete stream, so a finished reply may lack its end (`\/ late` in
`ReplyIsFaithful`); an image revoked between capture and request is taken out
although the request would be given up anyway; and an outfit request is
answered as failed by dropping it.

**ConfigCommit.**  A writer is one reserved change on its way through the
background task: `Reserve` (under `revision_lock`; for the permission in two
steps, as lock-free readers can see it), `Lock`, `Prepare`, `Commit` or
`CommitPermission` and `ApplyPermission`, `SyncParent`.  `file` is what a
reader sees, `recoverable` what a crash may leave.  A tool execution reads the
permission as the code does, one atomic at a time, and repeats when the counter
moved.  The value of a domain is 0 or 1; `other` stands for the domains that
publish one atomic of their own.

**PersonaDeletion.**  A persona is the number of its birth, so two personas with
one id can be told apart; `stored` says whose data the database holds.  An
editor is the state of a settings window's persona page, which lives on after
the window is closed (`retired`) until its writes and cleanups have ended.  A
handler of the UI thread is one action.  `Inputs` bounds what the user does
between the end of a task and the handler of its result: the code runs them on
different threads, and that gap is where the flaw below is met first.
`used.early` is history and no guard reads it: the ids that were given to
another persona while the claim on their finished cleanup was still held, which
is what the flaw comes down to.

**VoicePipeline.**  A handler of the worker is one action on the part of the
state it owns (`Own`, `Owns`), as functions that follow one another like the
code's methods.  A configuration has a revision, and whoever finds a command,
event or result of an older one drops it.  Draining the audio buffer is two
steps, for the callback writes it in between.  The Whisper thread takes, runs
and reports a job in separate steps, because `cancel_utterance` may come between
any two.

**PetRenderer.**  Every load is a generation; a frame is the number of its
generation.  A handler of the window is one action, the worker's steps follow
the blocking points of `run.rs`: the mailbox, the channel, the surface.

## 3. Runs

| Run | Checks | Bounds and states |
|---|---|---|
| `coordinator` | `TurnsAreKept`, `NobodyStarves`, refinement `ImplementsOrder` | 4 operations, each dropped or not; 130,000 |
| `agent_switches` | `ConversationsStayApart`, `SwitchesSettle`, `ActiveRequestOwnsResponse`, `DocumentsArePreserved`, `TranscriptIsFresh`, `EveryCallReturns` | 2 personas, 3 configurations, up to 4 calls, 1 failing callback, unread and stored documents; 423,000 |
| `agent_replies` | `AnswersAreWanted`, `SilenceHolds`, `SessionsAreDurable`, `AcknowledgedDeletionLasts` | 2 sends against cancel, hide, voice, shutdown, resume, or a send against 2 edits; 1 delta, 1 fault, no switch; 2.6 million |
| `config_commit` | `FileMatchesMemory`, `NewestChangeLasts`, `CaptureIsPermitted`, `ClosedIsNotReopened` | 3 writers over 5 settings, 1 tool, 1 fault, 1 crash; 818,000 |
| `chat_session` | `BudgetsHold`, `ReplyKeepsItsPlace`, `RequestIsAnswerable`, `InterruptionIsOwed`, `SnapshotRestores`, `RefusedCallsChangeNothing` | 3 turns, 2 limits of 3 or 5 messages, sizes 0 to 2, 1 image, 1 trace; 456,000 |
| `reply_stream` | `ReplyIsFaithful`, `TraceTellsTheTruth`, `RevocationIsHonoured`, `EveryReplyEnds` | channel of 1, 1 retry, 2 tool calls, 1 piece of text per attempt; 766,000 |
| `persona_deletion` | `FreedIdsLeaveNothing`, `ClaimIsHonest`, `LivingMemoryIsKept` | 2 ids, 3 births, 2 windows, 1 input before a result is heard, 1 fault, 1 crash; 2.6 million |
| `voice_pipeline` | `VoiceWorkHasOwner`, `MicrophoneServesTheUser`, `RequestHasReader`, `UtterancesEndOnce`, `EverythingEnds` | push-to-talk and local, automatic and remote, off; 2 utterances, 1 press, 1 incident; 859,000 |
| `pet_renderer` | `SurfaceIsReleasedFirst`, `ModelHasRenderer`, `NewestFrameIsShown`, `InputIsSeen`, `PetSettles` | channel of 1, 4 orders of the user, 2 failures; 653,000 |

Why the bounds are enough to be interesting.  In the Agent and in the
configuration every race is between two calls plus at most one that drops,
fails or supersedes one of them; three slots give every such triple in every
order.  Two personas are what "another persona" needs; a third configuration
is what returns to the first persona.  One fault distinguishes "this callback
failed" from "none did"; the recoveries do not count failures.  A session of
three turns has one that is evicted, one that is kept and one that streams; the
narrow limits let an edit or a lower limit evict in the middle of an answer.
The wide ones hold five messages, two turns and half of one whose other half was
deleted: with four, an earlier form of `TellsInterruption` passed that was false
(section 5, `ChatSessionProofs`).
A channel of one is full as soon as anything is in it, so every send meets a
full channel; two tool calls give every pair of a capture and an outfit, and
the text of two rounds.  A second piece of text in an attempt was checked too
(liveness then takes 213 s; nothing new appears).  Two ids are needed for one
to be reused while the other is cleaned; two windows for a closed one that is
still at work.  Two personas exist at the start: a third birth uses an id again, a fourth
does so a second time.  `persona_deletion` was also checked once, beyond the time of a
run kept here, with four births and either the fault (15 million states) or the
crash (10 million), without an error.  Two utterances are one and its successor, which is all that the
one-slot queue can confuse.  Four orders are a load, hiding, showing and one
more load; two failures are the GPU's and then the CPU's.

Deadlock is checked in every run: the rest states (`Rest`, `Over`, `Ended`)
are enabled only when every started call, thread or task has come to its end,
so one that cannot go on is reported.

### Runs that refute a statement of the repository

- `lost_deletion` (`AcknowledgedDeletionLasts`): `mutate_context` decides from a
  cloned runtime that a message belongs to a persona that is not running and
  changes its document.  A switch to that persona that has already loaded the
  document installs the old contents; the deletion was acknowledged, and the
  next save undoes it.
- `forgotten_revocation` (`ClosedIsOnDiskOrRetried`): with the permission
  granted in the file, revoking and granting again before the first task has
  run, and a failing second write, leave it closed in memory, granted in the
  file and no retry pending; the settings page ignores another "off", the next
  start opens it.
- `persona_forgotten_claim` (`NoOrphanedMemory`): a save without changes, between
  the commit that drops a tombstone and the handler that hears of it, makes the
  window forget the id; the claim of the finished cleanup stays `completed`.
  When the id is reused and deleted again, its cleanup is refused, the next
  window takes the old claim for the new deletion, and the persona after that
  inherits the data.  This takes no fault, no crash and three births.

  What goes wrong is that the id is free before the claim on it is released.
  With a fourth birth it comes about without a save in between, too: a window
  is closed before its editor has claimed the cleanup, so the draft it leaves to
  the settings does not reserve the id; the tombstone is dropped from that draft,
  and the next window finds the id free while the write that drops it is still
  under way.  `persona_deletion` therefore leaves no behaviour out.  It has
  saves without changes and as many births, and its properties speak of every id
  except those that were used again too early (`used.early`), from that moment
  on: whatever else fails, stops or is closed, nothing else in the deletion
  leaves data behind, deletes what is alive, or lets a claim lie.

Known and without a run of their own, as relatives of the first: `clear_context`
compares the persona before it locks the state, and so may empty the session of
the persona that was just switched to; `send` clones the runtime before it locks
the state, and a switch does not advance `request_revision`, so the old
persona's prompt and model may answer into the new persona's session; and since
response ids restart with each loaded session, events of an aborted request can
then pass for those of its successor (section 5, `AgentRequestsProofs`).  This is
why `agent_replies` has no switch.

## 4. Fairness

- `DocumentCoordinator`: a reserved operation is polled or dropped and a guard is
  dropped in the end (weak fairness per operation).
- `AgentCore` (`FairSpec`): Tokio polls a task that can go on, a host callback
  returns or fails, a provider stream ends because its transport has timeouts
  (`ReplyStream` shows it), and the queue is served, which is what the
  coordinator's own liveness gives.  No call has to start.
- `ReplyStream`: Tokio polls the task, or drops it when it was aborted, and polls
  the reader; the clock reaches the total deadline.  The provider, the window and
  the user owe nothing.
- `VoicePipeline`: the worker and the Whisper thread run, the window handles its
  events, a remote request ends (its client has a timeout), an open device
  delivers samples, the key is let go (if only by its timer), and a recording that
  goes on ends, because `MAX_UTTERANCE_SAMPLES` cuts it: this last one is a
  strong fairness, for the buffer is emptied in between.  The worker's is stated
  with the condition that enables it (`WorkerReady`), which is what weak fairness
  says when that condition is stable.
- `PetRenderer`: the worker, the CPU task and the window run; joining the worker
  ends, and the wait for it on quitting has a timeout.  The user owes nothing.
  A surface that is occluded or times out is assumed to become ready: the code
  tries again without a bound (`run.rs:182-191`, `397-416`), and the model counts
  a frame that is put off as one of its faults.
- `ConfigCommit`, `ChatSession`, `PersonaDeletion`: none; their runs check safety
  and deadlock.

## 5. What is proved

`DocumentCoordinatorProofs`, for every set of operations:

- `CoordinatorTypeCorrect`: `Spec => []TypeOK`.
- `TurnsAreNeverLost`: `Spec => []TurnsAreKept`: exclusion, no gap, no overtaking
  and no lost wake-up.
- `CoordinatorKeepsOrder`: every step maps to a step or a stutter of
  `OrderedOperations`.

Type correctness and exclusion are not inductive alone.  `IInv` adds: tickets
below `next_sequence` are exactly the ones handed out, and distinct; a guard
exists iff `running`, and its ticket is `next_to_run`; the cancelled set holds
only tickets of dropped reservations not yet passed; every ticket from
`next_to_run` on is live or cancelled; and when nobody runs, `next_to_run` is not
cancelled.  The last two are what makes a dropped ticket harmless and a due
one reachable; a sleeper whose ticket is due has been woken.

`AgentCoreProofs`, for any sets of personas and calls and any bounds
(`AgentAssumption`: the bounds are numbers, utterances are positive, there is a
first persona, the offered calls exist, and the save tasks' owner is no call):

- `AgentTypeCorrect`: `Spec => []TypeOK`.
- `AnswersHaveOneOwner`: `Spec => []ActiveRequestOwnsResponse`.
- `SilencedPetStaysSilent`: `Spec => []SilenceHolds`.
- `PersonasStayApart`: `Spec => []ConversationsStayApart`.

One inductive invariant serves all four, `IInv`, a conjunction over the parts of
the state.  None of the properties is inductive alone, because each step copies
turns from one part into another:

- `StateOK`: the session is of the runtime's persona and contains a streaming
  turn exactly when the active request names it; when the pet is hidden or
  closing there is none.
- `StoresOK`: a store that may write is of the runtime's persona.  `persist`
  and the final save write through the current store, so this is what keeps a
  session out of another document.
- `DocsOK`: every document holds only turns of its persona, with distinct ids.
- `QueueOK`: a queued save holds turns of the persona it will write to, and a
  queued load is of the persona its call is about.
- `CallsOK`: a session that `apply_configuration` has loaded and not yet
  installed is quiet (no answer streams in it) and of the persona that will
  become the runtime's.  Without it the install could break `StateOK`.

`Restored` numbers the next turn after the greatest id of the document, so
ids are kept below a bound (`GoodTurns`); that a bounded set of numbers has a
greatest element is the lemma `Greatest`, from well-foundedness of `<`.
`NextIInv` has one lemma per action, each with one step per conjunct that the
action disturbs; the lemmas on `CallsStep` and on the queue say once what a
step may do to them.

`ConfigCommitProofs`, for any sets of changes and tool executions and any number
of failures and crashes (`ConfigAssumption`: the changes name known domains and
values, the bounds are numbers, and the free lock's mark is no writer):

- `ConfigTypeCorrect`: `Spec => []TypeOK`.
- `MemoryFollowsFile`: `Spec => []FileMatchesMemory`.
- `NewestChangeStands`: `Spec => []NewestChangeLasts`.
- `CapturesArePermitted`: `Spec => []CaptureIsPermitted`.
- `RevocationStays`: `Spec => ClosedIsNotReopened`.

The last four are the properties of the run `config_commit`.  None of the
invariants is inductive alone; `IInv`
adds what the two locks and the revisions are for:

- `LocksOK`: a lock is held exactly by the writer between its taking and its
  release, so at most one change is between `Lock` and `SyncParent`.
- `RevisionsOK`: a revision of a domain belongs to one writer, none is above the
  counter, and the writer in a two-step store holds the newest.
- `WorkOK`: the document and the snapshot that the holder of `write_lock`
  composed are still the file and the snapshot with its change applied.  This is
  what lets changes of different domains not lose each other.
- `ChangesOK`: the newest change stands from its rename on, not only once it is
  reported.
- `PermissionOK`: the revision that makes the permission count is never that of
  a change still on its way.  Hence a half-published grant is worth nothing.
- `ToolsOK`: what a tool has loaded is still true while the counter is the one it
  loaded first (`Fresh`), and a capture is only checked under the lease, which
  keeps reservations out until it is dispatched.

`RevocationStays` is a step property: only a commit renames, and `Current`, which
it checks under `revision_lock`, compares the requested value.

`AgentRequestsProofs`, under the same assumptions, on what a request may still
do when its turn comes:

- `AnswersTheorem`: `Spec => []AnswersAreWanted`.
- `TranscriptTheorem`: `Spec => TranscriptIsFresh`.
- `UnreadableTheorem`: `Spec => UnsupportedDocumentIsKept`, the half of
  `DocumentsArePreserved` that holds in every instance: a document that could
  not be read is never written.

The invariant `RInv` is `IInv` with three parts that relate the calls to each
other.  `Waiting`: a call has at most one operation in the queue, and is waiting
for it.  `Requests`: what a call found when it cloned the runtime is not newer than
the runtime and the state it will find; two answers never have the same response
id under the same revision; and the call of the active request still reads its
events.  `Documents`: who may write a document could read it.

The attempt at the first theorem refuted what `RepliesReachTheirOwnRequest`
had said before.  Two inputs are composed and both clone the runtime; the first
starts its answer, a switch of personas installs a session whose response ids
start again and aborts the answer, and the second starts in it, with the old
clone.  Its request then has the response id and the revision of the aborted
one, and `request_is_current` (`agent_request.rs:348`) takes what is still in the
first channel for its own, although `agent_runtime.rs:180` says that a change of
persona makes the old requests invalid at once.  The property is now stated for
answers that started under the runtime that runs, which is what is proved.
It takes a switch and two sends; `agent_replies` has no switch.

Its second part is about the configuration:

- `SwitchesTheorem`: `Spec => []SwitchesSettle`.

`SInv` is `RInv` with: `Configured` (the persona and the revision that run are of
one configuration, and one that is pending belongs to a call), `Applies` (the
place of each `apply_configuration` bounds its revision, and one that failed or was
dropped has been replaced by a newer one that is not), `Ordered` (the running call
that nothing has replaced has the newest revision), `Switcher` (while the Agent
is switching, the call with the pending revision is at one of the awaits of the
switch, or was dropped there) and `Pursued` (without faults, a revision that
does not run yet has a call at least as new on its way to it).

Its third part is about what reaches the document, as long as one persona is
selected (`OnePersona`: every configuration revision selects the persona the
Agent started with; the settings page may still edit any persona's history):

- `DurabilityTheorem`: `(Spec /\ OnePersona) => []SessionsAreDurable`, for
  workloads that do not edit a conversation that is being shut down
  (`NoLateEdits`, as those of `agent_replies` are).
- `QuietTheorem`: its first half, `QuietSessionIsDurable`, for every workload.
- `DeletionTheorem`: `(Spec /\ OnePersona) => []AcknowledgedDeletionLasts`.

Neither hypothesis can be dropped.  Where personas are switched a deletion
may be undone (`lost_deletion`).  An edit after a shutdown changes the session at
once and the document only in its turn of the queue, so the two differ for a
while although the shutdown has reported success.

The invariant `DInv` is `RInv` with: `Settled` (one store, one persona, no switch
on its way; which says where a call can be), `Lined` (the saves in the queue were
reserved in order and none was tried, so `should_attempt` refuses none of them;
every other operation changes the document of another persona), `Durable` (with no
failed save, the last save that waits, or the document if none does, is to a
restart what the session is, or a call is on its way to `persist()`) and `Deleted`
(a turn whose deletion is reserved is not in the session, and its id is below the
next one).  "To a restart" (`Settle`) matters: the deltas of an answer are saved
with a weak `persist`, and a restart makes an interrupted answer of a streaming one.
Every step of a call has a `Footprint`: it leaves the queue and, to a restart,
the session as they are, or leaves a call owing a save, or reserves the session
as it is after the step, or reserves a change elsewhere.  For the shutdown, `ZInv`
adds `Sealed`: every save from the shutdown's own on carries the final session.
TLC looked for counterexamples to both invariants before they were proved, also
with configurations that keep the persona, and found none.

`ReplyStreamProofs`, for any numbers of retries, tool calls, pieces of text and
any capacity of the channel:

- `FaithfulTheorem`: `Spec => []ReplyIsFaithful`.
- `TraceTheorem`: `Spec => []TraceTellsTheTruth`.
- `RevocationTheorem`: `Spec => RevocationIsHonoured`.

`IInv` says where things are while they are on their way.  `PhaseOK`: the place
of the task decides what its locals hold.  `TextOK`: what was heard is the text
of the reply, then that of the events in the channel, then what is still
batched; the two cuts are named, so a step only moves one of them.  `AttemptsOK`:
only an attempt that heard nothing is tried again.  `PlacesOK`: an outfit request
is in exactly one place, with the task, in the channel, with the window, or
answered.  `OutfitsOK` and `TraceOK`: the trace says of a tool what its place
says.  `ImageOK`: an image in the request was captured under the permission that
the capability was issued for.

`PetRendererProofs`, for any capacity of the channel and any bounds:

- `SurfaceTheorem`: `Spec => []SurfaceIsReleasedFirst`.
- `NewestFrameTheorem`: `Spec => []NewestFrameIsShown`.
- `InputTheorem`: `Spec => []InputIsSeen`.
- `RendererTheorem`: `Spec => []ModelHasRenderer`.

Here the invariant is about three actors' knowledge of each other.  `Surface`:
with an underlay no shutdown was asked and no CPU task runs, without one the
worker has gone or its channel was closed.  `Generations` and `Models`: the
worker knows the current load or has it in the mailbox.  `Announcements`: the
channel says nothing of a load that was not announced yet, and a worker whose
load failed idles with its failure last in the channel.  `Frames`: while it
draws, the last event in the channel is of its load, so a channel that is full
stands for the notification that did not fit.  `Inputs` and `Fallback`: an input
that was not seen has a wake-up under way, also across the change of renderers.

`VoicePipelineProofs`, for any configurations and any numbers of utterances,
presses and incidents:

- `VoiceWorkTheorem`: `Spec => []VoiceWorkHasOwner`.
- `MicrophoneTheorem`: `Spec => []MicrophoneServesTheUser`.
- `RequestTheorem`: `Spec => []RequestHasReader`.
- `UtteranceTheorem`: `Spec => []UtterancesEndOnce`.

None of the four is inductive: each says that something is under way in a
channel, and what keeps it there is what else is in the channels and in which
order.  Of the worker alone: `Fields` (what is recorded or transcribed is the
newest utterance, and only one of the two), `Recording` (for whom the microphone
is open) and `EndsOK` (an utterance that has not ended is the worker's or still to
come).  Of the worker and the others: `Wakes` (while the callback may skip its
wake-up, one is in the channel), `Jobs` (a job in the queue or with the Whisper
thread is of the worker's past, and the last cancellation is not of the one it
waits for), `Stream` (events name utterances in order, and ends that happened),
`Owed` (what an event begins, a later one or the worker ends), `Holds` (the same of
what the window waits for, and its request is not asked for a second time),
`Results` (a result is of a request nobody else will answer) and `Served` (whoever
the worker waits for is there).  A handler of the worker is a chain of functions
on what it owns, so the parts take that record instead of the variables, and
there is one lemma for each function: what it keeps of the parts (`Kept`), and
what its caller needs to know of the result (`Outcome`).  `Recording` and `Wakes`
break inside a handler and are restored at its end.

`ChatSessionProofs`, for any limits of at least two messages, any sizes, budgets
and number of turns (`SessionAssumption`: these are numbers):

- `ConversationStaysInOrder`: `Spec => []IInv`.
- `ConversationKeepsItsBudgets`: `Spec => []BudgetsHold`.
- `RunningReplyKeepsItsPlace`: `Spec => []ReplyKeepsItsPlace`.
- `EveryRequestIsAnswerable`: `Spec => []RequestIsAnswerable`.
- `InterruptionStaysOwed`: `Spec => []InterruptionIsOwed`.
- `EverySnapshotRestores`: `Spec => []SnapshotRestores`.
- `RefusalChangesNothing`: `Spec => RefusedCallsChangeNothing`.

All of them follow from one invariant.  `Shape`: messages are sound, ids grow
along the queue, and two messages of one turn are a question and the answer right
behind it.  `Answering` and `Streams`: a running reply is the last message, its
question is in front of it, and nothing else streams.  `Owes`: an interruption is
owed by the last message or by an empty queue.  `OverBudget`: one turn at most is
beyond the budgets.  `Numbered`: no number was given twice.  `Steady` is what of this
does not mention the budgets, so that it can be said of a queue that is only on
its way, with room made and the new turn not yet in it.

What makes the proof long is that the model computes over sequences: totals
(`Total`), selections (`Pick`), and the restored queue (`Restored`) are recursive
functions.  The library's induction rule takes an operator, which the provers
cannot instantiate; `Induction` says the same of a set of numbers instead, and a
set can be: the numbers up to which the claim holds.  From it come that a total
of a concatenation is the sum of the totals (`UseIs`), that a selection is an
order-preserving part of the sequence (`Embeds`), and that each turn a restore
takes leaves a good conversation (`TakeTurnIs`).  That a request alternates
(`ContextIs`) needs that answers are selected exactly with their questions, and
that cutting from the front (`TrimRequestIs`) stops in front of a question.

The attempt at `EveryRequestIsAnswerable` refuted the property it started from,
which looked for the marker in the entry before the question.  Two replies are
cut; the question of the second is deleted.  The second reply is still the last
message and is owed, but has no place in the request, and the entry before the
next question is the first cut reply, marked long ago.  The code is right: it
looks for the reply that is owed (`interrupted_message_id`) and, as that is not
there, marks the question.  `TellsInterruption` now says so.  The queue needs five
messages for it.

Only model-checked: liveness (`NobodyStarves`, `EveryCallReturns`,
`EveryReplyEnds`, `EverythingEnds`, `PetSettles`), for fairness and ENABLED are out
of the prover's reach.  Of `AgentCore`, the other half of `DocumentsArePreserved`,
and `SessionsAreDurable` and `AcknowledgedDeletionLasts` while personas are
switched: they do not hold in every instance, because an edit of another
persona's document may cross a switch to it (`lost_deletion`).  `PersonaDeletion`: its
properties hold of the ids that were not used again too early
(`persona_forgotten_claim`), and its handlers fold over the set of finished
cleanups, which the provers cannot unfold.

## 6. Left out, and why

- u64 wrap-around of tickets, revisions and ids: 2^64 reservations.
- `AgentCore`: contents, token counts, status texts, notifications (`watch`
  epochs): nothing it states depends on them.  `start_turn` may also fail on
  budgets; the call then returns as it does when it may not start.  The chat
  view's cached snapshot, which disables the input while an answer streams, lags
  behind the Agent, so no guard is derived from it.  The live context usage that
  `persist` publishes outside the state's persona is only displayed.
- `ConfigCommit`: window positions (a cache with a lock of its own) and the
  backup of a corrupt file.  A writer that waits for the gate lets a new reader
  pass in the model; parking_lot would not, so the model has more behaviours.  A
  capture task outlives an aborted reply; it holds the lease, which is here.
- `ReplyStream`: bytes and reasoning (a limit is exceeded or not), the building
  of requests, remembering and searching memories.  A change of the outfit counts
  when the window has accepted it (`outfit.rs:115`): that a variant fails to load
  or its write is taken back afterwards is not in the model.  An event that is
  queued at the deadline over a full channel although its send reports a failure
  is dropped in the model.
- `PersonaDeletion`: the writes made on the way out of the program, which a crash
  may lose anyway; which persona is selected; and writes that the Agent makes
  under a persona that was deleted a moment ago, which are taken to have ended
  when its cleanup starts (the switch away from it saves through the queue of
  `DocumentCoordinator`, ahead of the deletion).  A crash is one of the process:
  what a power loss between the rename and the sync of the directory brings back
  is `ConfigCommit`'s.
- `VoicePipeline`: samples, the detector's network, wake words and texts, the
  cache of the Whisper context, the activity display, the speech of replies.  A
  capture that fails while a recording is finished fails in the same way as at any
  other moment (`WorkerCaptureFailed`).  Hiding the pet also changes the window's
  own mode in the model; in the code the shortcut of a hidden pet makes commands
  that the worker ignores.
- `PetRenderer`: pausing, which happens only on the way to a shutdown; sizes,
  frame rates and what a frame shows.  The slot's `notification_failed` and the
  worker's next frame both renotify; either alone would do.

### Not modelled

- Vendored Live2D runtime (`crates/lunamate-mocari`), model loading, animation
  and rendering: sequential floating-point and file-format code, the largest
  part of the repository.  TLC has no reals, and there is no interleaving in it.
- Frame pacing: durations compared with thresholds on one thread.
- Global shortcuts: the portal session's rebinding; the voice pipeline takes
  presses and releases as they arrive.
- Speech services, platform bindings, database engine: one call, one answer;
  they enter the models as calls that succeed or fail.
- Forms, rendering, theme, logging, the build script.

## 7. Plan

Done: `DocumentCoordinator`, `ConfigCommit`, `ReplyStream`, `PetRenderer`,
`VoicePipeline`, `ChatSession` (checked, their safety proved), `AgentCore`
(checked, its safety proved as far as it holds in every instance),
`PersonaDeletion` (checked).

Next, by value: the portal session of the global shortcuts; the frame pacer's tiers against a reference over bounded times;
the composition of `ReplyStream` with `AgentCore` in place of its abstract stream.
