--------------------------- MODULE VoicePipeline ---------------------------
(***************************************************************************)
(* Voice input: the audio callback, the voice worker with its one-slot     *)
(* transcription queue, the Whisper thread, and the window that configures *)
(* them, runs remote transcriptions and hands transcripts to the agent     *)
(* (src/src/voice, src/src/ui/desktop_pet/voice.rs, src/src/ui/agent/      *)
(* voice.rs).  The window and the worker talk over two unbounded FIFO      *)
(* channels; a configuration has a revision, and whoever finds a command,  *)
(* an event or a result of an older one drops it.                          *)
(*                                                                         *)
(* A worker handler is one action: the only thing that changes under it is *)
(* the desired revision, and all it then does is publish less, to a window *)
(* that no longer listens to that revision.  Draining the audio buffer is  *)
(* two steps, because the callback does not take turns with it.  Audio is  *)
(* abstracted to what the detector says of it.                             *)
(***************************************************************************)
EXTENDS Naturals, Sequences, FiniteSets, SequencesExt

CONSTANTS
    Settings,      \* the pairs <<mode, backend>> the user may configure
    MaxUtterances, \* bound on utterances
    MaxPresses,    \* bound on presses of the voice key
    MaxIncidents   \* bound on what else the user does, and on what fails

ASSUME VoiceAssumption ==
    /\ Settings \subseteq {"off", "push", "auto"} \X {"local", "remote", "none"}
    /\ {MaxUtterances, MaxPresses, MaxIncidents} \subseteq Nat

VARIABLES
    desired,  \* the revision of VoiceController, and of the window
    commands, \* the commands sent to the worker
    events,   \* the events sent to the window
    worker,   \* the fields of Worker
    mic,      \* the capture stream: ring buffer and flags
    queue,    \* TranscriptionQueue
    whisper,  \* the Whisper thread
    window,   \* remote transcription, pending voice of the agent, key state
    settled,  \* how often an end of each utterance was published
    incidents \* how many there were

vars == <<desired, commands, events, worker, mic, queue, whisper, window, settled, incidents>>

Utterances == 1..MaxUtterances
None == 0
NoJob == [rev |-> 0, utt |-> None]

SilentMic == [wake |-> FALSE, buffered |-> FALSE, overflow |-> FALSE]

Configure(rev, setting) == [type |-> "Configure", rev |-> rev, setting |-> setting]
Talk(rev, pressed) == [type |-> "PushToTalk", rev |-> rev, pressed |-> pressed]
AudioReady(rev, id) == [type |-> "AudioReady", rev |-> rev, capture |-> id]
CaptureFailed(rev, id) == [type |-> "CaptureFailed", rev |-> rev, capture |-> id]
Finished(rev, utt, ok) == [type |-> "TranscriptionFinished", rev |-> rev, utt |-> utt, ok |-> ok]
Cancel(rev, utt) == [type |-> "CancelTranscription", rev |-> rev, utt |-> utt]
Shutdown == [type |-> "Shutdown", rev |-> 0]

Event(type, rev, utt) == [type |-> type, rev |-> rev, utt |-> utt]

\* The worker configures revision 1 before it takes its first command.
Init ==
    /\ desired = 1
    /\ \E setting \in Settings : commands = <<Configure(1, setting)>>
    /\ events = <<>>
    /\ worker = [pc |-> "wait", rev |-> 0, mode |-> "off", backend |-> "none", vad |-> FALSE,
                 capture |-> None, manual |-> "none",
                 active |-> None, next |-> 1, pending |-> FALSE, trans |-> None]
    /\ mic = SilentMic
    /\ queue = [job |-> NoJob, cancelled |-> NoJob, shutdown |-> FALSE]
    /\ whisper = [pc |-> "wait", job |-> NoJob, ok |-> TRUE]
    /\ window = [mode |-> commands[1].setting[1], remote |-> NoJob, pending |-> None,
                 sent |-> None, held |-> FALSE, presses |-> 0, closed |-> FALSE]
    /\ settled = [u \in Utterances |-> 0]
    /\ incidents = 0

-----------------------------------------------------------------------------
(* What a handler of the worker does, as functions of the part of the      *)
(* state it owns: w, m, q, the events it adds and the ends it publishes.   *)

Own == [w |-> worker, m |-> mic, q |-> queue, ev |-> events, ends |-> settled]

Owns(s) ==
    /\ worker' = s.w /\ mic' = s.m /\ queue' = s.q /\ events' = s.ev /\ settled' = s.ends

\* publish_event: an event of a superseded revision is not sent.
Publish(s, type, utt) ==
    IF s.w.rev # desired THEN s
    ELSE [s EXCEPT !.ev = Append(@, Event(type, s.w.rev, utt)),
                   !.ends = IF type \in {"UtteranceCancelled", "TranscriptReady"}
                            THEN [s.ends EXCEPT ![utt] = s.ends[utt] + 1] ELSE @]

\* stop_capture; dropping the stream ends its callbacks.
StopCapture(s) == [s EXCEPT !.w.capture = None, !.m = SilentMic]

\* The code counts its captures; a number that no command and no open capture
\* bears says as much.
UsedCaptures ==
    {worker.capture} \cup
    {commands[i].capture : i \in {j \in DOMAIN commands :
                                   commands[j].type \in {"AudioReady", "CaptureFailed"}}}

NextCapture == CHOOSE id \in 1..(Cardinality(UsedCaptures) + 1) : id \notin UsedCaptures

\* start_capture, when the device opens.
StartCapture(s) ==
    IF s.w.capture # None THEN s
    ELSE [s EXCEPT !.w.capture = NextCapture, !.m = SilentMic]

\* Variant: An utterance that is given up is not reported.
CancelActiveSilently(s) == [s EXCEPT !.w.active = None]

\* cancel_active_utterance
CancelActive(s) ==
    IF s.w.active = None THEN s
    ELSE Publish([s EXCEPT !.w.active = None], "UtteranceCancelled", s.w.active)

\* TranscriptionQueue::cancel_utterance
CancelUtterance(q, rev, utt) ==
    [q EXCEPT !.job = IF @ = [rev |-> rev, utt |-> utt] THEN NoJob ELSE @,
              !.cancelled = [rev |-> rev, utt |-> IF @.rev = rev /\ @.utt > utt THEN @.utt ELSE utt]]

\* cancel_transcription_utterance
CancelTranscribing(s) ==
    IF s.w.trans = None THEN s
    ELSE Publish([s EXCEPT !.q = CancelUtterance(@, s.w.rev, s.w.trans),
                           !.w.pending = FALSE, !.w.trans = None],
                 "UtteranceCancelled", s.w.trans)

\* fail
Fail(s) ==
    LET stopped == [StopCapture(s) EXCEPT !.w.vad = FALSE, !.w.manual = "none"]
        ended == CancelTranscribing(CancelActive(stopped))
    IN Publish([ended EXCEPT !.w.pending = FALSE], "Error", None)

\* begin_utterance
Begin(s) ==
    IF s.w.active # None THEN s
    ELSE Publish([s EXCEPT !.w.active = s.w.next, !.w.next = @ + 1], "SpeechStarted", s.w.next)

\* An automatic worker listens on; the device may not open again.
Resume(s, ok) ==
    IF s.w.mode # "auto" \/ s.w.capture # None THEN s
    ELSE IF ok THEN StartCapture(s) ELSE Fail(s)

\* Variant: the microphone of the key stays open.
DiscontinuityKeepsCapture(s, ok) ==
    Publish(Resume(CancelActive([s EXCEPT !.w.manual = "none"]), ok), "Error", None)

\* handle_audio_discontinuity: a recording with a gap is given up.
Discontinuity(s, ok) ==
    LET ended == CancelActive([s EXCEPT !.w.manual = "none"])
    IN CASE s.w.mode = "push" -> Publish(StopCapture(ended), "Error", None)
         [] s.w.mode = "auto" /\ s.w.capture = None /\ ~ok -> Fail(ended)
         [] OTHER -> Publish(Resume(ended, ok), "Error", None)

\* dispatch_transcription; the queue refuses a job that the configuration has overtaken.
Dispatch(s, ok) ==
    LET job == [rev |-> s.w.rev, utt |-> s.w.active]
        sent == [StopCapture(s) EXCEPT !.w.active = None, !.w.pending = TRUE, !.w.trans = job.utt]
    IN IF s.w.active = None THEN s
       ELSE CASE s.w.backend = "local" /\ s.w.rev = desired -> Resume([sent EXCEPT !.q.job = job], ok)
              [] s.w.backend = "local" /\ s.w.rev # desired ->
                     [sent EXCEPT !.w.pending = FALSE, !.w.trans = None]
              [] s.w.backend = "remote" -> Resume(Publish(sent, "TranscriptionRequested", job.utt), ok)
              [] OTHER -> Fail([sent EXCEPT !.w.pending = FALSE, !.w.trans = None])

\* finish_manual_recording: long is whether what was recorded, with the tail
\* that is still in the ring buffer, is long enough.  An error of the capture at
\* this moment is left to WorkerCaptureFailed, which fails in the same way.
FinishManual(s, long, ok) ==
    LET closed == StopCapture(s)
        recorded == [closed EXCEPT !.w.manual = "none"]
    IN CASE s.w.manual = "none" -> s
         [] s.w.manual # "none" /\ s.m.overflow -> Discontinuity(closed, ok)
         [] s.w.manual # "none" /\ ~s.m.overflow /\ long -> Dispatch(Begin(recorded), ok)
         [] OTHER -> Resume(CancelActive(recorded), ok)

-----------------------------------------------------------------------------
(* The worker.                                                             *)

WorkerTakes(type) ==
    /\ worker.pc = "wait"
    /\ commands # <<>>
    /\ Head(commands).type = type
    /\ commands' = Tail(commands)

\* A handler that leaves the worker waiting; ok is FALSE when it met a fault.
Handled(s, ok) ==
    /\ Owns(s)
    /\ ok \/ incidents < MaxIncidents
    /\ incidents' = IF ok THEN incidents ELSE incidents + 1
    /\ UNCHANGED <<desired, whisper, window>>

\* A recording that is long enough begins an utterance, of which there are few here.
MayBegin(s) == s.w.active # None \/ s.w.next <= MaxUtterances

\* configure_current: everything of the old revision ends, unheard by the window.
Reconfigured(s, rev, setting, ok) ==
    LET ended == CancelTranscribing(CancelActive([StopCapture(s) EXCEPT !.q.job = NoJob]))
        fresh == [ended EXCEPT !.w.rev = rev, !.w.mode = setting[1], !.w.backend = setting[2],
                               !.w.vad = FALSE, !.w.manual = "none", !.w.pending = FALSE]
    IN CASE setting[1] = "off" -> fresh
         [] setting[1] # "off" /\ ~ok -> Fail(fresh)
         [] setting[1] = "push" /\ ok -> fresh
         [] OTHER -> StartCapture([fresh EXCEPT !.w.vad = TRUE])

WorkerConfigure(ok) ==
    LET c == Head(commands)
        accepted == c.rev > worker.rev /\ c.rev = desired
    IN /\ WorkerTakes("Configure")
       /\ ok \/ (accepted /\ c.setting[1] # "off")
       /\ Handled(IF accepted THEN Reconfigured(Own, c.rev, c.setting, ok) ELSE Own, ok)

\* set_push_to_talk(true): the recording takes over what the detector had.
Pressed(s, long, ok) ==
    LET quiet == CancelTranscribing(s)
        open == IF s.w.capture # None THEN quiet ELSE StartCapture(quiet)
        recording == [open EXCEPT !.w.manual = IF long THEN "long" ELSE "short"]
    IN CASE s.w.manual # "none" -> s
         [] s.w.manual = "none" /\ s.w.mode = "auto" /\ ~s.w.vad -> quiet
         [] s.w.manual = "none" /\ (s.w.mode = "push" \/ s.w.vad) /\ s.w.capture = None /\ ~ok -> Fail(quiet)
         [] OTHER -> IF long THEN Begin(recording) ELSE recording

WorkerTalk(long, ok) ==
    LET c == Head(commands)
        accepted == c.rev = worker.rev /\ c.rev = desired /\ worker.mode # "off"
    IN /\ WorkerTakes("PushToTalk")
       /\ long => accepted /\ MayBegin(Own)
       /\ ok \/ accepted
       /\ accepted /\ c.pressed /\ long => worker.mode = "auto"
       /\ Handled(IF ~accepted THEN Own
                  ELSE IF c.pressed THEN Pressed(Own, long, ok)
                  ELSE FinishManual(Own, long \/ worker.manual = "long", ok), ok)

\* accepts_capture_event
FromCapture(c) == c.rev = worker.rev /\ c.capture = worker.capture /\ c.rev = desired

\* Variant: The wake-up flag is not opened again.
WorkerAudioKeepsWake ==
    /\ WorkerTakes("AudioReady")
    /\ worker' = IF FromCapture(Head(commands)) THEN [worker EXCEPT !.pc = "drain"] ELSE worker
    /\ UNCHANGED <<desired, events, mic, queue, whisper, window, settled, incidents>>

\* drain_into, first half: from here on a callback wakes the worker again.
WorkerAudio ==
    /\ WorkerTakes("AudioReady")
    /\ IF FromCapture(Head(commands))
       THEN /\ mic' = [mic EXCEPT !.wake = FALSE]
            /\ worker' = [worker EXCEPT !.pc = "drain"]
       ELSE UNCHANGED <<mic, worker>>
    /\ UNCHANGED <<desired, events, queue, whisper, window, settled, incidents>>

\* consume_auto_audio, what the detector found in the samples.  Speech it
\* discards never became an utterance.
Detected(s, found, ok) ==
    CASE found = "started" -> Begin(CancelTranscribing(s))
      [] found = "complete" -> Dispatch(s, ok)
      [] OTHER -> s

\* consume_manual_audio: the recording grows, is confirmed, or is full.
Recorded(s, found, ok) ==
    LET longer == Begin([s EXCEPT !.w.manual = "long"])
    IN CASE found = "started" -> longer
         [] found = "complete" -> FinishManual(longer, TRUE, ok)
         [] OTHER -> s

\* drain_into, second half, and consume_audio.
WorkerDrain(found, ok) ==
    LET drained == [Own EXCEPT !.w.pc = "wait", !.m.buffered = FALSE, !.m.overflow = FALSE]
    IN
    /\ worker.pc = "drain"
    /\ found \in {"started", "complete"} => mic.buffered /\ ~mic.overflow /\ MayBegin(drained)
    /\ found = "started" => worker.manual # "none" \/ worker.active = None
    /\ found = "complete" => worker.manual # "none" \/ worker.active # None
    /\ found = "broken" => ~ok
    /\ UNCHANGED commands
    /\ Handled(CASE found = "broken" -> Fail(drained)
                 [] found # "broken" /\ mic.overflow -> Discontinuity(drained, ok)
                 [] found # "broken" /\ ~mic.overflow /\ worker.manual # "none" ->
                        Recorded(drained, found, ok)
                 [] OTHER -> Detected(drained, found, ok), ok)

\* The device fails (CaptureFailed).
WorkerCaptureFailed ==
    /\ WorkerTakes("CaptureFailed")
    /\ Handled(IF FromCapture(Head(commands)) THEN Fail(Own) ELSE Own, TRUE)

\* Variant: A result is taken for the transcription under way, whichever it is of.
WorkerFinishAny(ok) ==
    LET c == Head(commands)
        accepted == c.rev = worker.rev /\ c.rev = desired /\ worker.pending
        over == [Own EXCEPT !.w.pending = FALSE, !.w.trans = None]
        told == IF c.ok THEN Publish(over, "TranscriptReady", c.utt) ELSE Publish(over, "Error", None)
    IN /\ WorkerTakes("TranscriptionFinished")
       /\ ok
       /\ Handled(IF accepted THEN Resume(told, ok) ELSE Own, ok)

\* finish_transcription
WorkerFinish(ok) ==
    LET c == Head(commands)
        accepted == c.rev = worker.rev /\ c.rev = desired /\ worker.pending /\ worker.trans = c.utt
        over == [Own EXCEPT !.w.pending = FALSE, !.w.trans = None]
        told == IF c.ok THEN Publish(over, "TranscriptReady", c.utt) ELSE Publish(over, "Error", None)
    IN /\ WorkerTakes("TranscriptionFinished")
       /\ ok \/ (accepted /\ worker.mode = "auto" /\ worker.capture = None)
       /\ Handled(IF accepted THEN Resume(told, ok) ELSE Own, ok)

\* cancel_transcription
WorkerCancel(ok) ==
    LET c == Head(commands)
        accepted == c.rev = worker.rev /\ c.rev = desired /\ worker.trans = c.utt
    IN /\ WorkerTakes("CancelTranscription")
       /\ ok \/ (accepted /\ worker.mode = "auto" /\ worker.capture = None)
       /\ Handled(IF accepted THEN Resume(CancelTranscribing(Own), ok) ELSE Own, ok)

\* The end of run: everything is released, the Whisper thread is told and joined.
WorkerShutdown ==
    LET ended == CancelTranscribing(CancelActive(StopCapture(Own)))
    IN /\ WorkerTakes("Shutdown")
       /\ Handled([ended EXCEPT !.w.pc = "join", !.w.pending = FALSE, !.w.vad = FALSE,
                                !.q.job = NoJob, !.q.shutdown = TRUE], TRUE)

WorkerJoin ==
    /\ worker.pc = "join" /\ whisper.pc = "done"
    /\ worker' = [worker EXCEPT !.pc = "done"]
    /\ UNCHANGED <<desired, commands, events, mic, queue, whisper, window, settled, incidents>>

-----------------------------------------------------------------------------
(* The audio callback.                                                     *)

\* Samples reach the ring buffer, or find it full, and the worker is woken unless
\* it was.  A callback that finds samples and a wake-up waiting changes neither.
\* It is one step: a drain between its two writes finds what it was woken for.
Callback(lost) ==
    /\ worker.capture # None
    /\ lost \/ ~mic.buffered \/ ~mic.wake
    /\ mic' = [wake |-> TRUE, buffered |-> TRUE, overflow |-> mic.overflow \/ lost]
    /\ commands' = IF mic.wake THEN commands
                   ELSE Append(commands, AudioReady(worker.rev, worker.capture))
    /\ lost => incidents < MaxIncidents
    /\ incidents' = IF lost THEN incidents + 1 ELSE incidents
    /\ UNCHANGED <<desired, events, worker, queue, whisper, window, settled>>

DeviceFails ==
    /\ worker.capture # None /\ incidents < MaxIncidents
    /\ commands' = Append(commands, CaptureFailed(worker.rev, worker.capture))
    /\ incidents' = incidents + 1
    /\ UNCHANGED <<desired, events, worker, mic, queue, whisper, window, settled>>

-----------------------------------------------------------------------------
(* The Whisper thread.                                                     *)

\* TranscriptionQueue::is_cancelled
IsCancelled(job) ==
    \/ desired # job.rev
    \/ queue.shutdown
    \/ queue.cancelled.rev = job.rev /\ job.utt <= queue.cancelled.utt

OnlyWhisper == UNCHANGED <<desired, events, worker, mic, window, settled>>

WhisperTake ==
    /\ whisper.pc = "wait"
    /\ \/ /\ queue.shutdown
          /\ whisper' = [whisper EXCEPT !.pc = "done"]
          /\ UNCHANGED queue
       \/ /\ ~queue.shutdown /\ queue.job # NoJob
          /\ whisper' = [pc |-> "taken", job |-> queue.job, ok |-> TRUE]
          /\ queue' = [queue EXCEPT !.job = NoJob]
    /\ UNCHANGED <<commands, incidents>>
    /\ OnlyWhisper

WhisperWaits == whisper' = [pc |-> "wait", job |-> NoJob, ok |-> TRUE]

\* Before the inference, and again with its result.
WhisperCheck(ok) ==
    /\ whisper.pc \in {"taken", "infer"}
    /\ ok \/ (whisper.pc = "infer" /\ ~IsCancelled(whisper.job) /\ incidents < MaxIncidents)
    /\ IF IsCancelled(whisper.job) THEN WhisperWaits
       ELSE whisper' = [whisper EXCEPT !.pc = IF @ = "taken" THEN "infer" ELSE "send", !.ok = ok]
    /\ incidents' = IF ok THEN incidents ELSE incidents + 1
    /\ UNCHANGED <<commands, queue>>
    /\ OnlyWhisper

WhisperSend ==
    /\ whisper.pc = "send"
    /\ commands' = Append(commands, Finished(whisper.job.rev, whisper.job.utt, whisper.ok))
    /\ WhisperWaits
    /\ UNCHANGED <<queue, incidents>>
    /\ OnlyWhisper

-----------------------------------------------------------------------------
(* The window.                                                             *)

OnlyWindow == UNCHANGED <<worker, mic, queue, whisper, settled>>
Open == ~window.closed

\* cancel_remote_transcription: the worker is told, the request aborted.
CancelRemote(cs) ==
    IF window.remote = NoJob THEN cs
    ELSE Append(cs, Cancel(window.remote.rev, window.remote.utt))

WindowTakes(type) ==
    /\ Open
    /\ events # <<>>
    /\ Head(events).type = type
    /\ events' = Tail(events)
    /\ UNCHANGED desired
    /\ OnlyWindow

Heard == Head(events).rev = desired

\* SpeechStarted, voice_speech_started: when the configuration of the agent
\* changed in the meantime it is refreshed instead.
HearSpeech(refresh) ==
    /\ WindowTakes("SpeechStarted")
    /\ IF Heard
       THEN /\ commands' = CancelRemote(commands)
            /\ window' = [window EXCEPT !.remote = NoJob,
                   !.pending = IF refresh THEN None
                               ELSE IF @ < Head(events).utt THEN Head(events).utt ELSE @]
       ELSE UNCHANGED <<commands, window>>
    /\ UNCHANGED incidents

\* Variant: The end of an utterance leaves its request running.
HearCancelledKeepsRequest ==
    /\ WindowTakes("UtteranceCancelled")
    /\ window' = IF Heard /\ window.pending = Head(events).utt
                 THEN [window EXCEPT !.pending = None] ELSE window
    /\ UNCHANGED <<commands, incidents>>

\* UtteranceCancelled, voice_utterance_cancelled
HearCancelled ==
    LET u == Head(events).utt
    IN /\ WindowTakes("UtteranceCancelled")
       /\ IF Heard
          THEN /\ commands' = IF window.remote.utt = u THEN CancelRemote(commands) ELSE commands
               /\ window' = [window EXCEPT !.remote = IF @.utt = u THEN NoJob ELSE @,
                                           !.pending = IF @ = u THEN None ELSE @]
          ELSE UNCHANGED <<commands, window>>
       /\ UNCHANGED incidents

\* TranscriptionRequested, transcribe_voice; the model may be gone.
HearRequest(known) ==
    LET u == Head(events).utt
    IN /\ WindowTakes("TranscriptionRequested")
       /\ known \/ (Heard /\ incidents < MaxIncidents)
       /\ IF Heard
          THEN /\ commands' = CancelRemote(commands)
                              \o (IF known THEN <<>> ELSE <<Finished(desired, u, FALSE)>>)
               /\ window' = [window EXCEPT !.remote = IF known THEN [rev |-> desired, utt |-> u]
                                                      ELSE NoJob]
          ELSE UNCHANGED <<commands, window>>
       /\ incidents' = IF known THEN incidents ELSE incidents + 1

\* TranscriptReady, send_voice_transcript and take_voice_transcript: the
\* agent may have moved on, then the transcript is dropped.
HearTranscript(wanted) ==
    LET u == Head(events).utt
    IN /\ WindowTakes("TranscriptReady")
       /\ window' = IF Heard /\ window.pending = u
                    THEN [window EXCEPT !.pending = None, !.sent = IF wanted THEN u ELSE @]
                    ELSE window
       /\ UNCHANGED <<commands, incidents>>

\* Error, voice_failed
HearError ==
    /\ WindowTakes("Error")
    /\ IF Heard
       THEN /\ commands' = CancelRemote(commands)
            /\ window' = [window EXCEPT !.remote = NoJob, !.pending = None]
       ELSE UNCHANGED <<commands, window>>
    /\ UNCHANGED incidents

\* The remote request ends while it is still the current one.
RemoteDone(ok) ==
    /\ Open
    /\ window.remote # NoJob
    /\ ok \/ incidents < MaxIncidents
    /\ commands' = Append(commands, Finished(window.remote.rev, window.remote.utt, ok))
    /\ window' = [window EXCEPT !.remote = NoJob]
    /\ incidents' = IF ok THEN incidents ELSE incidents + 1
    /\ UNCHANGED <<desired, events>>
    /\ OnlyWindow

-----------------------------------------------------------------------------
(* The user.                                                               *)

\* set_push_to_talk(false), which every use of the key begins with.
Release(cs) == IF window.mode = "off" THEN cs ELSE Append(cs, Talk(desired, FALSE))

ByUser ==
    /\ Open
    /\ UNCHANGED events
    /\ OnlyWindow

AnIncident == incidents < MaxIncidents /\ incidents' = incidents + 1

\* set_voice_shortcut_pressed
Press ==
    /\ ByUser
    /\ window.mode # "off" /\ window.presses < MaxPresses
    /\ commands' = Append(Release(commands), Talk(desired, TRUE))
    /\ window' = [window EXCEPT !.held = TRUE, !.presses = @ + 1]
    /\ UNCHANGED <<desired, incidents>>

\* The key is let go, or its timer runs out.
LetGo ==
    /\ ByUser
    /\ window.held
    /\ commands' = Release(commands)
    /\ window' = [window EXCEPT !.held = FALSE]
    /\ UNCHANGED <<desired, incidents>>

\* apply_voice_settings; hiding the pet configures the mode off.  The window's own
\* mode, which hiding leaves as it is, is taken to be the one it configured: the
\* shortcut of a hidden pet only makes commands that the worker ignores.
UserConfigure(setting) ==
    /\ ByUser /\ AnIncident
    /\ desired' = desired + 1
    /\ commands' = CancelRemote(Append(Release(commands), Configure(desired + 1, setting)))
    /\ window' = [window EXCEPT !.mode = setting[1], !.remote = NoJob, !.pending = None, !.held = FALSE]

\* stop_voice_interaction
Stop ==
    /\ ByUser /\ AnIncident
    /\ commands' = CancelRemote(IF window.pending = None THEN commands
                                ELSE Append(commands, Cancel(desired, window.pending)))
    /\ window' = [window EXCEPT !.remote = NoJob, !.pending = None]
    /\ UNCHANGED desired

\* A refresh, a click or a message of the user takes the place of what was
\* said; only the message also ends a remote transcription.
AgentMovesOn(ends) ==
    /\ ByUser /\ AnIncident
    /\ commands' = IF ends THEN CancelRemote(commands) ELSE commands
    /\ window' = [window EXCEPT !.remote = IF ends THEN NoJob ELSE @, !.pending = None]
    /\ UNCHANGED desired

\* request_window_close
Close ==
    /\ ByUser
    /\ commands' = CancelRemote(Append(Release(commands), Shutdown))
    /\ window' = [window EXCEPT !.remote = NoJob, !.pending = None, !.held = FALSE, !.closed = TRUE]
    /\ UNCHANGED <<desired, incidents>>

Ended == worker.pc = "done" /\ UNCHANGED vars

WorkerStep(ok) ==
    \/ WorkerConfigure(ok)
    \/ \E long \in BOOLEAN : WorkerTalk(long, ok)
    \/ \E found \in {"none", "started", "complete", "broken"} : WorkerDrain(found, ok)
    \/ WorkerFinish(ok)
    \/ WorkerCancel(ok)

WorkerNext ==
    \/ \E ok \in BOOLEAN : WorkerStep(ok)
    \/ WorkerAudio \/ WorkerCaptureFailed \/ WorkerShutdown \/ WorkerJoin

WhisperNext == WhisperTake \/ WhisperSend \/ \E ok \in BOOLEAN : WhisperCheck(ok)

WindowNext ==
    \/ \E refresh \in BOOLEAN : HearSpeech(refresh)
    \/ HearCancelled
    \/ \E known \in BOOLEAN : HearRequest(known)
    \/ \E wanted \in BOOLEAN : HearTranscript(wanted)
    \/ HearError

Next ==
    \/ WorkerNext
    \/ WhisperNext
    \/ WindowNext
    \/ \E ok \in BOOLEAN : RemoteDone(ok)
    \/ \E lost \in BOOLEAN : Callback(lost)
    \/ DeviceFails
    \/ Press \/ LetGo \/ Stop \/ Close
    \/ \E setting \in Settings : UserConfigure(setting)
    \/ \E ends \in BOOLEAN : AgentMovesOn(ends)
    \/ Ended

\* The threads and the window go on; a request ends (its client has a timeout);
\* an open device delivers samples; the key is let go, if only by its timer; and
\* a recording that goes on comes to an end (MAX_UTTERANCE_SAMPLES).
\* The fairness of the worker names what enables it instead of using ENABLED,
\* which would run every handler again in every state.
WorkerReady ==
    \/ worker.pc = "drain"
    \/ worker.pc = "wait" /\ commands # <<>>
    \/ worker.pc = "join" /\ whisper.pc = "done"

RecordingMayEnd ==
    /\ worker.pc = "drain" /\ mic.buffered /\ ~mic.overflow
    /\ MayBegin(Own)
    /\ worker.manual # "none" \/ worker.active # None

Fairness ==
    /\ <>[]WorkerReady => []<><<WorkerNext>>_vars
    /\ []<>RecordingMayEnd => []<><<\E ok \in BOOLEAN : WorkerDrain("complete", ok)>>_vars
    /\ WF_vars(WhisperNext)
    /\ WF_vars(WindowNext)
    /\ WF_vars(\E ok \in BOOLEAN : RemoteDone(ok))
    /\ WF_vars(\E lost \in BOOLEAN : Callback(lost))
    /\ WF_vars(LetGo)

Spec == Init /\ [][Next]_vars /\ Fairness

-----------------------------------------------------------------------------
(* Properties.                                                             *)

Job == [rev : Nat, utt : 0..MaxUtterances]

\* Every variable stays in its type.
TypeOK ==
    /\ desired \in Nat
    /\ worker \in [pc : {"wait", "drain", "join", "done"}, rev : Nat,
                   mode : {"off", "push", "auto"}, backend : {"local", "remote", "none"},
                   vad : BOOLEAN, capture : Nat, manual : {"none", "short", "long"},
                   active : 0..MaxUtterances, next : 1..(MaxUtterances + 1),
                   pending : BOOLEAN, trans : 0..MaxUtterances]
    /\ mic \in [wake : BOOLEAN, buffered : BOOLEAN, overflow : BOOLEAN]
    /\ queue \in [job : Job, cancelled : Job, shutdown : BOOLEAN]
    /\ whisper \in [pc : {"wait", "taken", "infer", "send", "done"}, job : Job, ok : BOOLEAN]
    /\ settled \in [Utterances -> Nat]
    /\ incidents \in 0..MaxIncidents

Sent(command) == command \in Range(commands)
Told(type, utt) == Event(type, desired, utt) \in Range(events)

\* What the agent waits for is on its way: the worker records or transcribes the
\* utterance, or the window will still hear how it ended.  Otherwise the chat
\* would wait for a transcript that nobody produces.
PendingVoiceHasOwner ==
    \A u \in Utterances : window.pending = u =>
        \/ worker.rev = desired /\ u \in {worker.active, worker.trans}
        \/ Told("UtteranceCancelled", u) \/ Told("TranscriptReady", u) \/ Told("Error", None)

\* Who transcribes, as the worker believes someone does.
Transcribes(job) ==
    IF worker.backend = "local"
    THEN \/ queue.job = job
         \/ whisper.job = job /\ ~IsCancelled(job)
         \/ \E ok \in BOOLEAN : Sent(Finished(job.rev, job.utt, ok))
    ELSE \/ Told("TranscriptionRequested", job.utt)
         \/ window.remote = job
         \/ Sent(Cancel(job.rev, job.utt))
         \/ \E ok \in BOOLEAN : Sent(Finished(job.rev, job.utt, ok))

\* A worker that waits for a transcription of the current configuration is
\* answered: the job is in the one-slot queue, in the hands of the Whisper
\* thread or of the window, or its result or cancellation is under way.
TranscriptionHasWorker ==
    worker.trans # None /\ worker.rev = desired /\ Open =>
        /\ worker.pending
        /\ Transcribes([rev |-> desired, utt |-> worker.trans])

\* What was said is not left behind by anyone who still owes it an end.
VoiceWorkHasOwner == PendingVoiceHasOwner /\ TranscriptionHasWorker

\* The microphone is open only for a mode that listens or a key that was
\* pressed, and never once the worker ends; and what an open one recorded for
\* the current configuration has a command under way that makes the worker
\* read it, though the callback skips its wake-up while one is pending.
MicrophoneServesTheUser ==
    worker.capture # None =>
        /\ worker.pc \in {"wait", "drain"}
        /\ \/ worker.mode = "auto" /\ worker.vad
           \/ worker.mode = "push" /\ worker.manual # "none"
        /\ \/ worker.pc = "drain" \/ worker.rev # desired
           \/ ~mic.buffered
           \/ Sent(AudioReady(worker.rev, worker.capture))

\* A remote transcription that runs is one the worker waits for, or the window
\* is about to hear that it is not: no request outlives what it was made for.
RequestHasReader ==
    window.remote # NoJob =>
        /\ window.remote.rev = desired
        /\ \/ worker.rev = desired /\ worker.trans = window.remote.utt
           \/ Told("UtteranceCancelled", window.remote.utt) \/ Told("Error", None)

\* An utterance ends once, with its transcript or its cancellation, though
\* results and cancellations cross; and what the agent was given ended, and is
\* older than what it waits for.
UtterancesEndOnce ==
    /\ TypeOK
    /\ \A u \in Utterances : settled[u] <= 1
    /\ window.sent # None => settled[window.sent] = 1
    /\ window.pending # None => window.sent < window.pending

HoldsMicrophone == worker.mode = "push" /\ worker.capture # None

\* Whatever fails or is cancelled, the agent does not wait for ever for what was
\* said, when the user once stops speaking (MaxUtterances), a microphone that was opened for the key closes, and a worker that was
\* told to shut down ends.
EverythingEnds ==
    /\ window.pending # None ~> window.pending = None
    /\ HoldsMicrophone ~> ~HoldsMicrophone
    /\ window.closed ~> worker.pc = "done"
====
