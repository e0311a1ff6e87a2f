----------------------------- MODULE ReplyStream -----------------------------
(***************************************************************************)
(* One reply of the provider (lunamate-agent provider/, and the loop of    *)
(* Agent::send that reads its events).  A task streams the answer, retries *)
(* a request that produced nothing, runs one round of tools and streams    *)
(* the answer to their results; its events cross a bounded channel to the  *)
(* Agent.  Meanwhile the user may cancel the reply or revoke the           *)
(* permission to show the screen, the window may be slow to change the     *)
(* outfit, and the total deadline passes.                                  *)
(*                                                                         *)
(* A step of the task is one poll: from one await to the next.  Times are  *)
(* kept only as far as the code compares them: whether the total deadline  *)
(* has passed is state, every shorter one may expire at any wait for it.   *)
(* Reasoning, texts and byte counts are left out: a limit is exceeded or   *)
(* not.                                                                    *)
(***************************************************************************)
EXTENDS Naturals, Sequences, SequencesExt

CONSTANTS
    Capacity,    \* events the channel holds: 16 and one of its sender
    MaxRetries,  \* RETRY_DELAYS.len()
    MaxCalls,    \* MAX_TOOL_CALLS
    MaxChunks    \* bound on the pieces of text of one attempt

ASSUME ReplyAssumption ==
    /\ {MaxRetries, MaxCalls, MaxChunks} \subseteq Nat
    /\ Capacity \in Nat /\ Capacity > 0

VARIABLES
    task,        \* stream_chat: where it is and its locals
    channel,     \* events on their way to the Agent
    reader,      \* the loop of Agent::send: reading, then joining the task, then returned
    reply,       \* the message as the session holds it
    effects,     \* outfit changes on their way to the window
    host,        \* the window: the change it is about to apply, what it applied and answered
    permission,  \* the capability of this request: none, granted, revoked
    late,        \* the total deadline has passed
    sent,        \* the requests made to the provider: how many, and the last one
    heard        \* the pieces of text that came from it

vars == <<task, channel, reader, reply, effects, host, permission, late, sent, heard>>
agent == <<reader, reply, effects, host>>

\* What a tool call asks for: an image of the screen, the same with arguments it
\* does not take, an outfit, anything else.
Tools == {"screen", "arguments", "outfit", "unknown"}
CallLists == UNION {[1 .. n -> Tools] : n \in 0 .. MaxCalls}

Event(kind, body) == [kind |-> kind, body |-> body]

Init ==
    /\ task = [at |-> "start", round |-> 1, retries |-> 0, capability |-> FALSE,
               registered |-> FALSE, tools |-> FALSE, screen |-> FALSE,
               started |-> FALSE, content |-> FALSE, chunks |-> 0, pending |-> <<>>,
               then |-> "stream", calls |-> <<>>, results |-> <<>>, image |-> FALSE,
               last |-> <<>>]
    /\ channel = <<>> /\ reader = "reading"
    /\ reply = [state |-> "streaming", text |-> <<>>, trace |-> <<>>]
    /\ effects = <<>>
    /\ host = [applying |-> 0, applied |-> {},
               answers |-> [id \in 1 .. MaxCalls |-> "none"]]
    /\ permission \in {"none", "granted"}
    /\ late = FALSE
    /\ sent = [count |-> 0, image |-> FALSE]
    /\ heard = <<>>

-----------------------------------------------------------------------------
(* Sending an event: it is sent, refused because the reader is gone or the  *)
(* deadline passed over a full channel, or still waits.                     *)

HasRoom == reader = "reading" /\ Len(channel) < Capacity
Refused == reader # "reading" \/ (late /\ Len(channel) >= Capacity)

\* The capability is authorized; once it is not, it never is again.
Authorized(t) == t.capability /\ permission = "granted"

\* Variant: only the first request needs the permission.
RequiredAtFirst(t) == t.capability /\ t.round = 1 /\ t.registered

\* required_screenshot: the whole attempt is given up when the permission is revoked.
Required(t) == t.capability /\ (t.screen \/ (t.round = 1 /\ t.registered))
GivenUp(t) == Required(t) /\ ~Authorized(t)

-----------------------------------------------------------------------------
(* Outcomes of an attempt: what the task does next.                         *)

\* The locals of consume_stream are gone.
Fresh(t) == [t EXCEPT !.started = FALSE, !.content = FALSE, !.chunks = 0, !.pending = <<>>,
                      !.then = "stream"]

\* send_completion_events, or send_terminal_event with a failure.
Ends(t, ending) ==
    [Fresh(t) EXCEPT !.at = "ending", !.retries = 0, !.calls = <<>>,
              !.last = IF ending = "failed" THEN <<Event("failed", <<>>)>>
                       ELSE IF t.results = <<>> THEN <<Event("finished", <<>>)>>
                       ELSE <<Event("trace", t.results), Event("finished", <<>>)>>]

\* Variant: a retry although part of the answer was seen.
FailsRetriesAlways(t, retryable) ==
    {Ends(t, "failed")}
    \cup IF retryable /\ t.retries < MaxRetries /\ ~late
         THEN {[Fresh(t) EXCEPT !.at = "attempt", !.retries = @ + 1]} ELSE {}

\* stream_with_retry: it retries unless too little of the time is left.
Fails(t, retryable) ==
    {Ends(t, "failed")}
    \cup IF retryable /\ ~t.started /\ t.retries < MaxRetries /\ ~late
         THEN {[Fresh(t) EXCEPT !.at = "attempt", !.retries = @ + 1]} ELSE {}

\* The end of the stream: tools at most once, never an empty answer.
Concludes(t) ==
    IF t.calls # <<>> /\ t.round = 1 THEN {[Fresh(t) EXCEPT !.at = "tools", !.retries = 0]}
    ELSE IF t.calls # <<>> \/ ~t.content THEN {Ends(t, "failed")}
    ELSE {Ends(t, "finished")}

\* What follows a flush that sent the pending text.
Resumes(t) ==
    CASE t.then = "stream" -> {[t EXCEPT !.at = "stream"]}
      [] t.then = "end" -> Concludes(t)
      [] t.then = "broken" -> Fails(t, TRUE)
      [] OTHER -> Fails(t, FALSE)

\* What follows one that did not: a reply nobody reads is complete.
Abandons(t) ==
    IF t.then = "give up" THEN Fails(t, FALSE) ELSE {Ends(t, "finished")}

\* flush
Flushing(t, then) ==
    LET u == [t EXCEPT !.then = then]
    IN  IF t.pending = <<>> THEN Resumes(u) ELSE {[u EXCEPT !.at = "flush"]}

-----------------------------------------------------------------------------
(* The task.                                                               *)

Begin ==
    /\ task.at = "start"
    /\ \/ \E tools \in BOOLEAN, registers \in BOOLEAN :
              task' = [task EXCEPT !.at = "attempt", !.capability = permission = "granted",
                           !.registered = registers /\ permission = "granted",
                           !.tools = tools \/ (registers /\ permission = "granted")]
       \/ task' = Ends(task, "failed")  \* the provider takes no images
    /\ UNCHANGED <<channel, sent, heard>>

\* The checks of stream_with_retry and stream_once, and the request they make.
Attempt ==
    /\ task.at = "attempt"
    /\ IF GivenUp(task)
       THEN task' \in Fails(task, FALSE) /\ UNCHANGED sent
       ELSE /\ sent' = [count |-> sent.count + 1, image |-> task.image]
            /\ task' \in IF late THEN Fails(task, TRUE) ELSE {[task EXCEPT !.at = "connect"]}
    /\ UNCHANGED <<channel, heard>>

Connect ==
    /\ task.at = "connect"
    /\ task' \in IF GivenUp(task) THEN Fails(task, FALSE)
                 ELSE {[task EXCEPT !.at = "stream"]} \cup Fails(task, FALSE) \cup Fails(task, TRUE)
    /\ UNCHANGED <<channel, sent, heard>>

\* The deadlines at the head of the loop of consume_stream.
Deadlines ==
    /\ task.at = "stream"
    /\ task' \in
          IF GivenUp(task) THEN Fails(task, FALSE)
          ELSE IF late THEN Flushing(task, "give up")
          ELSE {[task EXCEPT !.at = "await"]}
               \cup (IF task.started THEN Flushing(task, "idle") ELSE Fails(task, TRUE))
    /\ UNCHANGED <<channel, sent, heard>>

\* A piece of text; the pending text is flushed when there is enough of it, and
\* when there is too much of it altogether.
Chunk ==
    /\ task.at = "await" /\ ~GivenUp(task) /\ task.chunks < MaxChunks
    /\ LET piece == [round |-> task.round, attempt |-> task.retries, n |-> task.chunks]
           t == [task EXCEPT !.started = TRUE, !.content = TRUE, !.chunks = @ + 1]
           u == [t EXCEPT !.at = "stream", !.pending = Append(@, piece)]
       IN  \/ /\ task' \in {u} \cup Flushing(u, "stream")
              /\ heard' = Append(heard, piece)
           \/ /\ task' \in Flushing(t, "give up")
              /\ UNCHANGED heard
    /\ UNCHANGED <<channel, sent>>

\* A piece of a tool call, or of hidden content beyond its limit.
ToolChunk ==
    /\ task.at = "await" /\ ~GivenUp(task)
    /\ task' \in {[task EXCEPT !.started = TRUE, !.at = "stream"]} \cup Fails(task, FALSE)
    /\ UNCHANGED <<channel, sent, heard>>

\* The end of the stream, an error of it, or a stream that just stops: in each
\* case the pending text is flushed first.
End ==
    /\ task.at = "await" /\ ~GivenUp(task)
    /\ \/ \E calls \in CallLists :
             /\ calls # <<>> => task.tools \/ task.round = 2
             /\ task' \in Flushing([task EXCEPT !.calls = calls], "end")
       \/ \E then \in {"invalid", "error", "broken"} : task' \in Flushing(task, then)
    /\ UNCHANGED <<channel, sent, heard>>

\* Some deadline wakes the task.
Wake ==
    /\ task.at = "await"
    /\ task' \in IF GivenUp(task) THEN Fails(task, FALSE) ELSE Flushing(task, "stream")
    /\ UNCHANGED <<channel, sent, heard>>

\* flush and send_event.  At the deadline over a full channel an event can be
\* queued although its send reports a failure; here it is not.
Flush ==
    /\ task.at = "flush"
    /\ \/ /\ GivenUp(task)
          /\ task' \in Fails(task, FALSE)
          /\ UNCHANGED channel
       \/ /\ ~GivenUp(task) /\ HasRoom
          /\ channel' = Append(channel, Event("delta", task.pending))
          /\ task' \in Resumes([task EXCEPT !.pending = <<>>])
       \/ /\ ~GivenUp(task) /\ Refused
          /\ task' \in Abandons(task)
          /\ UNCHANGED channel
    /\ UNCHANGED <<sent, heard>>

\* The trace, and then the end of the reply; it stops at the first that is not sent.
Conclude ==
    /\ task.at = "ending"
    /\ \/ /\ HasRoom
          /\ channel' = Append(channel, Head(task.last))
          /\ task' = [task EXCEPT !.last = Tail(@),
                                  !.at = IF Len(task.last) = 1 THEN "done" ELSE @]
       \/ /\ Refused
          /\ task' = [task EXCEPT !.at = "done"]
          /\ UNCHANGED channel
    /\ UNCHANGED <<sent, heard>>

-----------------------------------------------------------------------------
(* The tools, one call after the other.                                    *)

Result(t, result) == [t EXCEPT !.at = "tools", !.results = Append(@, result)]

CallIs(tool) ==
    /\ task.at = "tools" /\ Len(task.results) < Len(task.calls)
    /\ task.calls[Len(task.results) + 1] = tool

Screen ==
    /\ CallIs("screen")
    /\ task' = IF Authorized(task) /\ ~task.image
               THEN [task EXCEPT !.at = "capture"] ELSE Result(task, "error")
    /\ UNCHANGED <<channel, sent, heard>>

\* capture_screen: an image, a failure of any kind or a revocation.
Capture ==
    /\ task.at = "capture"
    /\ \/ task' = Result(task, "error")
       \/ Authorized(task) /\ task' = [Result(task, "shown") EXCEPT !.image = TRUE]
    /\ UNCHANGED <<channel, sent, heard>>

\* Arguments that cannot be parsed, an outfit that is not offered (outfit_argument)
\* or a tool that does not exist.
NoTool ==
    /\ CallIs("arguments") \/ CallIs("unknown")
    /\ task' = Result(task, "error")
    /\ UNCHANGED <<channel, sent, heard>>

\* request_outfit_change
AskOutfit ==
    /\ CallIs("outfit")
    /\ \/ /\ HasRoom
          /\ channel' = Append(channel, Event("outfit", Len(task.results) + 1))
          /\ task' = [task EXCEPT !.at = "answer"]
       \/ /\ Refused
          /\ task' = Result(task, "error")
          /\ UNCHANGED channel
    /\ UNCHANGED <<sent, heard>>

\* Variant: the task gives up before its total deadline.
AwaitOutfitImpatient ==
    /\ task.at = "answer"
    /\ \/ host.answers[Len(task.results) + 1] = "applied" /\ task' = Result(task, "changed")
       \/ task' = Result(task, "error")
    /\ UNCHANGED <<channel, sent, heard>>

\* Variant: the window may take as long as it likes.
AwaitOutfitForEver ==
    /\ task.at = "answer"
    /\ LET answer == host.answers[Len(task.results) + 1]
       IN  \/ answer = "applied" /\ task' = Result(task, "changed")
           \/ answer = "failed" /\ task' = Result(task, "error")
    /\ UNCHANGED <<channel, sent, heard>>

AwaitOutfit ==
    /\ task.at = "answer"
    /\ LET answer == host.answers[Len(task.results) + 1]
       IN  \/ answer = "applied" /\ task' = Result(task, "changed")
           \/ answer = "failed" /\ task' = Result(task, "error")
           \/ answer = "none" /\ late /\ task' = Result(task, "error")
    /\ UNCHANGED <<channel, sent, heard>>

\* revoke_image: every screenshot of the round is reported as revoked.
RevokeImage(t) ==
    [t EXCEPT !.image = FALSE,
              !.results = IF t.image THEN [i \in DOMAIN @ |-> IF @[i] = "shown" THEN "error" ELSE @[i]]
                          ELSE @]

\* The next request, with the results and no more tools.
Continue ==
    /\ task.at = "tools" /\ Len(task.results) = Len(task.calls)
    /\ LET t == IF Authorized(task) THEN task ELSE RevokeImage(task)
       IN  task' = [t EXCEPT !.at = "attempt", !.round = 2, !.calls = <<>>,
                       !.screen = \E i \in DOMAIN t.calls : t.calls[i] \in {"screen", "arguments"}]
    /\ UNCHANGED <<channel, sent, heard>>

TaskNext ==
    /\ \/ Begin \/ Attempt \/ Connect \/ Deadlines \/ Chunk \/ ToolChunk \/ End \/ Wake
       \/ Flush \/ Conclude \/ Screen \/ Capture \/ NoTool \/ AskOutfit \/ AwaitOutfit \/ Continue
    /\ UNCHANGED <<reader, reply, effects, host, permission, late>>

-----------------------------------------------------------------------------
(* The Agent.                                                              *)

Streaming == reply.state = "streaming"

\* The receiver is dropped with what it holds; nobody will answer a request in it.
Leave ==
    /\ reader' = "joining"
    /\ channel' = <<>>
    /\ host' = [host EXCEPT !.answers =
                   [id \in DOMAIN @ |-> IF \E i \in DOMAIN channel :
                       channel[i] = Event("outfit", id) THEN "failed" ELSE @[id]]]

Reading(kind) == reader = "reading" /\ channel # <<>> /\ Head(channel).kind = kind
Stay == channel' = Tail(channel) /\ UNCHANGED <<reader, host>>

\* apply_stream_event: an event of a reply that was cancelled ends the loop.
ReadStale ==
    /\ reader = "reading" /\ channel # <<>> /\ ~Streaming
    /\ Leave
    /\ UNCHANGED <<reply, effects>>

ReadDelta ==
    /\ Reading("delta") /\ Streaming
    /\ \/ /\ reply' = [reply EXCEPT !.text = @ \o Head(channel).body]
          /\ Stay
       \/ /\ reply' = [reply EXCEPT !.state = "failed"]  \* the reply is too large
          /\ Leave
    /\ UNCHANGED effects

ReadTrace ==
    /\ Reading("trace") /\ Streaming
    /\ reply' = [reply EXCEPT !.trace = Head(channel).body]
    /\ Stay
    /\ UNCHANGED effects

ReadOutfit ==
    /\ Reading("outfit") /\ Streaming
    /\ channel' = Tail(channel)
    /\ effects' = Append(effects, Head(channel).body)
    /\ UNCHANGED <<reader, reply, host>>

ReadEnding ==
    /\ (Reading("finished") \/ Reading("failed")) /\ Streaming
    /\ reply' = [reply EXCEPT !.state = Head(channel).kind]
    /\ Leave
    /\ UNCHANGED effects

\* The sender is gone and the channel empty.
ReadNone ==
    /\ reader = "reading" /\ channel = <<>> /\ task.at \in {"done", "dropped"}
    /\ Leave
    /\ UNCHANGED <<reply, effects>>

\* The task is joined; a reply without an end has failed, unless it was aborted.
Return ==
    /\ reader = "joining" /\ task.at \in {"done", "dropped"}
    /\ reader' = "returned"
    /\ reply' = IF Streaming /\ task.at = "done" THEN [reply EXCEPT !.state = "failed"] ELSE reply
    /\ UNCHANGED <<channel, effects, host>>

AgentNext ==
    /\ \/ ReadStale \/ ReadDelta \/ ReadTrace \/ ReadOutfit \/ ReadEnding \/ ReadNone \/ Return
    /\ UNCHANGED <<task, permission, late, sent, heard>>

-----------------------------------------------------------------------------
(* The user, the window and the clock.                                     *)

Cancel ==
    /\ Streaming
    /\ reply' = [reply EXCEPT !.state = "cancelled"]
    /\ UNCHANGED <<task, channel, reader, effects, host, permission, late, sent, heard>>

\* The aborted task is dropped at its next poll.
Aborted ==
    /\ reply.state = "cancelled" /\ task.at \notin {"done", "dropped"}
    /\ task' = [task EXCEPT !.at = "dropped"]
    /\ UNCHANGED <<channel, permission, late, sent, heard>> /\ UNCHANGED agent

Revoke ==
    /\ permission = "granted"
    /\ permission' = "revoked"
    /\ UNCHANGED <<task, channel, late, sent, heard>> /\ UNCHANGED agent

Waited(id) == task.at = "answer" /\ Len(task.results) + 1 = id

\* apply_agent_outfit_request: a request nobody waits for, or for a model that was
\* exchanged, is refused; the others are applied, if the model takes them.
HostTakes ==
    /\ effects # <<>> /\ host.applying = 0
    /\ effects' = Tail(effects)
    /\ LET id == Head(effects)
       IN  \/ Waited(id) /\ host' = [host EXCEPT !.applying = id]
           \/ host' = [host EXCEPT !.answers[id] = "failed"]

\* A change is applied when the window has accepted it.
HostAnswers ==
    /\ host.applying # 0
    /\ \/ host' = [host EXCEPT !.applying = 0, !.applied = @ \cup {host.applying},
                               !.answers[host.applying] = "applied"]
       \/ host' = [host EXCEPT !.applying = 0, !.answers[host.applying] = "failed"]
    /\ UNCHANGED effects

HostNext ==
    /\ HostTakes \/ HostAnswers
    /\ UNCHANGED <<task, channel, reader, reply, permission, late, sent, heard>>

Clock ==
    /\ ~late /\ late' = TRUE
    /\ UNCHANGED <<task, channel, permission, sent, heard>> /\ UNCHANGED agent

Rest == reader = "returned" /\ UNCHANGED vars

Next == TaskNext \/ AgentNext \/ Cancel \/ Aborted \/ Revoke \/ HostNext \/ Clock \/ Rest

\* Tokio polls what can go on and time passes; the window may be slow for ever.
Spec ==
    /\ Init /\ [][Next]_vars
    /\ WF_vars(TaskNext \/ Aborted) /\ WF_vars(AgentNext) /\ WF_vars(Clock)

-----------------------------------------------------------------------------
\* What the user reads is what the provider said, each piece once and in order: a
\* retry never repeats a beginning that was shown, and a reply that is marked as
\* finished is whole, unless it ran into the total deadline
\* (stream_with_retry, consume_stream).
ReplyIsFaithful ==
    /\ IsPrefix(reply.text, heard)
    /\ \A i, j \in DOMAIN reply.text :
           reply.text[i].round = reply.text[j].round => reply.text[i].attempt = reply.text[j].attempt
    /\ reply.state = "finished" => (reply.text = heard \/ late)

\* The trace of a finished reply lists what its tools really did: the change of
\* an outfit that was reported was accepted by the window, and none was accepted
\* that the trace does not report, however late the window answered
\* (execute_tool_calls, request_outfit_change, send_completion_events).  That an
\* accepted variant may fail to load, or the write of it be taken back later
\* (outfit.rs:115), is outside the model.
TraceTellsTheTruth ==
    reply.state = "finished" =>
        /\ reply.trace = task.results
        /\ \A id \in 1 .. MaxCalls :
               (id \in host.applied) <=> (id \in DOMAIN reply.trace /\ reply.trace[id] = "changed")

\* Once the permission is revoked no request with the image is made, and no more
\* text comes out of a request that needed the permission
\* (stream_with_retry, stream_once).
RevocationIsHonoured ==
    [][permission = "revoked" =>
          /\ sent'.image => sent' = sent
          /\ (Required(task) /\ Len(channel') > Len(channel)) => Last(channel').kind # "delta"]_vars

\* Every call of send returns and leaves no reply streaming, though the provider
\* stalls, the window never answers or the reply is cancelled at any point.
EveryReplyEnds == <>(reader = "returned" /\ ~Streaming)
=============================================================================
