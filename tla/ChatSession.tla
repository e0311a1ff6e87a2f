---------------------------- MODULE ChatSession ----------------------------
(***************************************************************************)
(* The bounded conversation of one persona (crates/lunamate-agent/src/     *)
(* session): a queue of messages grouped in turns, running totals that are *)
(* kept beside it, at most one streaming reply, and the request context    *)
(* built from it.  Three budgets (messages, tokens, image bytes) are held  *)
(* by dropping whole turns from the front, never the turn being answered.  *)
(*                                                                         *)
(* Text is its estimated size.  The caller owns the session under one lock *)
(* (AgentCore), so every method is one action; what makes it hard is the   *)
(* sequence of calls: replies that come late, edits and deletions between  *)
(* turns, limits that shrink under a running reply, restarts.              *)
(***************************************************************************)
EXTENDS Naturals, SequencesExt

CONSTANTS
    Limits,        \* the limits a configuration may set
    Sizes,         \* sizes of a text
    TraceSizes,    \* sizes of the trace of a reply
    PerMessage,    \* TOKENS_PER_MESSAGE
    ImageTokens,   \* IMAGE_CONTEXT_TOKENS
    MissingImageTokens, \* MISSING_IMAGE_CONTEXT_TOKENS
    MarkerSize,    \* size of the voice interruption marker
    MaxText,       \* MAX_SESSION_TEXT_BYTES
    MaxImages,     \* MAX_SESSION_IMAGE_BYTES, in images
    MaxTraces,     \* MAX_SESSION_TRACE_*, one number for the three
    MaxTurns       \* bound on the turns of a behaviour

ASSUME SessionAssumption ==
    /\ Limits \subseteq [messages : Nat, tokens : Nat, request : Nat]
    /\ \A l \in Limits : l.messages >= 2
    /\ Sizes \subseteq Nat /\ TraceSizes \subseteq Nat
    /\ {PerMessage, ImageTokens, MissingImageTokens, MarkerSize,
        MaxText, MaxImages, MaxTraces, MaxTurns} \subseteq Nat

VARIABLES
    messages,     \* the queue of messages
    usage,        \* total_tokens, total_image_bytes, trace_usage
    limits,
    nextTurn, nextMessage, nextResponse,
    active,       \* active_response
    voicePending, \* voice_interruption_pending
    answer        \* what the last call returned

vars == <<messages, usage, limits, nextTurn, nextMessage, nextResponse, active,
          voicePending, answer>>

\* Failed, Cancelled and Interrupted are one state here: a reply that is shown
\* but never sent.
States == {"Complete", "Streaming", "Broken", "InterruptedByVoice"}

\* An image keeps its pixels until it goes through a snapshot.
Images == {"none", "live", "ghost"}

Message == [id : Nat, turn : Nat, role : {"User", "Assistant"}, size : Nat,
            image : Images, trace : Nat, state : States]

NoReply == [id |-> 0, turn |-> 0, message |-> 0]

\* The context of a request, the budget it was built for, and whether an
\* interruption by voice had to be told.
Started(context, owed) ==
    [result |-> "started", context |-> context, owed |-> owed]
Answer(result) == [result |-> result, context |-> <<>>, owed |-> FALSE]

Empty == [tokens |-> 0, images |-> 0, traces |-> 0]

Init ==
    /\ messages = <<>>
    /\ usage = Empty
    /\ limits \in Limits
    /\ nextTurn = 0 /\ nextMessage = 0 /\ nextResponse = 0
    /\ active = NoReply
    /\ voicePending = FALSE
    /\ answer = Answer("ok")

-----------------------------------------------------------------------------
(* Sizes and budgets.                                                      *)

Tokens(m) == PerMessage + m.size + (IF m.image = "live" THEN ImageTokens ELSE 0)
ImageBytes(m) == IF m.image = "live" THEN 1 ELSE 0

\* What request_image_context_tokens adds for an image in a request.
RequestTokens(m) ==
    PerMessage + m.size + (CASE m.image = "live" -> ImageTokens
                             [] m.image = "ghost" -> MissingImageTokens
                             [] OTHER -> 0)

\* The total of a sequence of numbers.
Total(w) ==
    LET sum[i \in 0..Len(w)] == IF i = 0 THEN 0 ELSE sum[i - 1] + w[i]
    IN sum[Len(w)]

Use(ms) == [tokens |-> Total([i \in DOMAIN ms |-> Tokens(ms[i])]),
            images |-> Total([i \in DOMAIN ms |-> ImageBytes(ms[i])]),
            traces |-> Total([i \in DOMAIN ms |-> ms[i].trace])]

RequestSize(context) == Total([i \in DOMAIN context |-> RequestTokens(context[i])])

Monus(a, b) == IF a > b THEN a - b ELSE 0
Minus(u, v) == [k \in DOMAIN u |-> Monus(u[k], v[k])]
Plus(u, v) == [k \in DOMAIN u |-> u[k] + v[k]]

\* Whether so many messages with this usage, and the additional ones, fit.
Fits(count, u, more, extra, l) ==
    /\ count + more <= l.messages
    /\ u.tokens + extra.tokens <= l.tokens
    /\ u.images + extra.images <= MaxImages

\* The messages of a sequence that are in a set, in their order.
Pick(ms, chosen) ==
    LET pick[i \in 0..Len(ms)] ==
            IF i = 0 THEN <<>>
            ELSE IF ms[i] \in chosen THEN Append(pick[i - 1], ms[i]) ELSE pick[i - 1]
    IN pick[Len(ms)]

Leading(ms, k) == SubSeq(ms, 1, k)
Rest(ms, k) == SubSeq(ms, k + 1, Len(ms))

\* Variant: the turn being answered may leave as well.
AnyWholeTurns(ms, reply) ==
    {k \in 0..Len(ms) : k \in 1..(Len(ms) - 1) => ms[k].turn # ms[k + 1].turn}

\* The lengths of the front that eviction may have removed: whole turns, and
\* nothing from the turn being answered on.
WholeTurns(ms, reply) ==
    {k \in 0..Len(ms) : /\ k \in 1..(Len(ms) - 1) => ms[k].turn # ms[k + 1].turn
                        /\ \A i \in 1..k : ms[i].turn # reply.turn}

\* trim_completed_turns_for: the fewest whole turns whose removal makes room,
\* or all that may go.  The totals are decremented, not computed anew.
Trim(ms, u, reply, more, extra, l) ==
    LET cuts == WholeTurns(ms, reply)
        enough == {k \in cuts : Fits(Len(ms) - k, Minus(u, Use(Leading(ms, k))), more, extra, l)}
        cut == IF enough # {} THEN Min(enough) ELSE Max(cuts)
    IN [messages |-> Rest(ms, cut), usage |-> Minus(u, Use(Leading(ms, cut)))]

\* refresh_voice_interruption_pending
EndsInterrupted(ms) == ms # <<>> /\ Last(ms).state = "InterruptedByVoice"

-----------------------------------------------------------------------------
(* The request context.                                                    *)

Sendable == {"Complete", "InterruptedByVoice"}

\* context_messages: turns with both sides, and the question being answered.
Context(ms, reply) ==
    LET Of(t, role) == {m \in ToSet(ms) : m.turn = t /\ m.role = role}
        Answered(t) == \E m \in Of(t, "Assistant") : m.state \in Sendable
        Lost(t) == t # reply.turn /\ \E m \in Of(t, "Assistant") : m.state \notin Sendable
        Included(m) ==
            /\ ~Lost(m.turn)
            /\ IF m.role = "User" THEN m.turn = reply.turn \/ Answered(m.turn)
               ELSE m.state \in Sendable /\ Of(m.turn, "User") # {}
        Entry(m) == LET marked == m.state = "InterruptedByVoice"
                    IN [source |-> m.id, role |-> m.role, image |-> m.image, marked |-> marked,
                        size |-> m.size + (IF marked THEN MarkerSize ELSE 0)]
        chosen == Pick(ms, {m \in ToSet(ms) : Included(m)})
    IN [i \in DOMAIN chosen |-> Entry(chosen[i])]

\* trim_request_context: a question leaves with its answer, the last message stays.
TrimRequest(context, budget) ==
    LET stops == {k \in 0..(Len(context) - 1) :
                    ~(k > 0 /\ context[k].role = "User" /\ context[k + 1].role = "Assistant")}
        enough == {k \in stops : RequestSize(Rest(context, k)) <= budget}
    IN IF context = <<>> THEN <<>>
       ELSE Rest(context, IF enough # {} THEN Min(enough) ELSE Max(stops))

\* Variant: the interrupted reply is taken to be in the context.
AnnounceUnseen(context, interrupted) == context

\* The marker is told by the interrupted reply while the context still holds
\* it, and in front of the question otherwise.
Announce(context, interrupted) ==
    LET retained == \E i \in DOMAIN context : context[i].source = interrupted /\ context[i].marked
        asked == {i \in DOMAIN context : context[i].role = "User"}
    IN IF retained \/ asked = {} THEN context
       ELSE [context EXCEPT ![Max(asked)].marked = TRUE, ![Max(asked)].size = @ + MarkerSize]

\* interrupted_message_id
LatestInterrupted ==
    LET found == {i \in DOMAIN messages : messages[i].state = "InterruptedByVoice"}
    IN IF voicePending /\ found # {} THEN messages[Max(found)].id ELSE 0

-----------------------------------------------------------------------------
(* One turn.                                                               *)

Refuse == answer' = Answer("refused")
Accept == answer' = Answer("ok")
NoNewIds == UNCHANGED <<nextTurn, nextMessage, nextResponse>>
Keep(store) == messages' = store.messages /\ usage' = store.usage

\* Variant: the size of the turn is only compared after older turns made room.
RejectedUnmeasured(user, extra, marker) ==
    \/ active # NoReply
    \/ user.size \notin 1..MaxText
    \/ RequestTokens([user EXCEPT !.size = @ + marker]) > limits.request
    \/ extra.images > MaxImages

\* The early returns of start_turn_with_image, before anything is changed.
Rejected(user, extra, marker) ==
    \/ active # NoReply
    \/ user.size \notin 1..MaxText
    \/ RequestTokens([user EXCEPT !.size = @ + marker]) > limits.request
    \/ extra.tokens > limits.tokens
    \/ extra.images > MaxImages

\* start_turn_with_image; an image without text gets a prompt of one unit.
StartTurn(text, image) ==
    LET user == [id |-> nextMessage + 1, turn |-> nextTurn + 1, role |-> "User",
                 size |-> IF text = 0 /\ image = "live" THEN 1 ELSE text,
                 image |-> image, trace |-> 0, state |-> "Complete"]
        reply == [id |-> nextMessage + 2, turn |-> nextTurn + 1, role |-> "Assistant", size |-> 0,
                  image |-> "none", trace |-> 0, state |-> "Streaming"]
        now == [id |-> nextResponse + 1, turn |-> nextTurn + 1, message |-> nextMessage + 2]
        extra == Use(<<user, reply>>)
        kept == Trim(messages, usage, active, 2, extra, limits)
        queue == kept.messages \o <<user, reply>>
        trimmed == TrimRequest(Context(queue, now), limits.request)
        context == IF voicePending THEN Announce(trimmed, LatestInterrupted) ELSE trimmed
    IN
    /\ nextTurn < MaxTurns
    /\ UNCHANGED limits
    /\ IF Rejected(user, extra, IF voicePending THEN MarkerSize ELSE 0)
       THEN /\ Refuse
            /\ NoNewIds
            /\ UNCHANGED <<messages, usage, active, voicePending>>
       ELSE IF Fits(Len(kept.messages), kept.usage, 2, extra, limits)
       THEN /\ messages' = queue
            /\ usage' = Plus(kept.usage, extra)
            /\ nextTurn' = nextTurn + 1
            /\ nextMessage' = nextMessage + 2
            /\ nextResponse' = nextResponse + 1
            /\ active' = now
            /\ voicePending' = FALSE
            /\ answer' = Started(TrimRequest(context, limits.request), voicePending)
       ELSE /\ Keep(kept)
            /\ Refuse
            /\ NoNewIds
            /\ UNCHANGED <<active, voicePending>>

Responses == 1..nextResponse
Current(r) == active # NoReply /\ active.id = r

\* The position of the reply that is being streamed.
Streamed == {i \in DOMAIN messages : messages[i].id = active.message /\ messages[i].turn = active.turn}

\* append_response: a chunk for the reply at the end of the queue.
AppendResponse(r, chunk) ==
    LET last == Last(messages)
        grown == [last EXCEPT !.size = @ + chunk]
        before == Len(messages) - 1
        question == IF /\ before > 0
                       /\ messages[before].turn = active.turn /\ messages[before].role = "User"
                    THEN <<messages[before]>> ELSE <<>>
        extra == [Empty EXCEPT !.tokens = chunk]
        kept == Trim(messages, usage, active, 0, extra, limits)
        fits == kept.usage.tokens + chunk <= limits.tokens
    IN
    /\ r \in Responses
    /\ IF /\ Current(r) /\ Len(messages) \in Streamed /\ last.state = "Streaming"
          /\ grown.size <= MaxText
          /\ Use(Append(question, grown)).tokens <= limits.tokens
       THEN /\ messages' = IF fits THEN Leading(kept.messages, Len(kept.messages) - 1) \o <<grown>>
                           ELSE kept.messages
            /\ usage' = IF fits THEN Plus(kept.usage, extra) ELSE kept.usage
            /\ answer' = Answer(IF fits THEN "ok" ELSE "refused")
       ELSE /\ Refuse
            /\ UNCHANGED <<messages, usage>>
    /\ NoNewIds
    /\ UNCHANGED <<limits, active, voicePending>>

\* attach_response_trace: at most one for a streaming reply, within the cap.
AttachTrace(r, size) ==
    /\ r \in Responses
    /\ IF Current(r) /\ usage.traces + size <= MaxTraces
       THEN \E i \in Streamed :
                IF messages[i].state = "Streaming" /\ messages[i].trace = 0
                THEN /\ messages' = [messages EXCEPT ![i].trace = size]
                     /\ usage' = [usage EXCEPT !.traces = @ + size]
                     /\ Accept
                ELSE Refuse /\ UNCHANGED <<messages, usage>>
       ELSE Refuse /\ UNCHANGED <<messages, usage>>
    /\ NoNewIds
    /\ UNCHANGED <<limits, active, voicePending>>

\* set_response_state for finish_response, fail_response and cancel_response.
Settle(r, state) ==
    /\ r \in Responses
    /\ IF Current(r)
       THEN /\ messages' = [i \in DOMAIN messages |->
                              IF i \in Streamed THEN [messages[i] EXCEPT !.state = state] ELSE messages[i]]
            /\ active' = NoReply
            /\ Accept
       ELSE Refuse /\ UNCHANGED <<messages, active>>
    /\ NoNewIds
    /\ UNCHANGED <<usage, limits, voicePending>>

\* interrupt_response_by_voice, always for the reply that is active.
InterruptByVoice ==
    /\ active # NoReply
    /\ messages' = [i \in DOMAIN messages |->
                      IF i \in Streamed THEN [messages[i] EXCEPT !.state = "InterruptedByVoice"] ELSE messages[i]]
    /\ active' = NoReply
    /\ voicePending' = TRUE
    /\ Accept
    /\ NoNewIds
    /\ UNCHANGED <<usage, limits>>

\* delete_messages without its guard.
Without(ids) ==
    LET gone == {m \in ToSet(messages) : m.id \in ids}
    IN [messages |-> Pick(messages, ToSet(messages) \ gone),
        usage |-> Minus(usage, Use(Pick(messages, gone)))]

\* discard_response_turn
Discard(r) ==
    LET kept == Without({m.id : m \in {m \in ToSet(messages) : m.turn = active.turn}})
    IN
    /\ r \in Responses
    /\ IF Current(r)
       THEN /\ Keep(kept)
            /\ active' = NoReply
            /\ voicePending' = EndsInterrupted(kept.messages)
            /\ Accept
       ELSE Refuse /\ UNCHANGED <<messages, usage, active, voicePending>>
    /\ NoNewIds
    /\ UNCHANGED limits

-----------------------------------------------------------------------------
(* The whole conversation.                                                 *)

\* clear
Clear ==
    /\ messages' = <<>> /\ usage' = Empty
    /\ active' = NoReply /\ voicePending' = FALSE
    /\ Accept
    /\ NoNewIds
    /\ UNCHANGED limits

\* update_limits
UpdateLimits(l) ==
    /\ limits' = l
    /\ Keep(Trim(messages, usage, active, 0, Empty, l))
    /\ Accept
    /\ NoNewIds
    /\ UNCHANGED <<active, voicePending>>

\* Variant: the trace an edit drops stays in the totals.
EditLeavesTraceUsage(id, size) ==
    /\ \E i \in DOMAIN messages :
         LET new == [messages[i] EXCEPT !.size = size, !.trace = 0, !.state = "Complete"]
             total == Monus(usage.tokens, Tokens(messages[i])) + Tokens(new)
         IN /\ messages[i].id = id
            /\ size \in 1..MaxText /\ messages[i].turn # active.turn /\ total <= limits.tokens
            /\ messages' = [messages EXCEPT ![i] = new]
            /\ usage' = [usage EXCEPT !.tokens = total]
            /\ voicePending' = EndsInterrupted(messages')
    /\ Accept
    /\ NoNewIds
    /\ UNCHANGED <<limits, active>>

\* edit_message: an edited reply is complete again and loses its trace.
Edit(id, size) ==
    /\ \E i \in DOMAIN messages :
         LET new == [messages[i] EXCEPT !.size = size, !.trace = 0, !.state = "Complete"]
             total == Monus(usage.tokens, Tokens(messages[i])) + Tokens(new)
         IN /\ messages[i].id = id
            /\ IF size \in 1..MaxText /\ messages[i].turn # active.turn /\ total <= limits.tokens
               THEN /\ messages' = [messages EXCEPT ![i] = new]
                    /\ usage' = [usage EXCEPT !.tokens = total,
                                              !.traces = Monus(@, messages[i].trace)]
                    /\ voicePending' = EndsInterrupted(messages')
                    /\ Accept
               ELSE Refuse /\ UNCHANGED <<messages, usage, voicePending>>
    /\ NoNewIds
    /\ UNCHANGED <<limits, active>>

\* Variant: the interruption is not looked for again after a deletion.
DeleteKeepsOwing(ids) ==
    /\ ids # {}
    /\ \A m \in ToSet(messages) : m.id \in ids => m.turn # active.turn
    /\ Keep(Without(ids))
    /\ Accept
    /\ NoNewIds
    /\ UNCHANGED <<limits, active, voicePending>>

\* delete_messages: any selection that leaves the active turn alone.
Delete(ids) ==
    /\ ids # {}
    /\ IF \E m \in ToSet(messages) : m.id \in ids /\ m.turn = active.turn
       THEN Refuse /\ UNCHANGED <<messages, usage, voicePending>>
       ELSE /\ Keep(Without(ids))
            /\ voicePending' = EndsInterrupted(messages')
            /\ Accept
    /\ NoNewIds
    /\ UNCHANGED <<limits, active>>

-----------------------------------------------------------------------------
(* Snapshots.                                                              *)

OfTurn(ms, t) == Pick(ms, {m \in ToSet(ms) : m.turn = t})

\* What from_snapshot demands of the messages, in the order of the queue.
ValidSnapshot(ms) ==
    /\ \A i, k \in DOMAIN ms : i < k => ms[i].id # ms[k].id
    /\ \A i, j, k \in DOMAIN ms :
         i < j /\ j < k /\ ms[i].turn = ms[k].turn => ms[j].turn = ms[i].turn
    /\ \A m \in ToSet(ms) :
         LET turn == OfTurn(ms, m.turn)
         IN /\ m.id # 0 /\ m.turn # 0 /\ m.size <= MaxText
            /\ IF m.role = "User" THEN m.state = "Complete" /\ m.trace = 0 ELSE m.image = "none"
            /\ \/ Len(turn) = 1
               \/ Len(turn) = 2 /\ turn[1].role = "User" /\ turn[2].role = "Assistant"
    /\ Use(ms).traces <= MaxTraces

\* What the database gives back of a snapshot: images without their pixels.
Stored(ms) ==
    [i \in DOMAIN ms |-> [ms[i] EXCEPT !.image = IF @ = "live" THEN "ghost" ELSE @]]

\* A reply that was streaming is broken when it is read.
Stopped(turn) ==
    [i \in DOMAIN turn |-> [turn[i] EXCEPT !.state = IF @ = "Streaming" THEN "Broken" ELSE @]]

\* One turn of a snapshot: one that fits nowhere is skipped, older ones make
\* room for newer ones.
TakeTurn(store, turn, l) ==
    LET new == Use(turn)
        kept == Trim(store.messages, store.usage, NoReply, Len(turn), new, l)
    IN IF turn = <<>> \/ ~Fits(0, Empty, Len(turn), new, l) THEN store
       ELSE IF ~Fits(Len(kept.messages), kept.usage, Len(turn), new, l) THEN kept
       ELSE [messages |-> kept.messages \o turn, usage |-> Plus(kept.usage, new)]

\* Turns are numbered on from the highest number in the snapshot, the turns
\* that found no room included.
HighestTurn(ms) == Max({0} \cup {m.turn : m \in ToSet(ms)})

\* Variant: the messages are counted.
NumberOfMessages(ms) == Len(ms)

\* And so are messages.
HighestMessage(ms) == Max({0} \cup {m.id : m \in ToSet(ms)})

\* from_snapshot under limits l, from the oldest turn on.
Restored(ms, l) ==
    LET last == HighestTurn(ms)
        taken[t \in 0..last] ==
            IF t = 0 THEN [messages |-> <<>>, usage |-> Empty]
            ELSE TakeTurn(taken[t - 1], Stopped(OfTurn(ms, t)), l)
    IN taken[last]

\* The session is written at any moment and read again, by the next start of
\* the program or when its persona is chosen again.
Restore(l) ==
    LET source == Stored(messages)
        store == Restored(source, l)
    IN
    /\ ValidSnapshot(source)
    /\ Keep(store)
    /\ limits' = l
    /\ nextTurn' = HighestTurn(source)
    /\ nextMessage' = HighestMessage(source)
    /\ nextResponse' = 0
    /\ active' = NoReply
    /\ voicePending' = EndsInterrupted(store.messages)
    /\ answer' = Answer("restored")

Next ==
    \/ \E size \in Sizes, image \in {"none", "live"} : StartTurn(size, image)
    \/ \E r \in Responses :
         \/ \E size \in Sizes : AppendResponse(r, size)
         \/ \E size \in TraceSizes : AttachTrace(r, size)
         \/ \E state \in {"Complete", "Broken"} : Settle(r, state)
         \/ Discard(r)
    \/ InterruptByVoice
    \/ Clear
    \/ \E l \in Limits : UpdateLimits(l) \/ Restore(l)
    \/ \E id \in {m.id : m \in ToSet(messages)}, size \in Sizes : Edit(id, size)
    \/ \E ids \in SUBSET {m.id : m \in ToSet(messages)} : Delete(ids)

Spec == Init /\ [][Next]_vars

-----------------------------------------------------------------------------
(* Properties.                                                             *)

\* The state keeps its types.
TypeOK ==
    /\ messages \in Seq(Message)
    /\ usage \in [tokens : Nat, images : Nat, traces : Nat]
    /\ limits \in Limits
    /\ {nextTurn, nextMessage, nextResponse} \subseteq Nat
    /\ active \in [id : Nat, turn : Nat, message : Nat]
    /\ voicePending \in BOOLEAN

\* The running totals are the totals of the messages, whatever was edited,
\* deleted, evicted, discarded or restored.
TotalsMatch == usage = Use(messages)

\* Only one turn may exceed the budgets: the one that was being answered when
\* the limits shrank.  Every older turn has made room.
OneTurnOverBudget ==
    Fits(Len(messages), usage, 0, Empty, limits)
        \/ \A i, j \in DOMAIN messages : messages[i].turn = messages[j].turn

\* The three budgets of the conversation are held through every sequence of
\* turns, edits, deletions and changed limits (trim_completed_turns_for).
BudgetsHold ==
    /\ TypeOK
    /\ TotalsMatch
    /\ usage.traces <= MaxTraces
    /\ OneTurnOverBudget

\* A running reply keeps its place at the end of the queue, behind its
\* question: no edit, deletion or eviction moves or removes it, and nothing
\* else is streaming.
ReplyKeepsItsPlace ==
    LET n == Len(messages)
    IN /\ active # NoReply =>
            /\ n >= 2
            /\ messages[n].id = active.message
            /\ messages[n].turn = active.turn
            /\ messages[n - 1].turn = active.turn
       /\ \A i \in DOMAIN messages :
            messages[i].state = "Streaming" <=> active # NoReply /\ i = n

\* A request alternates questions and answers, ends with the new question,
\* and fits the budget of a request, whatever history it was built from.
Alternates(context) ==
    /\ \A i \in DOMAIN context : context[i].role = IF i % 2 = 1 THEN "User" ELSE "Assistant"
    /\ context # <<>>
    /\ Last(context).source = messages[Len(messages) - 1].id
    /\ Len(context) % 2 = 1
    /\ RequestSize(context) <= limits.request

\* The last reply before the question, if it is still there.
ReplyBefore == IF Len(messages) > 2 THEN messages[Len(messages) - 2].id ELSE 0

\* After the user cut a reply short by speaking, the next request says so, at
\* the cut reply or, if that left the context, at the question; once told it
\* is not owed again.
TellsInterruption(context, owed) ==
    LET told == \E i \in DOMAIN context : context[i].marked /\ context[i].source = ReplyBefore
    IN Last(context).marked <=> owed /\ ~told

RequestIsAnswerable ==
    answer.result = "started" =>
        Alternates(answer.context) /\ TellsInterruption(answer.context, answer.owed)

\* An interruption is owed exactly while the reply that was cut is the last
\* message; eviction of the whole conversation keeps it owed.
InterruptionIsOwed ==
    /\ EndsInterrupted(messages) => voicePending
    /\ voicePending => messages = <<>> \/ EndsInterrupted(messages)

\* Whatever the session holds, its snapshot is one from_snapshot accepts: the
\* program never writes a conversation it would refuse at the next start.
SnapshotRestores == ValidSnapshot(Stored(messages))

\* A call that is refused leaves the conversation as it was; in particular no
\* turn is evicted for a message that is then too large.
RefusedCallsChangeNothing ==
    [][answer'.result = "refused" => UNCHANGED <<messages, usage, active, voicePending>>]_vars
=============================================================================
