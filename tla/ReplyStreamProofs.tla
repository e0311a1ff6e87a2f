-------------------------- MODULE ReplyStreamProofs --------------------------
(***************************************************************************)
(* For any capacity of the channel and any number of retries, tool calls   *)
(* and pieces of text: what the user reads is what the provider said, the  *)
(* trace of a finished reply is true, and a revoked permission is honoured.*)
(*                                                                         *)
(* A step of the task often does two things, such as sending a piece and   *)
(* deciding what comes next.  The parts of the invariant therefore take    *)
(* the task, the channel and what was heard as parameters, so that a lemma *)
(* can speak of the state between the two.                                 *)
(***************************************************************************)
EXTENDS ReplyStream, SequenceTheorems, TLAPS

Before == {"start", "attempt", "connect", "stream", "await", "flush"}
Asking == {"tools", "capture", "answer"}
Finale == {"ending", "done", "dropped"}

Pieces == [round : {1, 2}, attempt : Nat, n : Nat]
Outcomes == {"error", "shown", "changed"}
Events == [kind : {"delta"}, body : Seq(Pieces)]
          \cup [kind : {"trace"}, body : Seq(Outcomes)]
          \cup [kind : {"outfit"}, body : 1 .. MaxCalls]
          \cup [kind : {"finished", "failed"}, body : {<<>>}]

Tasks == [at : Before \cup Asking \cup Finale, round : {1, 2}, retries : Nat,
          capability : BOOLEAN, registered : BOOLEAN, tools : BOOLEAN, screen : BOOLEAN,
          started : BOOLEAN, content : BOOLEAN, chunks : Nat, pending : Seq(Pieces),
          then : {"stream", "end", "invalid", "error", "broken", "give up", "idle"},
          calls : Seq(Tools), results : Seq(Outcomes), image : BOOLEAN, last : Seq(Events)]

Typed(t, ch, h) ==
    /\ t \in Tasks /\ ch \in Seq(Events) /\ h \in Seq(Pieces)
    /\ reader \in {"reading", "joining", "returned"}
    /\ reply \in [state : {"streaming", "finished", "failed", "cancelled"},
                  text : Seq(Pieces), trace : Seq(Outcomes)]
    /\ effects \in Seq(1 .. MaxCalls)
    /\ host \in [applying : 0 .. MaxCalls, applied : SUBSET (1 .. MaxCalls),
                 answers : [1 .. MaxCalls -> {"none", "applied", "failed"}]]
    /\ late \in BOOLEAN

LastFailed == <<Event("failed", <<>>)>>
LastFinished == <<Event("finished", <<>>)>>
LastTraced(t) == <<Event("trace", t.results), Event("finished", <<>>)>>

\* Where the task is decides what its locals hold; only its end ends the events,
\* and a reader that left early had no streaming reply.
PhaseOK(t, ch) ==
    /\ Len(t.calls) <= MaxCalls /\ Len(t.results) <= MaxCalls
    /\ t.at \in Asking => t.round = 1 /\ Len(t.results) <= Len(t.calls)
    /\ t.at \in {"capture", "answer"} => Len(t.results) < Len(t.calls)
    /\ t.at = "capture" => t.calls[Len(t.results) + 1] = "screen"
    /\ (t.round = 1 /\ t.at \in Before) => t.results = <<>>
    /\ t.at \in {"start", "attempt", "connect"} \cup Asking => ~t.started
    /\ t.pending # <<>> => t.started
    /\ reader # "reading" =>
          ch = <<>> /\ (reply.state = "streaming" => t.at \in {"done", "dropped"})
    /\ t.at = "dropped" => reply.state = "cancelled"
    /\ reply.state = "finished" => t.at = "done"
    /\ t.at \notin Finale => reply.trace = <<>>
    /\ t.at = "ending" => t.last \in {LastFailed, LastFinished, LastTraced(t)}
    /\ \A i \in 1 .. Len(ch) :
          /\ ch[i].kind \in {"finished", "failed"} => i = Len(ch) /\ t.at = "done"
          /\ ch[i].kind = "trace" => t.at \in Finale /\ ch[i].body = t.results

\* The task has decided that the reply is finished.
Finishes(t, ch) ==
    \/ t.at = "ending" /\ t.last # LastFailed
    \/ \E i \in 1 .. Len(ch) : ch[i].kind = "finished"

\* cut[i] pieces have been read when event i of the channel is.
Cuts(cut, ch, h) ==
    /\ cut[0] = Len(reply.text)
    /\ \A j \in 1 .. Len(reply.text) : reply.text[j] = h[j]
    /\ \A i \in 1 .. Len(ch) :
          /\ ch[i].kind = "delta" =>
                /\ cut[i] = cut[i - 1] + Len(ch[i].body)
                /\ \A j \in 1 .. Len(ch[i].body) : ch[i].body[j] = h[cut[i - 1] + j]
          /\ ch[i].kind # "delta" => cut[i] = cut[i - 1]

\* The text of the reply, the pieces in the channel and those the task holds
\* back make up what was heard, until the reply ends or nobody reads it.
Whole(cut, t, ch, h) ==
    /\ (reader = "reading" /\ t.at \notin Finale) =>
          /\ cut[Len(ch)] + Len(t.pending) = Len(h)
          /\ \A j \in 1 .. Len(t.pending) : t.pending[j] = h[cut[Len(ch)] + j]
    /\ (reader = "reading" /\ Finishes(t, ch)) => late \/ cut[Len(ch)] = Len(h)

TextOK(t, ch, h) ==
    /\ \E cut \in [0 .. Len(ch) -> 0 .. Len(h)] : Cuts(cut, ch, h) /\ Whole(cut, t, ch, h)
    /\ reply.state = "finished" => late \/ Len(reply.text) = Len(h)

\* Only an attempt that heard nothing is repeated.
AttemptsOK(t, h) ==
    /\ \A i \in 1 .. Len(h) :
          /\ h[i].round <= t.round
          /\ (h[i].round = t.round /\ t.at \in Before) => t.started /\ h[i].attempt = t.retries
    /\ \A i, j \in 1 .. Len(h) : h[i].round = h[j].round => h[i].attempt = h[j].attempt

\* An image is only carried into a request that requires the permission.
ImageOK(t) ==
    t.image =>
        /\ t.capability
        /\ t.at \in Asking => \E i \in 1 .. Len(t.results) : t.calls[i] = "screen"
        /\ t.at \in Before => t.at # "start" /\ t.screen /\ t.round = 2

Asked(t, id) == t.at \in {"answer", "dropped"} /\ id = Len(t.results) + 1
Settled(t, id) ==
    (host.applying = id \/ host.answers[id] = "applied") =>
        id <= Len(t.results) /\ t.results[id] = "changed"

\* A request of an outfit is in one place: in the channel, with the window, being
\* applied, or answered.
PlacesOK(t, ch) ==
    /\ \A i \in 1 .. Len(ch) : ch[i].kind = "outfit" =>
          /\ host.answers[ch[i].body] = "none" /\ host.applying # ch[i].body
          /\ \A e \in 1 .. Len(effects) : effects[e] # ch[i].body
          /\ \A j \in 1 .. Len(ch) : (j # i /\ ch[j].kind = "outfit") => ch[j].body # ch[i].body
    /\ \A e \in 1 .. Len(effects) :
          /\ host.answers[effects[e]] = "none" /\ host.applying # effects[e]
          /\ \A f \in 1 .. Len(effects) : f # e => effects[f] # effects[e]
    /\ host.applying # 0 => host.answers[host.applying] = "none"
    /\ \A id \in 1 .. MaxCalls : (id > Len(t.results) /\ ~Asked(t, id)) =>
          /\ host.answers[id] = "none" /\ host.applying # id
          /\ \A e \in 1 .. Len(effects) : effects[e] # id
          /\ \A i \in 1 .. Len(ch) : ch[i].kind = "outfit" => ch[i].body # id

\* What was applied is reported, unless the deadline passed before the answer;
\* then the reply fails.
OutfitsOK(t, ch) ==
    /\ \A id \in 1 .. MaxCalls : id \in host.applied <=> host.answers[id] = "applied"
    /\ \A id \in 1 .. Len(t.results) : t.results[id] = "changed" => host.answers[id] = "applied"
    /\ \A id \in 1 .. MaxCalls :
          \/ Settled(t, id) \/ Asked(t, id)
          \/ late /\ t.at \in Asking \cup {"attempt"}
          \/ t.at \in Finale /\ ~Finishes(t, ch) /\ reply.state # "finished"

\* The trace goes before the end.
TraceOK(t, ch) ==
    /\ (reader = "reading" /\ \/ t.at = "ending" /\ t.last = LastFinished
                              \/ \E i \in 1 .. Len(ch) : ch[i].kind = "finished") =>
          reply.trace = t.results \/ \E i \in 1 .. Len(ch) : ch[i].kind = "trace"
    /\ reply.state = "finished" => reply.trace = t.results

Good(t, ch, h) ==
    /\ Typed(t, ch, h) /\ PhaseOK(t, ch) /\ TextOK(t, ch, h) /\ AttemptsOK(t, h) /\ ImageOK(t)
    /\ PlacesOK(t, ch) /\ OutfitsOK(t, ch) /\ TraceOK(t, ch)

IInv == Good(task, channel, heard)

-----------------------------------------------------------------------------
(* What a step of the task on a request keeps.                              *)

Keeps(t, u) ==
    /\ u.round = t.round /\ u.results = t.results /\ u.image = t.image
    /\ t.image => u.capability = t.capability /\ u.screen = t.screen

LEMMA LastDiffer ==
    ASSUME NEW t \in Tasks
    PROVE  /\ LastFailed # LastFinished /\ LastFailed # LastTraced(t) /\ LastFinished # LastTraced(t)
           /\ LastFailed \in Seq(Events) /\ LastFinished \in Seq(Events) /\ LastTraced(t) \in Seq(Events)
  <1>1. /\ Len(LastFailed) = 1 /\ Len(LastFinished) = 1 /\ Len(LastTraced(t)) = 2
        /\ LastFailed[1].kind = "failed" /\ LastFinished[1].kind = "finished"
    BY DEF LastFailed, LastFinished, LastTraced, Event
  <1>2. /\ Event("failed", <<>>) \in Events /\ Event("finished", <<>>) \in Events
        /\ Event("trace", t.results) \in Events
    BY DEF Event, Events, Tasks
  <1>3. QED
    BY <1>1, <1>2 DEF LastFailed, LastFinished, LastTraced

\* The task goes on with its request.
LEMMA StaysGood ==
    ASSUME NEW t, NEW ch, NEW h, Good(t, ch, h), NEW u \in Tasks, Keeps(t, u),
           t.at \in Before, u.at \in Before, u.at \notin {"start", "attempt", "connect"} \/ ~u.started,
           u.retries = t.retries, u.pending = t.pending, t.started => u.started,
           Len(u.calls) <= MaxCalls, t.at = "attempt" => ~late, u.at # "start"
    PROVE  Good(u, ch, h)
  <1>1. Typed(u, ch, h)
    BY DEF Good, Typed
  <1>2. PhaseOK(u, ch)
    BY DEF Good, PhaseOK, Keeps, Before, Asking, Finale
  <1>3. TextOK(u, ch, h)
    <2>1. t.at \notin Finale /\ u.at \notin Finale /\ u.at # "ending" /\ t.at # "ending"
      BY DEF Before, Finale
    <2>2. TextOK(t, ch, h)
      BY DEF Good
    <2>3. QED
      BY <2>1, <2>2 DEF TextOK, Whole, Finishes
  <1>4. AttemptsOK(u, h) /\ ImageOK(u)
    BY DEF Good, AttemptsOK, ImageOK, Keeps, Before, Asking
  <1>5. \A id : Asked(u, id) = FALSE /\ Asked(t, id) = FALSE
    BY DEF Asked, Before
  <1>6. PlacesOK(u, ch)
    BY <1>5 DEF Good, PlacesOK, Keeps
  <1>7. OutfitsOK(u, ch)
    BY <1>5 DEF Good, OutfitsOK, Settled, Keeps, Before, Asking, Finale
  <1>8. TraceOK(u, ch)
    BY DEF Good, TraceOK, Keeps, Before
  <1>9. QED
    BY <1>1, <1>2, <1>3, <1>4, <1>6, <1>7, <1>8 DEF Good

\* It makes the request again, of which nothing was heard.
LEMMA RetryGood ==
    ASSUME NEW t, NEW ch, NEW h, Good(t, ch, h), NEW u \in Tasks, Keeps(t, u),
           t.at \in Before, u.at = "attempt", ~t.started, ~u.started, u.pending = <<>>,
           Len(u.calls) <= MaxCalls, ~late
    PROVE  Good(u, ch, h)
  <1>1. Typed(u, ch, h)
    BY DEF Good, Typed
  <1>2. PhaseOK(u, ch)
    BY DEF Good, PhaseOK, Keeps, Before, Asking, Finale
  <1>3. TextOK(u, ch, h)
    <2>1. t.at \notin Finale /\ u.at \notin Finale /\ u.at # "ending" /\ t.at # "ending"
      BY DEF Before, Finale
    <2>2. TextOK(t, ch, h) /\ t.pending = <<>>
      BY DEF Good, PhaseOK
    <2>3. QED
      BY <2>1, <2>2 DEF TextOK, Whole, Finishes
  <1>4. AttemptsOK(u, h) /\ ImageOK(u)
    BY DEF Good, AttemptsOK, ImageOK, Keeps, Before, Asking
  <1>5. \A id : Asked(u, id) = FALSE /\ Asked(t, id) = FALSE
    BY DEF Asked, Before
  <1>6. PlacesOK(u, ch)
    BY <1>5 DEF Good, PlacesOK, Keeps
  <1>7. OutfitsOK(u, ch)
    BY <1>5 DEF Good, OutfitsOK, Settled, Keeps, Before, Asking, Finale
  <1>8. TraceOK(u, ch)
    BY DEF Good, TraceOK, Keeps, Before
  <1>9. QED
    BY <1>1, <1>2, <1>3, <1>4, <1>6, <1>7, <1>8 DEF Good

\* It runs the tools it was asked for.
LEMMA ToolsGood ==
    ASSUME NEW t, NEW ch, NEW h, Good(t, ch, h), NEW u \in Tasks, Keeps(t, u),
           t.at \in {"stream", "await", "flush"}, t.round = 1, t.pending = <<>>,
           u.at = "tools", ~u.started, u.pending = <<>>, Len(u.calls) <= MaxCalls
    PROVE  Good(u, ch, h)
  <1>1. Typed(u, ch, h)
    BY DEF Good, Typed
  <1>2. PhaseOK(u, ch) /\ t.results = <<>>
    BY DEF Good, PhaseOK, Keeps, Before, Asking, Finale, Typed
  <1>3. TextOK(u, ch, h)
    <2>1. t.at \notin Finale /\ u.at \notin Finale /\ u.at # "ending" /\ t.at # "ending"
      BY DEF Finale
    <2>2. TextOK(t, ch, h)
      BY DEF Good, PhaseOK
    <2>3. QED
      BY <2>1, <2>2 DEF TextOK, Whole, Finishes
  <1>4. AttemptsOK(u, h)
    BY DEF Good, AttemptsOK, Keeps, Before
  <1>10. ImageOK(u)
    BY DEF Good, ImageOK, Keeps, Before
  <1>5. \A id : Asked(u, id) = FALSE /\ Asked(t, id) = FALSE
    BY DEF Asked
  <1>6. PlacesOK(u, ch)
    BY <1>5 DEF Good, PlacesOK, Keeps
  <1>7. OutfitsOK(u, ch)
    BY <1>5 DEF Good, OutfitsOK, Settled, Keeps, Before, Asking, Finale
  <1>8. TraceOK(u, ch)
    BY DEF Good, TraceOK, Keeps
  <1>9. QED
    BY <1>1, <1>2, <1>3, <1>4, <1>6, <1>7, <1>8, <1>10 DEF Good

\* It ends the reply: with a failure, or as finished when all was sent, nobody
\* reads it any more, or it is late.
LEMMA EndGood ==
    ASSUME NEW t, NEW ch, NEW h, Good(t, ch, h), NEW u \in Tasks, Keeps(t, u),
           t.at \in Before, u.at = "ending", u.pending = <<>>, Len(u.calls) <= MaxCalls,
           \/ u.last = LastFailed
           \/ /\ t.at # "attempt"
              /\ u.last = IF t.results = <<>> THEN LastFinished ELSE LastTraced(t)
              /\ t.pending = <<>> \/ late \/ reader # "reading"
    PROVE  Good(u, ch, h)
  <1>1. Typed(u, ch, h)
    BY DEF Good, Typed
  <1>2. PhaseOK(u, ch)
    BY DEF Good, PhaseOK, Keeps, Before, Asking, Finale, LastTraced
  <1>3. TextOK(u, ch, h)
    <2>1. t.at \notin Finale /\ u.at \in Finale /\ t.at # "ending"
      BY DEF Before, Finale
    <2>2. TextOK(t, ch, h) /\ \A i \in 1 .. Len(ch) : ch[i].kind # "finished"
      BY DEF Good, PhaseOK, Before
    <2>3. ch \in Seq(Events) /\ h \in Seq(Pieces)
      BY DEF Good, Typed
    <2>4. PICK cut \in [0 .. Len(ch) -> 0 .. Len(h)] : Cuts(cut, ch, h) /\ Whole(cut, t, ch, h)
      BY <2>2 DEF TextOK
    <2>5. Whole(cut, u, ch, h)
      BY <2>1, <2>2, <2>3, <2>4 DEF Whole, Finishes
    <2>6. QED
      BY <2>2, <2>4, <2>5 DEF TextOK
  <1>4. AttemptsOK(u, h) /\ ImageOK(u)
    BY DEF Good, AttemptsOK, ImageOK, Keeps, Before, Asking
  <1>5. \A id : Asked(u, id) = FALSE /\ Asked(t, id) = FALSE
    BY DEF Asked, Before
  <1>6. PlacesOK(u, ch)
    BY <1>5 DEF Good, PlacesOK, Keeps
  <1>7. OutfitsOK(u, ch)
    <2>1. \A i \in 1 .. Len(ch) : ch[i].kind # "finished"
      BY DEF Good, PhaseOK, Before
    <2>2. Finishes(u, ch) => t.at # "attempt"
      BY <2>1 DEF Finishes
    <2>3. reply.state # "finished"
      BY DEF Good, PhaseOK, Before
    <2>4. t.at \notin Finale /\ t.at \notin Asking
      BY DEF Before, Finale, Asking
    <2>5. \A id \in 1 .. MaxCalls : Settled(t, id) \/ (late /\ t.at = "attempt")
      BY <1>5, <2>4 DEF Good, OutfitsOK
    <2>6. QED
      BY <2>2, <2>3, <2>5 DEF Good, OutfitsOK, Settled, Keeps, Finale
  <1>8. TraceOK(u, ch)
    <2>1. /\ reply.trace = <<>> /\ reply.state # "finished"
          /\ \A i \in 1 .. Len(ch) : ch[i].kind # "finished"
      BY DEF Good, PhaseOK, Before, Finale
    <2>2. u.last = LastFinished => u.results = <<>>
      <3>1. t \in Tasks
        BY DEF Good, Typed
      <3>2. QED
        BY <3>1, LastDiffer DEF Keeps
    <2>3. QED
      BY <2>1, <2>2 DEF TraceOK
  <1>9. QED
    BY <1>1, <1>2, <1>3, <1>4, <1>6, <1>7, <1>8 DEF Good

LEMMA FreshFields ==
    ASSUME NEW t \in Tasks
    PROVE  /\ Fresh(t) \in Tasks /\ Keeps(t, Fresh(t)) /\ Fresh(t).at = t.at
           /\ Fresh(t).pending = <<>> /\ ~Fresh(t).started
           /\ Fresh(t).calls = t.calls /\ Fresh(t).retries = t.retries
  <1>1. <<>> \in Seq(Pieces) /\ 0 \in Nat /\ "stream" \in Before
    BY DEF Before
  <1>2. Fresh(t) \in Tasks
    BY <1>1 DEF Fresh, Tasks
  <1>3. QED
    BY <1>2 DEF Fresh, Tasks, Keeps

LEMMA EndsFields ==
    ASSUME NEW t \in Tasks, NEW ending
    PROVE  /\ Ends(t, ending) \in Tasks /\ Keeps(t, Ends(t, ending)) /\ Ends(t, ending).at = "ending"
           /\ Ends(t, ending).pending = <<>> /\ Ends(t, ending).calls = <<>>
           /\ Ends(t, ending).last = IF ending = "failed" THEN LastFailed
                                     ELSE IF t.results = <<>> THEN LastFinished ELSE LastTraced(t)
  <1> DEFINE f == Fresh(t)
             l == IF ending = "failed" THEN <<Event("failed", <<>>)>>
                  ELSE IF t.results = <<>> THEN <<Event("finished", <<>>)>>
                  ELSE <<Event("trace", t.results), Event("finished", <<>>)>>
             u == [f EXCEPT !.at = "ending", !.retries = 0, !.calls = <<>>, !.last = l]
  <1>1. Ends(t, ending) = u
    BY DEF Ends
  <1>2. l = IF ending = "failed" THEN LastFailed
            ELSE IF t.results = <<>> THEN LastFinished ELSE LastTraced(t)
    BY DEF LastFailed, LastFinished, LastTraced
  <1>3. l \in Seq(Events)
    BY <1>2, LastDiffer
  <1>4. /\ f \in Tasks /\ Keeps(t, f) /\ f.pending = <<>>
    BY FreshFields
  <1> HIDE DEF f, l
  <1>5. /\ u \in Tasks /\ Keeps(t, u) /\ u.at = "ending" /\ u.pending = <<>> /\ u.calls = <<>>
        /\ u.last = l
    <2>1. u \in Tasks
      <3>1. "ending" \in Finale /\ 0 \in Nat /\ <<>> \in Seq(Tools)
        BY DEF Finale
      <3>2. QED
        BY <1>3, <1>4, <3>1 DEF Tasks
    <2>2. /\ u.at = "ending" /\ u.pending = <<>> /\ u.calls = <<>> /\ u.last = l
      BY <1>4 DEF Tasks
    <2>3. Keeps(t, u)
      BY <1>4 DEF Tasks, Keeps
    <2>4. QED
      BY <2>1, <2>2, <2>3
  <1>6. QED
    BY <1>1, <1>2, <1>5

LEMMA FailsGood ==
    ASSUME NEW t, NEW ch, NEW h, Good(t, ch, h), t.at \in Before,
           NEW retryable, NEW u \in Fails(t, retryable)
    PROVE  Good(u, ch, h)
  <1>1. t \in Tasks /\ Len(t.calls) <= MaxCalls /\ MaxCalls \in Nat
    BY ReplyAssumption DEF Good, Typed, PhaseOK
  <1>2. CASE u = Ends(t, "failed")
    BY <1>1, <1>2, EndsFields, EndGood
  <1>3. CASE u = [Fresh(t) EXCEPT !.at = "attempt", !.retries = @ + 1] /\ ~t.started /\ ~late
    <2> DEFINE f == Fresh(t)
    <2>1. /\ f \in Tasks /\ Keeps(t, f) /\ f.pending = <<>> /\ ~f.started /\ f.calls = t.calls
      BY <1>1, FreshFields
    <2>2. u = [f EXCEPT !.at = "attempt", !.retries = f.retries + 1]
      BY <1>3
    <2> HIDE DEF f
    <2>3. /\ u \in Tasks /\ u.at = "attempt" /\ u.pending = <<>> /\ ~u.started /\ u.calls = t.calls
      <3>1. f.retries + 1 \in Nat /\ "attempt" \in Before
        <4>1. f.retries \in Nat
          BY <2>1 DEF Tasks
        <4>2. QED
          BY <4>1 DEF Before
      <3>2. u \in Tasks
        BY <2>1, <2>2, <3>1 DEF Tasks
      <3>3. QED
        BY <2>1, <2>2, <3>2 DEF Tasks
    <2>4. Keeps(t, u)
      BY <2>1, <2>2 DEF Tasks, Keeps
    <2>5. QED
      BY <1>1, <1>3, <2>3, <2>4, RetryGood
  <1>4. QED
    BY <1>2, <1>3 DEF Fails

Receiving == {"stream", "await", "flush"}

LEMMA ConcludesGood ==
    ASSUME NEW t, NEW ch, NEW h, Good(t, ch, h), t.at \in Receiving, t.pending = <<>>,
           NEW u \in Concludes(t)
    PROVE  Good(u, ch, h)
  <1>1. t \in Tasks /\ Len(t.calls) <= MaxCalls /\ MaxCalls \in Nat
    BY ReplyAssumption DEF Good, Typed, PhaseOK
  <1>2. CASE u = [Fresh(t) EXCEPT !.at = "tools", !.retries = 0] /\ t.round = 1
    <2> DEFINE f == Fresh(t)
    <2>1. /\ f \in Tasks /\ Keeps(t, f) /\ f.pending = <<>> /\ ~f.started /\ f.calls = t.calls
      BY <1>1, FreshFields
    <2>2. u = [f EXCEPT !.at = "tools", !.retries = 0]
      BY <1>2
    <2> HIDE DEF f
    <2>3. /\ u \in Tasks /\ u.at = "tools" /\ u.pending = <<>> /\ ~u.started /\ u.calls = t.calls
      BY <2>1, <2>2 DEF Tasks, Asking
    <2>4. Keeps(t, u)
      BY <2>1, <2>2 DEF Tasks, Keeps
    <2>5. QED
      BY <1>1, <1>2, <2>3, <2>4, ToolsGood DEF Receiving
  <1>3. CASE u = Ends(t, "failed")
    BY <1>1, <1>3, EndsFields, EndGood DEF Receiving, Before
  <1>4. CASE u = Ends(t, "finished")
    BY <1>1, <1>4, EndsFields, EndGood DEF Receiving, Before
  <1>5. QED
    BY <1>2, <1>3, <1>4 DEF Concludes

\* The task only moves on.
LEMMA MovesGood ==
    ASSUME NEW t, NEW ch, NEW h, Good(t, ch, h), t.at \in Receiving,
           NEW u, \/ u = [t EXCEPT !.at = "stream"]
                  \/ u = [t EXCEPT !.at = "flush"]
                  \/ u = [t EXCEPT !.at = "await"]
                  \/ \E then \in {"stream", "end", "invalid", "error", "broken", "give up", "idle"} :
                        u = [t EXCEPT !.then = then]
    PROVE  Good(u, ch, h) /\ u.pending = t.pending
  <1>1. t \in Tasks /\ Len(t.calls) <= MaxCalls
    BY DEF Good, Typed, PhaseOK
  <1>2. u \in Tasks
    BY <1>1 DEF Tasks, Before
  <1>3. Keeps(t, u)
    BY <1>1 DEF Tasks, Keeps
  <1>4. /\ u.at \in Receiving /\ u.retries = t.retries /\ u.pending = t.pending
        /\ u.started = t.started /\ u.calls = t.calls
    BY <1>1 DEF Tasks, Receiving
  <1>5. QED
    BY <1>1, <1>2, <1>3, <1>4, StaysGood DEF Receiving, Before

LEMMA ResumesGood ==
    ASSUME NEW t, NEW ch, NEW h, Good(t, ch, h), t.at \in Receiving, t.pending = <<>>,
           NEW u \in Resumes(t)
    PROVE  Good(u, ch, h)
  <1>1. t.at \in Before
    BY DEF Receiving, Before
  <1>2. CASE u = [t EXCEPT !.at = "stream"]
    BY <1>2, MovesGood
  <1>3. CASE u \in Concludes(t)
    BY <1>3, ConcludesGood
  <1>4. CASE u \in Fails(t, TRUE) \/ u \in Fails(t, FALSE)
    BY <1>1, <1>4, FailsGood
  <1>5. QED
    BY <1>2, <1>3, <1>4 DEF Resumes

LEMMA AbandonsGood ==
    ASSUME NEW t, NEW ch, NEW h, Good(t, ch, h), t.at \in Receiving,
           late \/ reader # "reading", NEW u \in Abandons(t)
    PROVE  Good(u, ch, h)
  <1>1. t \in Tasks /\ MaxCalls \in Nat /\ t.at \in Before /\ t.at # "attempt"
    BY ReplyAssumption DEF Good, Typed, Receiving, Before
  <1>2. CASE u \in Fails(t, FALSE)
    BY <1>1, <1>2, FailsGood
  <1>3. CASE u = Ends(t, "finished")
    BY <1>1, <1>3, EndsFields, EndGood
  <1>4. QED
    BY <1>2, <1>3 DEF Abandons

LEMMA FlushingGood ==
    ASSUME NEW t, NEW ch, NEW h, Good(t, ch, h), t.at \in Receiving,
           NEW then \in {"stream", "end", "invalid", "error", "broken", "give up", "idle"},
           NEW u \in Flushing(t, then)
    PROVE  Good(u, ch, h)
  <1> DEFINE s == [t EXCEPT !.then = then]
  <1>1. Good(s, ch, h) /\ s.pending = t.pending
    BY MovesGood
  <1>2. s.at = t.at
    BY DEF Good, Typed, Tasks
  <1>3. (t.pending = <<>> /\ u \in Resumes(s)) \/ u = [s EXCEPT !.at = "flush"]
    BY DEF Flushing
  <1> HIDE DEF s
  <1>4. QED
    BY <1>1, <1>2, <1>3, ResumesGood, MovesGood

\* The pieces it holds back go into the channel.
LEMMA FlushedGood ==
    ASSUME NEW t, NEW ch, NEW h, Good(t, ch, h), t.at = "flush", reader = "reading"
    PROVE  Good([t EXCEPT !.pending = <<>>], Append(ch, Event("delta", t.pending)), h)
  <1> DEFINE u == [t EXCEPT !.pending = <<>>]
             e == Event("delta", t.pending)
             c == Append(ch, e)
  <1>1. t \in Tasks /\ ch \in Seq(Events) /\ h \in Seq(Pieces) /\ t.pending \in Seq(Pieces)
    BY DEF Good, Typed, Tasks
  <1>2. /\ u \in Tasks /\ Keeps(t, u) /\ u.at = "flush" /\ u.retries = t.retries
        /\ u.pending = <<>> /\ u.calls = t.calls /\ u.started = t.started
    <2>1. <<>> \in Seq(Pieces)
      OBVIOUS
    <2>2. u \in Tasks
      BY <1>1, <2>1 DEF Tasks
    <2>3. QED
      BY <1>1, <2>2 DEF Tasks, Keeps
  <1>3. e \in Events /\ e.kind = "delta" /\ e.body = t.pending
    BY <1>1 DEF Event, Events
  <1>4. /\ c \in Seq(Events) /\ Len(c) = Len(ch) + 1 /\ c[Len(ch) + 1] = e
        /\ \A i \in 1 .. Len(ch) : c[i] = ch[i]
        /\ Len(ch) \in Nat
    BY <1>1, <1>3
  <1> HIDE DEF u, e, c
  <1>5. \A i \in 1 .. Len(c) : c[i].kind = "delta" \/ (i \in 1 .. Len(ch) /\ c[i] = ch[i])
    BY <1>3, <1>4
  <1>6. \A i \in 1 .. Len(ch) : ch[i].kind \notin {"finished", "failed", "trace"}
    BY DEF Good, PhaseOK, Finale
  <1>7. \A i \in 1 .. Len(c) : c[i].kind \notin {"finished", "failed", "trace"}
    BY <1>5, <1>6
  <1>8. Typed(u, c, h)
    BY <1>2, <1>4 DEF Good, Typed
  <1>9. PhaseOK(u, c)
    <2>1. PhaseOK(t, ch)
      BY DEF Good
    <2>2. QED
      BY <1>2, <1>7, <2>1 DEF PhaseOK, Keeps, Before, Asking, Finale
  <1>10. TextOK(u, c, h)
    <2>1. PICK cut \in [0 .. Len(ch) -> 0 .. Len(h)] : Cuts(cut, ch, h) /\ Whole(cut, t, ch, h)
      BY DEF Good, TextOK
    <2>2. /\ cut[Len(ch)] + Len(t.pending) = Len(h)
          /\ \A j \in 1 .. Len(t.pending) : t.pending[j] = h[cut[Len(ch)] + j]
      BY <2>1 DEF Whole, Finale
    <2> DEFINE new == [i \in 0 .. Len(c) |-> IF i <= Len(ch) THEN cut[i] ELSE Len(h)]
    <2>3. Len(h) \in Nat /\ Len(t.pending) \in Nat
      BY <1>1
    <2>4. /\ new \in [0 .. Len(c) -> 0 .. Len(h)]
          /\ new[Len(ch) + 1] = Len(h)
          /\ \A i \in 0 .. Len(ch) : new[i] = cut[i]
      BY <1>4, <2>3
    <2> HIDE DEF new
    <2>5. Cuts(new, c, h)
      <3>1. new[0] = Len(reply.text) /\ \A j \in 1 .. Len(reply.text) : reply.text[j] = h[j]
        BY <1>4, <2>1, <2>4 DEF Cuts
      <3>2. ASSUME NEW i \in 1 .. Len(ch)
            PROVE  /\ c[i].kind = "delta" =>
                        /\ new[i] = new[i - 1] + Len(c[i].body)
                        /\ \A j \in 1 .. Len(c[i].body) : c[i].body[j] = h[new[i - 1] + j]
                   /\ c[i].kind # "delta" => new[i] = new[i - 1]
        <4>1. c[i] = ch[i] /\ new[i] = cut[i] /\ new[i - 1] = cut[i - 1]
          BY <1>4, <2>4
        <4>2. QED
          BY <2>1, <4>1 DEF Cuts
      <3>3. /\ c[Len(ch) + 1].kind = "delta" /\ c[Len(ch) + 1].body = t.pending
            /\ new[Len(ch) + 1] = new[Len(ch)] + Len(t.pending)
            /\ \A j \in 1 .. Len(t.pending) : t.pending[j] = h[new[Len(ch)] + j]
        BY <1>3, <1>4, <2>2, <2>4
      <3>4. \A i \in 1 .. Len(c) : i \in 1 .. Len(ch) \/ (i = Len(ch) + 1 /\ i - 1 = Len(ch))
        BY <1>4
      <3>5. QED
        BY <3>1, <3>2, <3>3, <3>4 DEF Cuts
    <2>6. Whole(new, u, c, h)
      BY <1>2, <1>4, <1>7, <2>3, <2>4 DEF Whole, Finishes
    <2>7. QED
      BY <2>4, <2>5, <2>6 DEF Good, TextOK
  <1>11. AttemptsOK(u, h) /\ ImageOK(u)
    BY <1>2 DEF Good, AttemptsOK, ImageOK, Keeps, Before, Asking
  <1>12. \A id : Asked(u, id) = FALSE /\ Asked(t, id) = FALSE
    BY <1>2 DEF Asked
  <1>13. PlacesOK(u, c)
    <2>1. PlacesOK(t, ch)
      BY DEF Good
    <2>2. u.results = t.results
      BY <1>2 DEF Keeps
    <2>3. \A i \in 1 .. Len(c) : c[i].kind = "outfit" => i \in 1 .. Len(ch) /\ c[i] = ch[i]
      BY <1>5
    <2>4. QED
      BY <1>12, <2>1, <2>2, <2>3 DEF PlacesOK
  <1>14. OutfitsOK(u, c)
    <2>1. ~Finishes(u, c) /\ ~Finishes(t, ch)
      BY <1>2, <1>6, <1>7 DEF Finishes
    <2>2. QED
      BY <1>2, <1>12, <2>1 DEF Good, OutfitsOK, Settled, Keeps, Before, Asking, Finale
  <1>15. TraceOK(u, c)
    BY <1>2, <1>7 DEF Good, TraceOK, Keeps
  <1>16. QED
    BY <1>8, <1>9, <1>10, <1>11, <1>13, <1>14, <1>15 DEF Good, u, e, c

\* The provider says another piece.
LEMMA HeardGood ==
    ASSUME NEW t, NEW ch, NEW h, Good(t, ch, h), t.at = "await",
           NEW piece \in Pieces, piece.round = t.round, piece.attempt = t.retries,
           NEW u \in Tasks, Keeps(t, u), u.at \in Receiving, u.started, u.retries = t.retries,
           u.pending = Append(t.pending, piece), u.calls = t.calls
    PROVE  Good(u, ch, Append(h, piece))
  <1> DEFINE g == Append(h, piece)
  <1>1. t \in Tasks /\ ch \in Seq(Events) /\ h \in Seq(Pieces) /\ t.pending \in Seq(Pieces)
    BY DEF Good, Typed, Tasks
  <1>2. /\ g \in Seq(Pieces) /\ Len(g) = Len(h) + 1 /\ g[Len(h) + 1] = piece
        /\ \A i \in 1 .. Len(h) : g[i] = h[i]
        /\ Len(h) \in Nat /\ Len(ch) \in Nat
    BY <1>1
  <1>3. /\ Len(u.pending) = Len(t.pending) + 1 /\ u.pending[Len(t.pending) + 1] = piece
        /\ \A i \in 1 .. Len(t.pending) : u.pending[i] = t.pending[i]
        /\ Len(t.pending) \in Nat
    BY <1>1
  <1> HIDE DEF g
  <1>4. \A i \in 1 .. Len(ch) : ch[i].kind \notin {"finished", "failed", "trace"}
    BY DEF Good, PhaseOK, Finale
  <1>5. reply.state # "finished"
    BY DEF Good, PhaseOK
  <1>6. Typed(u, ch, g)
    BY <1>2 DEF Good, Typed
  <1>7. PhaseOK(u, ch)
    BY DEF Good, PhaseOK, Keeps, Receiving, Before, Asking, Finale
  <1>8. TextOK(u, ch, g)
    <2>1. PICK cut \in [0 .. Len(ch) -> 0 .. Len(h)] : Cuts(cut, ch, h) /\ Whole(cut, t, ch, h)
      BY DEF Good, TextOK
    <2>2. cut \in [0 .. Len(ch) -> 0 .. Len(g)]
      BY <1>2
    <2>3. Cuts(cut, ch, g)
      <3>1. Len(reply.text) <= Len(h) /\ cut[0] = Len(reply.text)
        BY <1>2, <2>1 DEF Cuts
      <3>2. \A j \in 1 .. Len(reply.text) : reply.text[j] = g[j]
        <4>1. \A j \in 1 .. Len(reply.text) : j \in 1 .. Len(h)
          BY <1>2, <3>1
        <4>2. QED
          BY <1>2, <2>1, <4>1 DEF Cuts
      <3>3. ASSUME NEW i \in 1 .. Len(ch), ch[i].kind = "delta"
            PROVE  /\ cut[i] = cut[i - 1] + Len(ch[i].body)
                   /\ \A j \in 1 .. Len(ch[i].body) : ch[i].body[j] = g[cut[i - 1] + j]
        <4>1. /\ cut[i] = cut[i - 1] + Len(ch[i].body)
              /\ \A j \in 1 .. Len(ch[i].body) : ch[i].body[j] = h[cut[i - 1] + j]
          BY <2>1, <3>3 DEF Cuts
        <4>2. cut[i] \in 0 .. Len(h) /\ cut[i - 1] \in 0 .. Len(h)
          BY <1>2
        <4>3. Len(ch[i].body) \in Nat
          BY <1>1, <3>3 DEF Events
        <4>4. \A j \in 1 .. Len(ch[i].body) : cut[i - 1] + j \in 1 .. Len(h)
          BY <1>2, <4>1, <4>2, <4>3
        <4>5. QED
          BY <1>2, <4>1, <4>4
      <3>4. QED
        BY <2>1, <3>1, <3>2, <3>3 DEF Cuts
    <2>4. Whole(cut, u, ch, g)
      <3>1. ~Finishes(u, ch)
        BY <1>4 DEF Finishes, Receiving
      <3>2. ASSUME reader = "reading"
            PROVE  /\ cut[Len(ch)] + Len(u.pending) = Len(g)
                   /\ \A j \in 1 .. Len(u.pending) : u.pending[j] = g[cut[Len(ch)] + j]
        <4>1. /\ cut[Len(ch)] + Len(t.pending) = Len(h)
              /\ \A j \in 1 .. Len(t.pending) : t.pending[j] = h[cut[Len(ch)] + j]
          BY <2>1, <3>2 DEF Whole, Finale
        <4>2. cut[Len(ch)] \in 0 .. Len(h)
          <5>1. Len(ch) \in 0 .. Len(ch)
            BY <1>2
          <5>2. QED
            BY <5>1
        <4>3. \A j \in 1 .. Len(t.pending) :
                 u.pending[j] = t.pending[j] /\ g[cut[Len(ch)] + j] = h[cut[Len(ch)] + j]
          BY <1>2, <1>3, <4>1, <4>2
        <4>4. u.pending[Len(t.pending) + 1] = g[cut[Len(ch)] + (Len(t.pending) + 1)]
          BY <1>2, <1>3, <4>1, <4>2
        <4>5. \A j \in 1 .. Len(u.pending) : j \in 1 .. Len(t.pending) \/ j = Len(t.pending) + 1
          BY <1>3
        <4>6. cut[Len(ch)] + Len(u.pending) = Len(g)
          BY <1>2, <1>3, <4>1, <4>2
        <4>7. QED
          BY <4>1, <4>3, <4>4, <4>5, <4>6
      <3>3. QED
        BY <3>1, <3>2 DEF Whole
    <2>5. QED
      BY <1>5, <2>2, <2>3, <2>4 DEF TextOK
  <1>9. AttemptsOK(u, g)
    <2>1. \A i \in 1 .. Len(h) : /\ h[i].round <= t.round
                                 /\ h[i].round = t.round => h[i].attempt = t.retries
      BY DEF Good, AttemptsOK, Before
    <2>2. \A i, j \in 1 .. Len(h) : h[i].round = h[j].round => h[i].attempt = h[j].attempt
      BY DEF Good, AttemptsOK
    <2>3. \A i \in 1 .. Len(g) : g[i] = piece \/ (i \in 1 .. Len(h) /\ g[i] = h[i])
      BY <1>2
    <2>4. u.round = t.round /\ t.round \in {1, 2}
      BY <1>1 DEF Keeps, Tasks
    <2>5. QED
      BY <2>1, <2>2, <2>3, <2>4 DEF AttemptsOK
  <1>10. ImageOK(u)
    BY DEF Good, ImageOK, Keeps, Receiving, Before, Asking
  <1>11. \A id : Asked(u, id) = FALSE /\ Asked(t, id) = FALSE
    BY DEF Asked, Receiving
  <1>12. PlacesOK(u, ch)
    BY <1>11 DEF Good, PlacesOK, Keeps
  <1>13. OutfitsOK(u, ch)
    BY <1>5, <1>11 DEF Good, OutfitsOK, Settled, Keeps, Receiving, Asking, Finale
  <1>14. TraceOK(u, ch)
    BY <1>4 DEF Good, TraceOK, Keeps, Receiving
  <1>15. QED
    BY <1>6, <1>7, <1>8, <1>9, <1>10, <1>12, <1>13, <1>14 DEF Good, g

-----------------------------------------------------------------------------
(* The steps of the task.                                                   *)

LEMMA BeginStep ==
    ASSUME IInv, Begin
    PROVE  Good(task', channel', heard')
  <1>1. /\ Good(task, channel, heard) /\ task \in Tasks /\ task.at = "start" /\ task.at \in Before
        /\ Len(task.calls) <= MaxCalls /\ MaxCalls \in Nat /\ ~task.started
        /\ channel' = channel /\ heard' = heard
    BY ReplyAssumption DEF IInv, Good, Typed, PhaseOK, Begin, Before
  <1>2. ~task.image
    BY <1>1 DEF Good, ImageOK
  <1>3. ASSUME NEW capability \in BOOLEAN, NEW registered \in BOOLEAN, NEW tools \in BOOLEAN,
               task' = [task EXCEPT !.at = "attempt", !.capability = capability,
                           !.registered = registered, !.tools = tools]
        PROVE  Good(task', channel', heard')
    <2>1. task' \in Tasks
      BY <1>1, <1>3 DEF Tasks, Before
    <2>2. /\ Keeps(task, task') /\ task'.at = "attempt" /\ task'.retries = task.retries
          /\ task'.pending = task.pending /\ task'.started = task.started
          /\ task'.calls = task.calls
      BY <1>1, <1>2, <1>3 DEF Tasks, Keeps
    <2>3. QED
      BY <1>1, <2>1, <2>2, StaysGood DEF Before
  <1>4. CASE task' = Ends(task, "failed")
    BY <1>1, <1>4, EndsFields, EndGood
  <1>5. ASSUME NEW tools \in BOOLEAN, NEW registers \in BOOLEAN,
               task' = [task EXCEPT !.at = "attempt", !.capability = permission = "granted",
                           !.registered = registers /\ permission = "granted",
                           !.tools = tools \/ (registers /\ permission = "granted")]
        PROVE  Good(task', channel', heard')
    <2> DEFINE c == permission = "granted"
               r == registers /\ permission = "granted"
               l == tools \/ (registers /\ permission = "granted")
    <2>1. c \in BOOLEAN /\ r \in BOOLEAN /\ l \in BOOLEAN
      OBVIOUS
    <2>2. task' = [task EXCEPT !.at = "attempt", !.capability = c, !.registered = r, !.tools = l]
      BY <1>5
    <2> HIDE DEF c, r, l
    <2>3. QED
      BY <1>3, <2>1, <2>2
  <1>6. QED
    BY <1>4, <1>5 DEF Begin

LEMMA AttemptStep ==
    ASSUME IInv, Attempt
    PROVE  Good(task', channel', heard')
  <1>1. /\ Good(task, channel, heard) /\ task \in Tasks /\ task.at = "attempt"
        /\ task.at \in Before /\ Len(task.calls) <= MaxCalls /\ ~task.started
        /\ channel' = channel /\ heard' = heard
    BY DEF IInv, Good, Typed, PhaseOK, Attempt, Before
  <1>2. CASE task' \in Fails(task, FALSE) \/ task' \in Fails(task, TRUE)
    BY <1>1, <1>2, FailsGood
  <1>3. CASE task' = [task EXCEPT !.at = "connect"] /\ ~late
    <2>1. task' \in Tasks
      BY <1>1, <1>3 DEF Tasks, Before
    <2>2. /\ Keeps(task, task') /\ task'.at = "connect" /\ task'.retries = task.retries
          /\ task'.pending = task.pending /\ task'.started = task.started
          /\ task'.calls = task.calls
      BY <1>1, <1>3 DEF Tasks, Keeps
    <2>3. QED
      BY <1>1, <1>3, <2>1, <2>2, StaysGood DEF Before
  <1>4. QED
    BY <1>2, <1>3 DEF Attempt

LEMMA ConnectStep ==
    ASSUME IInv, Connect
    PROVE  Good(task', channel', heard')
  <1>1. /\ Good(task, channel, heard) /\ task \in Tasks /\ task.at = "connect"
        /\ task.at \in Before /\ Len(task.calls) <= MaxCalls
        /\ channel' = channel /\ heard' = heard
    BY DEF IInv, Good, Typed, PhaseOK, Connect, Before
  <1>2. CASE task' \in Fails(task, FALSE) \/ task' \in Fails(task, TRUE)
    BY <1>1, <1>2, FailsGood
  <1>3. CASE task' = [task EXCEPT !.at = "stream"]
    <2>1. task' \in Tasks
      BY <1>1, <1>3 DEF Tasks, Before
    <2>2. /\ Keeps(task, task') /\ task'.at = "stream" /\ task'.retries = task.retries
          /\ task'.pending = task.pending /\ task'.started = task.started
          /\ task'.calls = task.calls
      BY <1>1, <1>3 DEF Tasks, Keeps
    <2>3. QED
      BY <1>1, <2>1, <2>2, StaysGood DEF Before
  <1>4. QED
    BY <1>2, <1>3 DEF Connect

LEMMA DeadlinesStep ==
    ASSUME IInv, Deadlines
    PROVE  Good(task', channel', heard')
  <1>1. /\ Good(task, channel, heard) /\ task.at \in Before /\ task.at \in Receiving
        /\ channel' = channel /\ heard' = heard
    BY DEF IInv, Deadlines, Before, Receiving
  <1>2. \/ task' \in Fails(task, FALSE) \/ task' \in Fails(task, TRUE)
        \/ task' \in Flushing(task, "give up") \/ task' \in Flushing(task, "idle")
        \/ task' = [task EXCEPT !.at = "await"]
    BY DEF Deadlines
  <1>3. QED
    BY <1>1, <1>2, FailsGood, FlushingGood, MovesGood

LEMMA ChunkStep ==
    ASSUME IInv, Chunk
    PROVE  Good(task', channel', heard')
  <1> DEFINE piece == [round |-> task.round, attempt |-> task.retries, n |-> task.chunks]
             t == [task EXCEPT !.started = TRUE, !.content = TRUE, !.chunks = task.chunks + 1]
             u == [t EXCEPT !.at = "stream", !.pending = Append(t.pending, piece)]
  <1>1. /\ Good(task, channel, heard) /\ task \in Tasks /\ task.at = "await"
        /\ Len(task.calls) <= MaxCalls /\ channel' = channel
    BY DEF IInv, Good, Typed, PhaseOK, Chunk
  <1>2. \/ task' \in {u} \cup Flushing(u, "stream") /\ heard' = Append(heard, piece)
        \/ task' \in Flushing(t, "give up") /\ heard' = heard
    BY DEF Chunk
  <1>3. task.chunks + 1 \in Nat /\ task.pending \in Seq(Pieces) /\ task.at \in Receiving
    <2>1. task.chunks \in Nat /\ task.pending \in Seq(Pieces)
      BY <1>1 DEF Tasks
    <2>2. QED
      BY <1>1, <2>1 DEF Receiving
  <1>4. piece \in Pieces /\ piece.round = task.round /\ piece.attempt = task.retries
    BY <1>1 DEF Tasks, Pieces
  <1>5. /\ t \in Tasks /\ t.at = "await" /\ t.started /\ Keeps(task, t)
        /\ t.retries = task.retries /\ t.pending = task.pending /\ t.calls = task.calls
    <2>1. t \in Tasks
      BY <1>1, <1>3 DEF Tasks
    <2>2. QED
      BY <1>1, <2>1 DEF Tasks, Keeps
  <1>6. Good(t, channel, heard) /\ t.at \in Receiving
    BY <1>1, <1>5, StaysGood DEF Before, Receiving
  <1> HIDE DEF t, piece
  <1>7. /\ u \in Tasks /\ u.at = "stream" /\ u.started /\ Keeps(task, u)
        /\ u.retries = task.retries /\ u.pending = Append(task.pending, piece)
        /\ u.calls = task.calls
    <2>1. Append(t.pending, piece) \in Seq(Pieces) /\ "stream" \in Before
      BY <1>3, <1>4, <1>5 DEF Before
    <2>2. u \in Tasks
      BY <1>5, <2>1 DEF Tasks
    <2>3. QED
      BY <1>5, <2>2 DEF Tasks, Keeps
  <1> HIDE DEF u
  <1>8. Good(u, channel, Append(heard, piece)) /\ u.at \in Receiving
    BY <1>1, <1>4, <1>7, HeardGood DEF Receiving
  <1>9. QED
    BY <1>1, <1>2, <1>6, <1>8, FlushingGood

LEMMA ToolChunkStep ==
    ASSUME IInv, ToolChunk
    PROVE  Good(task', channel', heard')
  <1>1. /\ Good(task, channel, heard) /\ task \in Tasks /\ task.at = "await"
        /\ task.at \in Before /\ Len(task.calls) <= MaxCalls
        /\ channel' = channel /\ heard' = heard
    BY DEF IInv, Good, Typed, PhaseOK, ToolChunk, Before
  <1>2. CASE task' \in Fails(task, FALSE)
    BY <1>1, <1>2, FailsGood
  <1>3. CASE task' = [task EXCEPT !.started = TRUE, !.at = "stream"]
    <2>1. task' \in Tasks
      BY <1>1, <1>3 DEF Tasks, Before
    <2>2. /\ Keeps(task, task') /\ task'.at = "stream" /\ task'.retries = task.retries
          /\ task'.pending = task.pending /\ task'.started
          /\ task'.calls = task.calls
      BY <1>1, <1>3 DEF Tasks, Keeps
    <2>3. QED
      BY <1>1, <2>1, <2>2, StaysGood DEF Before
  <1>4. QED
    BY <1>2, <1>3 DEF ToolChunk

\* What a model can ask for.
LEMMA CallListsType == \A calls \in CallLists : calls \in Seq(Tools) /\ Len(calls) <= MaxCalls
  <1>1. ASSUME NEW n \in 0 .. MaxCalls, NEW calls \in [1 .. n -> Tools]
        PROVE  calls \in Seq(Tools) /\ Len(calls) <= MaxCalls
    <2>1. n \in Nat /\ n <= MaxCalls
      BY ReplyAssumption
    <2>2. calls \in Seq(Tools) /\ DOMAIN calls = 1 .. n
      BY <2>1, SeqDef
    <2>3. Len(calls) = n
      BY <2>1, <2>2, LenProperties
    <2>4. QED
      BY <2>1, <2>2, <2>3
  <1>2. QED
    BY <1>1 DEF CallLists

LEMMA EndStep ==
    ASSUME IInv, End
    PROVE  Good(task', channel', heard')
  <1>1. /\ Good(task, channel, heard) /\ task \in Tasks /\ task.at = "await"
        /\ task.at \in Receiving /\ channel' = channel /\ heard' = heard
    BY DEF IInv, Good, Typed, End, Receiving
  <1>2. ASSUME NEW calls \in CallLists, task' \in Flushing([task EXCEPT !.calls = calls], "end")
        PROVE  Good(task', channel', heard')
    <2> DEFINE t == [task EXCEPT !.calls = calls]
    <2>1. calls \in Seq(Tools) /\ Len(calls) <= MaxCalls
      BY CallListsType
    <2>2. t \in Tasks
      BY <1>1, <2>1 DEF Tasks
    <2>3. /\ Keeps(task, t) /\ t.at = "await" /\ t.retries = task.retries
          /\ t.pending = task.pending /\ t.started = task.started /\ t.calls = calls
      BY <1>1 DEF Tasks, Keeps
    <2>4. task' \in Flushing(t, "end")
      BY <1>2
    <2> HIDE DEF t
    <2>5. Good(t, channel, heard) /\ t.at \in Receiving
      BY <1>1, <2>1, <2>2, <2>3, StaysGood DEF Before, Receiving
    <2>6. QED
      BY <1>1, <2>4, <2>5, FlushingGood
  <1>3. ASSUME NEW then \in {"invalid", "error", "broken"}, task' \in Flushing(task, then)
        PROVE  Good(task', channel', heard')
    BY <1>1, <1>3, FlushingGood
  <1>4. QED
    BY <1>2, <1>3 DEF End

LEMMA WakeStep ==
    ASSUME IInv, Wake
    PROVE  Good(task', channel', heard')
  <1>1. /\ Good(task, channel, heard) /\ task.at \in Before /\ task.at \in Receiving
        /\ channel' = channel /\ heard' = heard
    BY DEF IInv, Wake, Before, Receiving
  <1>2. task' \in Fails(task, FALSE) \/ task' \in Flushing(task, "stream")
    BY DEF Wake
  <1>3. QED
    BY <1>1, <1>2, FailsGood, FlushingGood

LEMMA FlushStep ==
    ASSUME IInv, Flush
    PROVE  Good(task', channel', heard')
  <1>1. /\ Good(task, channel, heard) /\ task \in Tasks /\ task.at = "flush"
        /\ task.at \in Before /\ task.at \in Receiving /\ heard' = heard
    BY DEF IInv, Good, Typed, Flush, Before, Receiving
  <1>2. CASE task' \in Fails(task, FALSE) /\ channel' = channel
    BY <1>1, <1>2, FailsGood
  <1>3. CASE /\ reader = "reading" /\ channel' = Append(channel, Event("delta", task.pending))
             /\ task' \in Resumes([task EXCEPT !.pending = <<>>])
    <2> DEFINE t == [task EXCEPT !.pending = <<>>]
    <2>1. t.at = "flush" /\ t.pending = <<>>
      BY <1>1 DEF Tasks
    <2>2. Good(t, channel', heard)
      BY <1>1, <1>3, FlushedGood
    <2>3. task' \in Resumes(t)
      BY <1>3
    <2> HIDE DEF t
    <2>4. QED
      BY <1>1, <2>1, <2>2, <2>3, ResumesGood DEF Receiving
  <1>4. CASE Refused /\ task' \in Abandons(task) /\ channel' = channel
    BY <1>1, <1>4, AbandonsGood DEF Refused
  <1>5. QED
    BY <1>2, <1>3, <1>4 DEF Flush, HasRoom

\* An event that is no text leaves the text where it is.
LEMMA OtherCut ==
    ASSUME NEW ch \in Seq(Events), NEW h \in Seq(Pieces), NEW e \in Events, e.kind # "delta",
           NEW cut \in [0 .. Len(ch) -> 0 .. Len(h)], Cuts(cut, ch, h)
    PROVE  \E new \in [0 .. Len(Append(ch, e)) -> 0 .. Len(h)] :
              Cuts(new, Append(ch, e), h) /\ new[Len(Append(ch, e))] = cut[Len(ch)]
  <1> DEFINE c == Append(ch, e)
             new == [i \in 0 .. Len(c) |-> IF i <= Len(ch) THEN cut[i] ELSE cut[Len(ch)]]
  <1>1. /\ c \in Seq(Events) /\ Len(c) = Len(ch) + 1 /\ c[Len(ch) + 1] = e
        /\ \A i \in 1 .. Len(ch) : c[i] = ch[i]
        /\ Len(ch) \in Nat /\ Len(ch) \in 0 .. Len(ch)
    OBVIOUS
  <1> HIDE DEF c
  <1>2. /\ new \in [0 .. Len(c) -> 0 .. Len(h)]
        /\ new[Len(ch) + 1] = cut[Len(ch)] /\ new[Len(c)] = cut[Len(ch)]
        /\ \A i \in 0 .. Len(ch) : new[i] = cut[i]
    BY <1>1
  <1> HIDE DEF new
  <1>3. Cuts(new, c, h)
    <2>1. new[0] = Len(reply.text) /\ \A j \in 1 .. Len(reply.text) : reply.text[j] = h[j]
      BY <1>1, <1>2 DEF Cuts
    <2>2. ASSUME NEW i \in 1 .. Len(ch)
          PROVE  /\ c[i].kind = "delta" =>
                      /\ new[i] = new[i - 1] + Len(c[i].body)
                      /\ \A j \in 1 .. Len(c[i].body) : c[i].body[j] = h[new[i - 1] + j]
                 /\ c[i].kind # "delta" => new[i] = new[i - 1]
      <3>1. c[i] = ch[i] /\ new[i] = cut[i] /\ new[i - 1] = cut[i - 1]
        BY <1>1, <1>2
      <3>2. QED
        BY <3>1 DEF Cuts
    <2>3. c[Len(ch) + 1].kind # "delta" /\ new[Len(ch) + 1] = new[Len(ch)]
      BY <1>1, <1>2
    <2>4. \A i \in 1 .. Len(c) : i \in 1 .. Len(ch) \/ (i = Len(ch) + 1 /\ i - 1 = Len(ch))
      BY <1>1
    <2>5. QED
      BY <2>1, <2>2, <2>3, <2>4 DEF Cuts
  <1>4. QED
    BY <1>2, <1>3 DEF c

\* One of the events that end the reply is sent.
LEMMA SentGood ==
    ASSUME NEW t, NEW ch, NEW h, Good(t, ch, h), t.at = "ending", reader = "reading"
    PROVE  Good([t EXCEPT !.last = Tail(t.last), !.at = IF Len(t.last) = 1 THEN "done" ELSE t.at],
                Append(ch, Head(t.last)), h)
  <1> DEFINE e == Head(t.last)
             l == Tail(t.last)
             a == IF Len(t.last) = 1 THEN "done" ELSE t.at
             u == [t EXCEPT !.last = l, !.at = a]
             c == Append(ch, e)
  <1>1. /\ t \in Tasks /\ ch \in Seq(Events) /\ h \in Seq(Pieces)
        /\ t.last \in {LastFailed, LastFinished, LastTraced(t)}
    BY DEF Good, Typed, PhaseOK
  <1>2. /\ e \in {Event("failed", <<>>), Event("finished", <<>>), Event("trace", t.results)}
        /\ e.kind = "failed" => t.last = LastFailed /\ a = "done"
        /\ e.kind = "finished" => t.last = LastFinished /\ a = "done"
        /\ e.kind = "trace" => e.body = t.results /\ a = "ending" /\ l = LastFinished
                               /\ t.last = LastTraced(t)
        /\ l = <<>> \/ l = LastFinished
    <2>1. CASE t.last = LastFailed
      <3>1. e = Event("failed", <<>>) /\ l = <<>> /\ a = "done"
        BY <2>1 DEF LastFailed
      <3>2. QED
        BY <2>1, <3>1 DEF Event
    <2>2. CASE t.last = LastFinished
      <3>1. e = Event("finished", <<>>) /\ l = <<>> /\ a = "done"
        BY <2>2 DEF LastFinished
      <3>2. QED
        BY <2>2, <3>1 DEF Event
    <2>3. CASE t.last = LastTraced(t)
      <3>1. e = Event("trace", t.results) /\ l = LastFinished /\ a = "ending"
        BY <2>3 DEF LastFinished, LastTraced
      <3>2. QED
        BY <2>3, <3>1 DEF Event
    <2>4. QED
      BY <1>1, <2>1, <2>2, <2>3
  <1>3. e \in Events /\ e.kind \in {"failed", "finished", "trace"} /\ l \in Seq(Events)
    <2>1. t.results \in Seq(Outcomes) /\ LastFinished \in Seq(Events)
      BY <1>1, LastDiffer DEF Tasks
    <2>2. /\ Event("failed", <<>>) \in Events /\ Event("finished", <<>>) \in Events
          /\ Event("trace", t.results) \in Events
      BY <2>1 DEF Event, Events
    <2>3. /\ Event("failed", <<>>).kind = "failed" /\ Event("finished", <<>>).kind = "finished"
          /\ Event("trace", t.results).kind = "trace"
      BY DEF Event
    <2>4. l = <<>> \/ l = LastFinished
      BY <1>2
    <2>5. \/ e = Event("failed", <<>>) \/ e = Event("finished", <<>>)
          \/ e = Event("trace", t.results)
      BY <1>2
    <2> HIDE DEF e, l
    <2>6. e \in Events
      BY <2>2, <2>5
    <2>7. e.kind \in {"failed", "finished", "trace"}
      BY <2>3, <2>5
    <2>8. l \in Seq(Events)
      <3>1. <<>> \in Seq(Events)
        BY EmptySeq
      <3>2. QED
        BY <2>1, <2>4, <3>1
    <2>9. QED
      BY <2>6, <2>7, <2>8
  <1>4. /\ c \in Seq(Events) /\ Len(c) = Len(ch) + 1 /\ c[Len(ch) + 1] = e
        /\ \A i \in 1 .. Len(ch) : c[i] = ch[i]
        /\ Len(ch) \in Nat
    BY <1>1, <1>3
  <1> HIDE DEF e, l, a, c
  <1>5. /\ u \in Tasks /\ Keeps(t, u) /\ u.at = a /\ u.last = l /\ a \in {"ending", "done"}
        /\ u.pending = t.pending /\ u.calls = t.calls /\ u.started = t.started
        /\ u.retries = t.retries
    <2>1. a \in {"ending", "done"} /\ a \in Finale
      BY <1>2, <1>3 DEF Finale
    <2>2. u \in Tasks
      BY <1>1, <1>3, <2>1 DEF Tasks
    <2>3. QED
      BY <1>1, <2>1, <2>2 DEF Tasks, Keeps
  <1> HIDE DEF u
  <1>6. \A i \in 1 .. Len(c) : (i = Len(ch) + 1 /\ c[i] = e)
                               \/ (i \in 1 .. Len(ch) /\ c[i] = ch[i])
    BY <1>4
  <1>7. /\ \A i \in 1 .. Len(ch) : ch[i].kind \notin {"finished", "failed"}
        /\ reply.state # "finished"
    BY DEF Good, PhaseOK
  <1>8. Finishes(u, c) => Finishes(t, ch)
    <2>1. LastFailed # LastFinished /\ LastFailed # LastTraced(t)
      BY <1>1, LastDiffer
    <2>2. CASE u.at = "ending"
      BY <1>2, <1>3, <1>5, <2>1, <2>2 DEF Finishes
    <2>3. CASE \E i \in 1 .. Len(c) : c[i].kind = "finished"
      BY <1>2, <1>6, <1>7, <2>1, <2>3 DEF Finishes
    <2>4. QED
      BY <2>2, <2>3 DEF Finishes
  <1>9. Typed(u, c, h)
    BY <1>4, <1>5 DEF Good, Typed
  <1>10. PhaseOK(u, c)
    <2>1. PhaseOK(t, ch)
      BY DEF Good
    <2>2. \A i \in 1 .. Len(c) :
             /\ c[i].kind \in {"finished", "failed"} => i = Len(c) /\ u.at = "done"
             /\ c[i].kind = "trace" => u.at \in Finale /\ c[i].body = u.results
      <3>1. ASSUME NEW i \in 1 .. Len(ch)
            PROVE  /\ c[i].kind \notin {"finished", "failed"}
                   /\ c[i].kind = "trace" => c[i].body = u.results
        BY <1>4, <1>5, <1>7, <2>1 DEF PhaseOK, Keeps
      <3>2. /\ e.kind \in {"finished", "failed"} => u.at = "done"
            /\ e.kind = "trace" => e.body = u.results
        BY <1>2, <1>5 DEF Keeps
      <3>3. u.at \in Finale
        BY <1>5 DEF Finale
      <3>4. QED
        BY <1>4, <1>6, <3>1, <3>2, <3>3
    <2>3. u.at = "ending" => u.last = LastFinished
      BY <1>2, <1>3, <1>5
    <2>4. QED
      BY <1>5, <1>7, <2>1, <2>2, <2>3 DEF PhaseOK, Keeps, Before, Asking, Finale
  <1>11. TextOK(u, c, h)
    <2>1. PICK cut \in [0 .. Len(ch) -> 0 .. Len(h)] : Cuts(cut, ch, h) /\ Whole(cut, t, ch, h)
      BY DEF Good, TextOK
    <2>2. PICK new \in [0 .. Len(c) -> 0 .. Len(h)] :
             Cuts(new, c, h) /\ new[Len(c)] = cut[Len(ch)]
      <3>1. c = Append(ch, e)
        BY DEF c
      <3>2. QED
        BY <1>1, <1>3, <2>1, <3>1, OtherCut
    <2>3. Whole(new, u, c, h)
      <3>1. u.at \in Finale
        BY <1>5 DEF Finale
      <3>2. QED
        BY <1>8, <2>1, <2>2, <3>1 DEF Whole
    <2>4. QED
      BY <1>7, <2>2, <2>3 DEF TextOK
  <1>12. AttemptsOK(u, h) /\ ImageOK(u)
    BY <1>5 DEF Good, AttemptsOK, ImageOK, Keeps, Before, Asking
  <1>13. \A id : Asked(u, id) = FALSE /\ Asked(t, id) = FALSE
    BY <1>5 DEF Asked
  <1>14. PlacesOK(u, c)
    <2>1. PlacesOK(t, ch) /\ u.results = t.results
      BY <1>5 DEF Good, Keeps
    <2>2. \A i \in 1 .. Len(c) : c[i].kind = "outfit" => i \in 1 .. Len(ch) /\ c[i] = ch[i]
      BY <1>3, <1>6
    <2>3. QED
      BY <1>13, <2>1, <2>2 DEF PlacesOK
  <1>15. OutfitsOK(u, c)
    BY <1>5, <1>7, <1>8, <1>13 DEF Good, OutfitsOK, Settled, Keeps, Asking, Finale
  <1>16. TraceOK(u, c)
    <2>1. CASE u.at = "ending"
      <3>1. c[Len(ch) + 1].kind = "trace" /\ Len(ch) + 1 \in 1 .. Len(c)
        BY <1>2, <1>3, <1>4, <1>5, <2>1
      <3>2. QED
        BY <1>7, <3>1 DEF TraceOK
    <2>2. ASSUME u.at # "ending", NEW i \in 1 .. Len(c), c[i].kind = "finished"
          PROVE  reply.trace = u.results \/ \E j \in 1 .. Len(c) : c[j].kind = "trace"
      <3>1. t.last = LastFinished
        BY <1>2, <1>6, <1>7, <2>2
      <3>2. reply.trace = t.results \/ \E j \in 1 .. Len(ch) : ch[j].kind = "trace"
        BY <3>1 DEF Good, TraceOK
      <3>3. \A j \in 1 .. Len(ch) : j \in 1 .. Len(c) /\ c[j] = ch[j]
        BY <1>4
      <3>4. QED
        BY <1>5, <3>2, <3>3 DEF Keeps
    <2>3. QED
      BY <1>7, <2>1, <2>2 DEF TraceOK
  <1>17. QED
    BY <1>9, <1>10, <1>11, <1>12, <1>14, <1>15, <1>16 DEF Good, u, c, e, l, a

\* Or it gives up sending them.
LEMMA RefusedGood ==
    ASSUME NEW t, NEW ch, NEW h, Good(t, ch, h), t.at = "ending", reader # "reading" \/ late
    PROVE  Good([t EXCEPT !.at = "done"], ch, h)
  <1> DEFINE u == [t EXCEPT !.at = "done"]
  <1>1. t \in Tasks
    BY DEF Good, Typed
  <1>2. /\ u \in Tasks /\ Keeps(t, u) /\ u.at = "done"
        /\ u.pending = t.pending /\ u.calls = t.calls /\ u.started = t.started
        /\ u.retries = t.retries
    <2>1. u \in Tasks
      BY <1>1 DEF Tasks, Finale
    <2>2. QED
      BY <1>1, <2>1 DEF Tasks, Keeps
  <1> HIDE DEF u
  <1>3. /\ \A i \in 1 .. Len(ch) : ch[i].kind \notin {"finished", "failed"}
        /\ reply.state # "finished"
    BY DEF Good, PhaseOK
  <1>4. ~Finishes(u, ch)
    BY <1>2, <1>3 DEF Finishes
  <1>5. Typed(u, ch, h)
    BY <1>2 DEF Good, Typed
  <1>6. PhaseOK(u, ch)
    BY <1>2, <1>3 DEF Good, PhaseOK, Keeps, Before, Asking, Finale
  <1>7. TextOK(u, ch, h)
    BY <1>2, <1>4 DEF Good, TextOK, Whole, Finale
  <1>8. AttemptsOK(u, h) /\ ImageOK(u)
    BY <1>2 DEF Good, AttemptsOK, ImageOK, Keeps, Before, Asking
  <1>9. \A id : Asked(u, id) = FALSE /\ Asked(t, id) = FALSE
    BY <1>2 DEF Asked
  <1>10. PlacesOK(u, ch)
    BY <1>2, <1>9 DEF Good, PlacesOK, Keeps
  <1>11. OutfitsOK(u, ch)
    BY <1>2, <1>3, <1>4, <1>9 DEF Good, OutfitsOK, Settled, Keeps, Asking, Finale
  <1>12. TraceOK(u, ch)
    BY <1>2, <1>3 DEF Good, TraceOK, Keeps
  <1>13. QED
    BY <1>5, <1>6, <1>7, <1>8, <1>10, <1>11, <1>12 DEF Good, u

LEMMA ConcludeStep ==
    ASSUME IInv, Conclude
    PROVE  Good(task', channel', heard')
  <1>1. Good(task, channel, heard) /\ task.at = "ending" /\ heard' = heard
    BY DEF IInv, Conclude
  <1>2. CASE /\ reader = "reading" /\ channel' = Append(channel, Head(task.last))
             /\ task' = [task EXCEPT !.last = Tail(@),
                                     !.at = IF Len(task.last) = 1 THEN "done" ELSE @]
    BY <1>1, <1>2, SentGood
  <1>3. CASE Refused /\ task' = [task EXCEPT !.at = "done"] /\ channel' = channel
    BY <1>1, <1>3, RefusedGood DEF Refused
  <1>4. QED
    BY <1>2, <1>3 DEF Conclude, HasRoom

-----------------------------------------------------------------------------
(* The tools.                                                               *)

\* A call gets its result.
LEMMA ResultGood ==
    ASSUME NEW t, NEW ch, NEW h, Good(t, ch, h), t.at \in Asking,
           Len(t.results) < Len(t.calls), NEW result \in Outcomes,
           t.at # "capture" => result # "shown",
           IF result = "changed"
           THEN t.at = "answer" /\ host.answers[Len(t.results) + 1] = "applied"
           ELSE t.at = "answer" => host.answers[Len(t.results) + 1] = "failed" \/ late,
           NEW u \in Tasks, u.round = t.round, u.results = Append(t.results, result),
           u.at = "tools", u.calls = t.calls, u.capability = t.capability, u.screen = t.screen,
           u.started = t.started, u.pending = t.pending, u.retries = t.retries,
           u.image = t.image \/ (u.image /\ t.at = "capture" /\ u.capability)
    PROVE  Good(u, ch, h)
  <1> DEFINE k == Len(t.results) + 1
  <1>1. t \in Tasks /\ t.results \in Seq(Outcomes) /\ t.calls \in Seq(Tools)
    BY DEF Good, Typed, Tasks
  <1>2. /\ Len(u.results) = k /\ u.results[k] = result
        /\ \A i \in 1 .. Len(t.results) : u.results[i] = t.results[i]
        /\ Len(t.results) \in Nat /\ Len(t.calls) \in Nat
        /\ Len(t.calls) <= MaxCalls /\ MaxCalls \in Nat /\ k \in 1 .. MaxCalls
    BY <1>1, ReplyAssumption DEF Good, PhaseOK
  <1>3. k = Len(t.results) + 1
    OBVIOUS
  <1> HIDE DEF k
  <1>4. /\ \A i \in 1 .. Len(ch) : ch[i].kind \notin {"finished", "failed", "trace"}
        /\ reply.state # "finished"
    BY DEF Good, PhaseOK, Asking, Finale
  <1>5. t.at \notin Finale /\ t.at \notin Before /\ u.at \notin Finale /\ u.at \notin Before
    BY DEF Asking, Finale, Before
  <1>6. Typed(u, ch, h)
    BY DEF Good, Typed
  <1>7. PhaseOK(u, ch)
    BY <1>2, <1>3, <1>4 DEF Good, PhaseOK, Before, Asking, Finale
  <1>8. TextOK(u, ch, h)
    BY <1>4, <1>5 DEF Good, TextOK, Whole, Finishes, Asking
  <1>9. AttemptsOK(u, h)
    BY <1>5 DEF Good, AttemptsOK
  <1>10. ImageOK(u)
    <2>1. ASSUME u.image, t.image
          PROVE  /\ u.capability
                 /\ \E i \in 1 .. Len(u.results) : u.calls[i] = "screen"
      <3>1. PICK i \in 1 .. Len(t.results) : t.calls[i] = "screen"
        BY <2>1 DEF Good, ImageOK
      <3>2. i \in 1 .. Len(u.results)
        BY <1>2, <1>3
      <3>3. QED
        BY <2>1, <3>1, <3>2 DEF Good, ImageOK
    <2>2. ASSUME u.image, ~t.image
          PROVE  /\ u.capability
                 /\ \E i \in 1 .. Len(u.results) : u.calls[i] = "screen"
      <3>1. t.at = "capture" /\ u.capability
        BY <2>2
      <3>2. t.calls[k] = "screen"
        BY <1>3, <3>1 DEF Good, PhaseOK
      <3>3. k \in 1 .. Len(u.results)
        BY <1>2, <1>3
      <3>4. QED
        BY <3>1, <3>2, <3>3
    <2>3. QED
      BY <1>5, <2>1, <2>2 DEF ImageOK
  <1>11. /\ \A id : Asked(u, id) = FALSE
         /\ \A id : Asked(t, id) => t.at = "answer" /\ id = k
    BY <1>3 DEF Asked, Asking
  <1>12. PlacesOK(u, ch)
    <2>1. PlacesOK(t, ch)
      BY DEF Good
    <2>2. \A id \in 1 .. MaxCalls : id > Len(u.results) => id > Len(t.results) /\ ~Asked(t, id)
      BY <1>2, <1>3, <1>11
    <2>3. QED
      BY <2>1, <2>2 DEF PlacesOK
  <1>13. OutfitsOK(u, ch)
    <2>1. OutfitsOK(t, ch) /\ PlacesOK(t, ch)
      BY DEF Good
    <2>2. /\ \A id \in 1 .. MaxCalls : id \in host.applied <=> host.answers[id] = "applied"
          /\ \A id \in 1 .. Len(t.results) :
                t.results[id] = "changed" => host.answers[id] = "applied"
      BY <2>1 DEF OutfitsOK
    <2>3. \A id \in 1 .. Len(u.results) : u.results[id] = "changed" => host.answers[id] = "applied"
      <3>1. \A id \in 1 .. Len(u.results) : id = k \/ id \in 1 .. Len(t.results)
        BY <1>2, <1>3
      <3>2. QED
        BY <1>2, <1>3, <2>2, <3>1
    <2>4. ASSUME NEW id \in 1 .. MaxCalls
          PROVE  Settled(u, id) \/ (late /\ u.at \in Asking \cup {"attempt"})
      <3>1. CASE id # k
        <4>1. Settled(t, id) \/ (late /\ t.at \in Asking \cup {"attempt"})
          BY <1>4, <1>5, <1>11, <2>1, <3>1 DEF OutfitsOK
        <4>2. Settled(t, id) => Settled(u, id)
          BY <1>2, <1>3 DEF Settled
        <4>3. QED
          BY <4>1, <4>2 DEF Asking
      <3>2. CASE id = k /\ result = "changed"
        <4>1. id <= Len(u.results) /\ u.results[id] = "changed"
          BY <1>2, <3>2
        <4>2. QED
          BY <4>1 DEF Settled
      <3>3. CASE id = k /\ result # "changed" /\ t.at # "answer"
        <4>1. id > Len(t.results) /\ ~Asked(t, id)
          BY <1>2, <1>3, <1>11, <3>3
        <4>2. host.answers[id] = "none" /\ host.applying # id
          BY <2>1, <4>1 DEF PlacesOK
        <4>3. QED
          BY <4>2 DEF Settled
      <3>4. CASE id = k /\ result # "changed" /\ t.at = "answer"
        <4>1. host.answers[id] = "failed" \/ late
          BY <1>3, <3>4
        <4>2. host.answers[id] = "failed" => host.applying # id
          <5>1. id # 0
            BY <1>2, <1>3, <3>4
          <5>2. QED
            BY <2>1, <5>1 DEF PlacesOK
        <4>3. QED
          BY <4>1, <4>2 DEF Settled, Asking
      <3>5. QED
        BY <3>1, <3>2, <3>3, <3>4
    <2>5. QED
      BY <2>2, <2>3, <2>4 DEF OutfitsOK
  <1>14. TraceOK(u, ch)
    BY <1>4 DEF Good, TraceOK
  <1>15. QED
    BY <1>6, <1>7, <1>8, <1>9, <1>10, <1>12, <1>13, <1>14 DEF Good

\* The task waits in the middle of a call.
LEMMA WaitsGood ==
    ASSUME NEW t, NEW ch, NEW h, Good(t, ch, h), t.at = "tools",
           Len(t.results) < Len(t.calls), NEW u \in Tasks, Keeps(t, u), u.calls = t.calls,
           u.started = t.started, u.pending = t.pending, u.retries = t.retries,
           \/ u.at = "capture" /\ t.calls[Len(t.results) + 1] = "screen"
           \/ u.at = "answer"
    PROVE  Good(u, ch, h)
  <1>1. /\ \A i \in 1 .. Len(ch) : ch[i].kind \notin {"finished", "failed", "trace"}
        /\ reply.state # "finished"
    BY DEF Good, PhaseOK, Finale
  <1>2. Typed(u, ch, h)
    BY DEF Good, Typed
  <1>3. PhaseOK(u, ch)
    BY <1>1 DEF Good, PhaseOK, Keeps, Before, Asking, Finale
  <1>4. TextOK(u, ch, h)
    BY <1>1 DEF Good, TextOK, Whole, Finishes, Finale
  <1>5. AttemptsOK(u, h) /\ ImageOK(u)
    BY DEF Good, AttemptsOK, ImageOK, Keeps, Before, Asking
  <1>6. \A id : Asked(t, id) = FALSE
    BY DEF Asked
  <1>7. PlacesOK(u, ch)
    BY <1>6 DEF Good, PlacesOK, Keeps
  <1>8. OutfitsOK(u, ch)
    BY <1>1, <1>6 DEF Good, OutfitsOK, Settled, Keeps, Asking, Finale
  <1>9. TraceOK(u, ch)
    BY <1>1 DEF Good, TraceOK, Keeps
  <1>10. QED
    BY <1>2, <1>3, <1>4, <1>5, <1>7, <1>8, <1>9 DEF Good

\* What IInv says of a task that runs its tools, and of one with a result more.
LEMMA AskingFacts ==
    ASSUME IInv, task.at \in Asking, task.at = "tools" => Len(task.results) < Len(task.calls)
    PROVE  /\ Good(task, channel, heard) /\ task \in Tasks
           /\ Len(task.results) < Len(task.calls) /\ Len(task.calls) <= MaxCalls
           /\ \A result \in Outcomes :
                 /\ Result(task, result) \in Tasks
                 /\ Result(task, result).round = task.round
                 /\ Result(task, result).results = Append(task.results, result)
                 /\ Result(task, result).at = "tools"
                 /\ Result(task, result).calls = task.calls
                 /\ Result(task, result).capability = task.capability
                 /\ Result(task, result).screen = task.screen
                 /\ Result(task, result).started = task.started
                 /\ Result(task, result).pending = task.pending
                 /\ Result(task, result).retries = task.retries
                 /\ Result(task, result).image = task.image
  <1>1. /\ Good(task, channel, heard) /\ task \in Tasks
        /\ Len(task.results) < Len(task.calls) /\ Len(task.calls) <= MaxCalls
    BY DEF IInv, Good, Typed, PhaseOK, Asking
  <1>2. task.results \in Seq(Outcomes)
    BY <1>1 DEF Tasks
  <1>3. ASSUME NEW result \in Outcomes
        PROVE  Append(task.results, result) \in Seq(Outcomes) /\ "tools" \in Asking
    BY <1>2 DEF Asking
  <1>4. ASSUME NEW result \in Outcomes
        PROVE  Result(task, result) \in Tasks
    BY <1>1, <1>3 DEF Result, Tasks
  <1>5. QED
    BY <1>1, <1>4 DEF Result, Tasks

LEMMA ScreenStep ==
    ASSUME IInv, Screen
    PROVE  Good(task', channel', heard')
  <1>1. /\ task.at = "tools" /\ task.at \in Asking /\ Len(task.results) < Len(task.calls)
        /\ task.calls[Len(task.results) + 1] = "screen" /\ channel' = channel /\ heard' = heard
    BY DEF Screen, CallIs, Asking
  <1>2. CASE task' = [task EXCEPT !.at = "capture"]
    <2>1. Good(task, channel, heard) /\ task \in Tasks
      BY <1>1, AskingFacts
    <2>2. task' \in Tasks
      BY <1>2, <2>1 DEF Tasks, Asking
    <2>3. /\ Keeps(task, task') /\ task'.at = "capture" /\ task'.calls = task.calls
          /\ task'.started = task.started /\ task'.pending = task.pending
          /\ task'.retries = task.retries
      BY <1>2, <2>1 DEF Tasks, Keeps
    <2>4. QED
      BY <1>1, <2>1, <2>2, <2>3, WaitsGood
  <1>3. CASE task' = Result(task, "error")
    <2>1. "error" \in Outcomes
      BY DEF Outcomes
    <2>2. QED
      BY <1>1, <1>3, <2>1, AskingFacts, ResultGood
  <1>4. QED
    BY <1>2, <1>3 DEF Screen

LEMMA CaptureStep ==
    ASSUME IInv, Capture
    PROVE  Good(task', channel', heard')
  <1>1. /\ task.at = "capture" /\ task.at \in Asking /\ channel' = channel /\ heard' = heard
    BY DEF Capture, Asking
  <1>2. "error" \in Outcomes /\ "shown" \in Outcomes
    BY DEF Outcomes
  <1>3. CASE task' = Result(task, "error")
    BY <1>1, <1>2, <1>3, AskingFacts, ResultGood
  <1>4. CASE Authorized(task) /\ task' = [Result(task, "shown") EXCEPT !.image = TRUE]
    <2> DEFINE r == Result(task, "shown")
    <2>1. /\ Good(task, channel, heard) /\ Len(task.results) < Len(task.calls)
          /\ r \in Tasks /\ r.round = task.round /\ r.results = Append(task.results, "shown")
          /\ r.at = "tools" /\ r.calls = task.calls /\ r.capability = task.capability
          /\ r.screen = task.screen /\ r.started = task.started /\ r.pending = task.pending
          /\ r.retries = task.retries
      BY <1>1, <1>2, AskingFacts
    <2>2. task' = [r EXCEPT !.image = TRUE] /\ task.capability
      BY <1>4 DEF Authorized
    <2> HIDE DEF r
    <2>3. task' \in Tasks
      BY <2>1, <2>2 DEF Tasks
    <2>4. /\ task'.round = task.round /\ task'.results = Append(task.results, "shown")
          /\ task'.at = "tools" /\ task'.calls = task.calls /\ task'.capability = task.capability
          /\ task'.screen = task.screen /\ task'.started = task.started
          /\ task'.pending = task.pending /\ task'.retries = task.retries /\ task'.image
      BY <2>1, <2>2 DEF Tasks
    <2>5. QED
      BY <1>1, <1>2, <2>1, <2>2, <2>3, <2>4, ResultGood
  <1>5. QED
    BY <1>3, <1>4 DEF Capture

LEMMA NoToolStep ==
    ASSUME IInv, NoTool
    PROVE  Good(task', channel', heard')
  <1>1. /\ task.at = "tools" /\ task.at \in Asking /\ Len(task.results) < Len(task.calls)
        /\ task' = Result(task, "error") /\ channel' = channel /\ heard' = heard
    BY DEF NoTool, CallIs, Asking
  <1>2. "error" \in Outcomes
    BY DEF Outcomes
  <1>3. QED
    BY <1>1, <1>2, AskingFacts, ResultGood

LEMMA AwaitOutfitStep ==
    ASSUME IInv, AwaitOutfit
    PROVE  Good(task', channel', heard')
  <1>1. /\ task.at = "answer" /\ task.at \in Asking /\ channel' = channel /\ heard' = heard
    BY DEF AwaitOutfit, Asking
  <1>2. "error" \in Outcomes /\ "changed" \in Outcomes
    BY DEF Outcomes
  <1>3. CASE host.answers[Len(task.results) + 1] = "applied" /\ task' = Result(task, "changed")
    BY <1>1, <1>2, <1>3, AskingFacts, ResultGood
  <1>4. CASE /\ host.answers[Len(task.results) + 1] = "failed" \/ late
             /\ task' = Result(task, "error")
    BY <1>1, <1>2, <1>4, AskingFacts, ResultGood
  <1>5. QED
    BY <1>3, <1>4 DEF AwaitOutfit

\* The request of an outfit goes into the channel.
LEMMA AskedGood ==
    ASSUME NEW t, NEW ch, NEW h, Good(t, ch, h), t.at = "answer", reader = "reading",
           NEW id \in 1 .. MaxCalls, host.answers[id] = "none", host.applying # id,
           \A e \in 1 .. Len(effects) : effects[e] # id,
           \A i \in 1 .. Len(ch) : ch[i].kind = "outfit" => ch[i].body # id,
           id = Len(t.results) + 1
    PROVE  Good(t, Append(ch, Event("outfit", id)), h)
  <1> DEFINE e == Event("outfit", id)
             c == Append(ch, e)
  <1>1. ch \in Seq(Events) /\ h \in Seq(Pieces)
    BY DEF Good, Typed
  <1>2. e \in Events /\ e.kind = "outfit" /\ e.body = id
    BY DEF Event, Events
  <1>3. /\ c \in Seq(Events) /\ Len(c) = Len(ch) + 1 /\ c[Len(ch) + 1] = e
        /\ \A i \in 1 .. Len(ch) : c[i] = ch[i]
        /\ Len(ch) \in Nat
    BY <1>1, <1>2
  <1>4. c = Append(ch, e)
    OBVIOUS
  <1> HIDE DEF e, c
  <1>5. \A i \in 1 .. Len(c) : (i = Len(ch) + 1 /\ c[i] = e)
                               \/ (i \in 1 .. Len(ch) /\ c[i] = ch[i])
    BY <1>3
  <1>6. /\ \A i \in 1 .. Len(ch) : ch[i].kind \notin {"finished", "failed", "trace"}
        /\ reply.state # "finished"
    BY DEF Good, PhaseOK, Finale
  <1>7. \A i \in 1 .. Len(c) : c[i].kind \notin {"finished", "failed", "trace"}
    BY <1>2, <1>5, <1>6
  <1>8. ~Finishes(t, c) /\ ~Finishes(t, ch)
    BY <1>6, <1>7 DEF Finishes
  <1>9. Typed(t, c, h)
    BY <1>3 DEF Good, Typed
  <1>10. PhaseOK(t, c)
    BY <1>7 DEF Good, PhaseOK
  <1>11. TextOK(t, c, h)
    <2>1. PICK cut \in [0 .. Len(ch) -> 0 .. Len(h)] : Cuts(cut, ch, h) /\ Whole(cut, t, ch, h)
      BY DEF Good, TextOK
    <2>2. PICK new \in [0 .. Len(c) -> 0 .. Len(h)] :
             Cuts(new, c, h) /\ new[Len(c)] = cut[Len(ch)]
      BY <1>1, <1>2, <1>4, <2>1, OtherCut
    <2>3. Whole(new, t, c, h)
      BY <1>8, <2>1, <2>2 DEF Whole
    <2>4. QED
      BY <1>6, <2>2, <2>3 DEF TextOK
  <1>12. PlacesOK(t, c)
    <2>1. PlacesOK(t, ch)
      BY DEF Good
    <2>2. ASSUME NEW i \in 1 .. Len(c), c[i].kind = "outfit"
          PROVE  /\ host.answers[c[i].body] = "none" /\ host.applying # c[i].body
                 /\ \A f \in 1 .. Len(effects) : effects[f] # c[i].body
                 /\ \A j \in 1 .. Len(c) : (j # i /\ c[j].kind = "outfit") => c[j].body # c[i].body
      <3>1. CASE i \in 1 .. Len(ch)
        <4>1. c[i] = ch[i] /\ ch[i].kind = "outfit" /\ ch[i].body # id
          BY <1>3, <2>2, <3>1
        <4>2. ASSUME NEW j \in 1 .. Len(c), j # i, c[j].kind = "outfit"
              PROVE  c[j].body # c[i].body
          <5>1. c[j] = e \/ (j \in 1 .. Len(ch) /\ c[j] = ch[j])
            BY <1>5
          <5>2. QED
            BY <1>2, <2>1, <3>1, <4>1, <4>2, <5>1 DEF PlacesOK
        <4>3. QED
          BY <2>1, <3>1, <4>1, <4>2 DEF PlacesOK
      <3>2. CASE i = Len(ch) + 1
        <4>1. c[i].body = id
          BY <1>2, <1>3, <3>2
        <4>2. \A j \in 1 .. Len(c) : j # i => j \in 1 .. Len(ch) /\ c[j] = ch[j]
          BY <1>5, <3>2
        <4>3. QED
          BY <4>1, <4>2
      <3>3. QED
        BY <1>5, <3>1, <3>2
    <2>3. ASSUME NEW k \in 1 .. MaxCalls, k > Len(t.results), ~Asked(t, k),
                 NEW i \in 1 .. Len(c), c[i].kind = "outfit"
          PROVE  c[i].body # k
      <3>1. k # id
        BY <2>3 DEF Asked
      <3>2. QED
        BY <1>2, <1>5, <2>1, <2>3, <3>1 DEF PlacesOK
    <2>4. QED
      BY <2>1, <2>2, <2>3 DEF PlacesOK
  <1>13. OutfitsOK(t, c)
    BY <1>8 DEF Good, OutfitsOK
  <1>14. TraceOK(t, c)
    BY <1>7 DEF Good, TraceOK
  <1>15. QED
    BY <1>9, <1>10, <1>11, <1>12, <1>13, <1>14 DEF Good, c, e

LEMMA AskOutfitStep ==
    ASSUME IInv, AskOutfit
    PROVE  Good(task', channel', heard')
  <1>1. /\ task.at = "tools" /\ task.at \in Asking /\ Len(task.results) < Len(task.calls)
        /\ heard' = heard
    BY DEF AskOutfit, CallIs, Asking
  <1>2. /\ Good(task, channel, heard) /\ task \in Tasks /\ Len(task.calls) <= MaxCalls
    BY <1>1, AskingFacts
  <1>3. CASE task' = Result(task, "error") /\ channel' = channel
    <2>1. "error" \in Outcomes
      BY DEF Outcomes
    <2>2. QED
      BY <1>1, <1>3, <2>1, AskingFacts, ResultGood
  <1>4. CASE /\ HasRoom /\ channel' = Append(channel, Event("outfit", Len(task.results) + 1))
             /\ task' = [task EXCEPT !.at = "answer"]
    <2>1. task' \in Tasks
      BY <1>2, <1>4 DEF Tasks, Asking
    <2>2. /\ Keeps(task, task') /\ task'.at = "answer" /\ task'.calls = task.calls
          /\ task'.started = task.started /\ task'.pending = task.pending
          /\ task'.retries = task.retries
      BY <1>2, <1>4 DEF Tasks, Keeps
    <2>3. Good(task', channel, heard)
      BY <1>1, <1>2, <2>1, <2>2, WaitsGood
    <2> DEFINE id == Len(task.results) + 1
    <2>4. id \in 1 .. MaxCalls /\ id > Len(task.results)
      <3>1. task.results \in Seq(Outcomes) /\ task.calls \in Seq(Tools)
        BY <1>2 DEF Tasks
      <3>2. Len(task.results) \in Nat /\ Len(task.calls) \in Nat
        BY <3>1
      <3>3. QED
        BY <1>1, <1>2, <3>2, ReplyAssumption
    <2>5. ~Asked(task, id)
      BY <1>1 DEF Asked
    <2>6. /\ host.answers[id] = "none" /\ host.applying # id
          /\ \A e \in 1 .. Len(effects) : effects[e] # id
          /\ \A i \in 1 .. Len(channel) : channel[i].kind = "outfit" => channel[i].body # id
      BY <1>2, <2>4, <2>5 DEF Good, PlacesOK
    <2>7. id = Len(task'.results) + 1 /\ reader = "reading"
      BY <1>4, <2>2 DEF Keeps, HasRoom
    <2>8. channel' = Append(channel, Event("outfit", id))
      BY <1>4
    <2> HIDE DEF id
    <2>9. Good(task', Append(channel, Event("outfit", id)), heard)
      BY <2>2, <2>3, <2>4, <2>6, <2>7, AskedGood
    <2>10. QED
      BY <1>1, <2>8, <2>9
  <1>5. QED
    BY <1>3, <1>4 DEF AskOutfit

\* The results go into the next request.
LEMMA AnsweredGood ==
    ASSUME NEW t, NEW ch, NEW h, Good(t, ch, h), t.at = "tools",
           Len(t.results) = Len(t.calls), NEW u \in Tasks, u.at = "attempt", u.round = 2,
           u.started = t.started, u.pending = t.pending, u.calls = <<>>,
           Len(u.results) = Len(t.results),
           \A i \in 1 .. Len(t.results) : (u.results[i] = "changed") <=> (t.results[i] = "changed"),
           u.image => /\ t.image /\ u.capability = t.capability
                      /\ u.screen = \E i \in 1 .. Len(t.calls) : t.calls[i] \in {"screen", "arguments"}
    PROVE  Good(u, ch, h)
  <1>1. /\ \A i \in 1 .. Len(ch) : ch[i].kind \notin {"finished", "failed", "trace"}
        /\ reply.state # "finished"
    BY DEF Good, PhaseOK, Finale
  <1>2. Typed(u, ch, h) /\ MaxCalls \in Nat
    BY ReplyAssumption DEF Good, Typed
  <1>3. PhaseOK(u, ch)
    BY <1>1, <1>2 DEF Good, PhaseOK, Before, Asking, Finale
  <1>4. TextOK(u, ch, h)
    BY <1>1 DEF Good, TextOK, Whole, Finishes, Finale
  <1>5. AttemptsOK(u, h)
    <2>1. t.round = 1
      BY DEF Good, PhaseOK, Asking
    <2>2. h \in Seq(Pieces) /\ \A i \in 1 .. Len(h) : h[i].round \in {1, 2}
      <3>1. h \in Seq(Pieces)
        BY DEF Good, Typed
      <3>2. \A i \in 1 .. Len(h) : h[i] \in Pieces
        BY <3>1
      <3>3. QED
        BY <3>1, <3>2 DEF Pieces
    <2>3. \A i \in 1 .. Len(h) : h[i].round = 1
      BY <2>1, <2>2 DEF Good, AttemptsOK
    <2>4. QED
      BY <2>3 DEF Good, AttemptsOK
  <1>6. ImageOK(u)
    <2>1. ASSUME u.image
          PROVE  u.capability /\ u.screen
      <3>1. t.capability /\ \E i \in 1 .. Len(t.results) : t.calls[i] = "screen"
        BY <2>1 DEF Good, ImageOK, Asking
      <3>2. QED
        BY <2>1, <3>1
    <2>2. QED
      BY <2>1 DEF ImageOK, Asking
  <1>7. \A id : Asked(t, id) = FALSE /\ Asked(u, id) = FALSE
    BY DEF Asked
  <1>8. PlacesOK(u, ch)
    BY <1>7 DEF Good, PlacesOK
  <1>9. OutfitsOK(u, ch)
    <2>1. OutfitsOK(t, ch) /\ t \in Tasks
      BY DEF Good, Typed
    <2>2. \A id \in 1 .. MaxCalls : Settled(t, id) => Settled(u, id)
      <3>1. ASSUME NEW id \in 1 .. MaxCalls, id <= Len(t.results), t.results[id] = "changed"
            PROVE  id <= Len(u.results) /\ u.results[id] = "changed"
        <4>1. Len(t.results) \in Nat
          <5>1. t.results \in Seq(Outcomes)
            BY <2>1 DEF Tasks
          <5>2. QED
            BY <5>1
        <4>2. id \in 1 .. Len(t.results)
          BY <1>2, <3>1, <4>1
        <4>3. QED
          BY <3>1, <4>2
      <3>2. QED
        BY <3>1 DEF Settled
    <2>3. \A id \in 1 .. Len(u.results) : u.results[id] = "changed" => host.answers[id] = "applied"
      BY <2>1 DEF OutfitsOK
    <2>4. \A id \in 1 .. MaxCalls : Settled(t, id) \/ late
      BY <1>7, <2>1 DEF OutfitsOK, Finale
    <2>5. QED
      BY <2>1, <2>2, <2>3, <2>4 DEF OutfitsOK
  <1>10. TraceOK(u, ch)
    BY <1>1 DEF Good, TraceOK
  <1>11. QED
    BY <1>2, <1>3, <1>4, <1>5, <1>6, <1>8, <1>9, <1>10 DEF Good

LEMMA ContinueStep ==
    ASSUME IInv, Continue
    PROVE  Good(task', channel', heard')
  <1>1. /\ Good(task, channel, heard) /\ task \in Tasks /\ task.at = "tools"
        /\ Len(task.results) = Len(task.calls) /\ channel' = channel /\ heard' = heard
        /\ task.results \in Seq(Outcomes) /\ task.calls \in Seq(Tools)
    BY DEF IInv, Good, Typed, Tasks, Continue
  <1> DEFINE t == IF Authorized(task) THEN task ELSE RevokeImage(task)
             s == \E i \in DOMAIN t.calls : t.calls[i] \in {"screen", "arguments"}
             r == [i \in 1 .. Len(task.results) |->
                     IF task.results[i] = "shown" THEN "error" ELSE task.results[i]]
  <1>2. /\ r \in Seq(Outcomes) /\ Len(r) = Len(task.results)
        /\ \A i \in 1 .. Len(r) : (r[i] = "changed") <=> (task.results[i] = "changed")
    <2>1. Len(task.results) \in Nat
      BY <1>1
    <2>2. \A i \in 1 .. Len(task.results) : task.results[i] \in Outcomes
      BY <1>1
    <2>3. r \in [1 .. Len(task.results) -> Outcomes]
      BY <2>2 DEF Outcomes
    <2>4. r \in Seq(Outcomes)
      BY <2>1, <2>3, SeqDef
    <2>5. Len(r) = Len(task.results)
      BY <2>1, <2>3, <2>4, LenProperties
    <2>6. QED
      BY <2>4, <2>5
  <1>3. /\ t \in Tasks /\ t.calls = task.calls /\ t.started = task.started
        /\ t.pending = task.pending /\ t.capability = task.capability
        /\ t.image => task.image
        /\ t.results = task.results \/ t.results = r
    <2>1. CASE t = task
      BY <1>1, <2>1
    <2>2. CASE t = RevokeImage(task)
      <3> DEFINE q == IF task.image THEN r ELSE task.results
      <3>1. DOMAIN task.results = 1 .. Len(task.results)
        BY <1>1
      <3>2. RevokeImage(task) = [task EXCEPT !.image = FALSE, !.results = q]
        BY <1>1, <3>1 DEF RevokeImage, Tasks
      <3>3. q \in Seq(Outcomes) /\ (q = task.results \/ q = r)
        BY <1>1, <1>2
      <3> HIDE DEF q, r
      <3>4. RevokeImage(task) \in Tasks
        BY <1>1, <3>2, <3>3 DEF Tasks
      <3>5. /\ RevokeImage(task).calls = task.calls /\ RevokeImage(task).started = task.started
            /\ RevokeImage(task).pending = task.pending /\ RevokeImage(task).results = q
            /\ RevokeImage(task).capability = task.capability /\ ~RevokeImage(task).image
        BY <1>1, <3>2 DEF Tasks
      <3>6. QED
        BY <2>2, <3>3, <3>4, <3>5
    <2>3. QED
      BY <2>1, <2>2
  <1>4. task' = [t EXCEPT !.at = "attempt", !.round = 2, !.calls = <<>>, !.screen = s]
    BY DEF Continue
  <1>5. s = \E i \in 1 .. Len(task.calls) : task.calls[i] \in {"screen", "arguments"}
    BY <1>1, <1>3
  <1>6. s \in BOOLEAN
    OBVIOUS
  <1> HIDE DEF t, s, r
  <1>7. /\ task' \in Tasks
    <2>1. <<>> \in Seq(Tools) /\ "attempt" \in Before /\ 2 \in {1, 2}
      BY EmptySeq DEF Before
    <2>2. QED
      BY <1>3, <1>4, <1>6, <2>1 DEF Tasks
  <1>8. /\ task'.at = "attempt" /\ task'.round = 2 /\ task'.started = task.started
        /\ task'.pending = task.pending /\ task'.calls = <<>> /\ task'.results = t.results
        /\ task'.image = t.image /\ task'.capability = task.capability /\ task'.screen = s
    BY <1>3, <1>4 DEF Tasks
  <1>9. /\ Len(task'.results) = Len(task.results)
        /\ \A i \in 1 .. Len(task.results) :
              (task'.results[i] = "changed") <=> (task.results[i] = "changed")
    BY <1>2, <1>3, <1>8
  <1>10. QED
    BY <1>1, <1>3, <1>5, <1>7, <1>8, <1>9, AnsweredGood

\* What a step of the task leaves alone.
LEMMA TaskFrame ==
    ASSUME UNCHANGED <<reader, reply, effects, host, late>>, Good(task', channel', heard')
    PROVE  IInv'
  <1>1. Typed(task, channel, heard)' /\ PhaseOK(task, channel)'
    BY DEF Good, Typed, PhaseOK
  <1>2. TextOK(task, channel, heard)'
    BY DEF Good, TextOK, Cuts, Whole, Finishes
  <1>3. AttemptsOK(task, heard)' /\ ImageOK(task)'
    BY DEF Good, AttemptsOK, ImageOK
  <1>4. PlacesOK(task, channel)'
    BY DEF Good, PlacesOK, Asked
  <1>5. OutfitsOK(task, channel)'
    BY DEF Good, OutfitsOK, Asked, Settled, Finishes
  <1>6. TraceOK(task, channel)'
    BY DEF Good, TraceOK
  <1>7. QED
    BY <1>1, <1>2, <1>3, <1>4, <1>5, <1>6 DEF IInv, Good

LEMMA TaskStep ==
    ASSUME IInv, TaskNext
    PROVE  IInv'
  <1>1. UNCHANGED <<reader, reply, effects, host, late>>
    BY DEF TaskNext
  <1>2. Good(task', channel', heard')
    BY BeginStep, AttemptStep, ConnectStep, DeadlinesStep, ChunkStep, ToolChunkStep, EndStep,
       WakeStep, FlushStep, ConcludeStep, ScreenStep, CaptureStep, NoToolStep, AskOutfitStep,
       AwaitOutfitStep, ContinueStep DEF TaskNext
  <1>3. QED
    BY <1>1, <1>2, TaskFrame

-----------------------------------------------------------------------------
(* The steps of the Agent.                                                  *)

\* What IInv says before any step of the Agent.
LEMMA ReaderFacts ==
    ASSUME IInv
    PROVE  /\ channel \in Seq(Events) /\ heard \in Seq(Pieces) /\ reply.text \in Seq(Pieces)
           /\ Len(reply.text) \in Nat /\ Len(reply.text) <= Len(heard) /\ Len(heard) \in Nat
           /\ \A j \in 1 .. Len(reply.text) : reply.text[j] = heard[j]
           /\ \E cut \in [0 .. Len(channel) -> 0 .. Len(heard)] :
                 Cuts(cut, channel, heard) /\ Whole(cut, task, channel, heard)
  <1>1. channel \in Seq(Events) /\ heard \in Seq(Pieces) /\ reply.text \in Seq(Pieces)
    BY DEF IInv, Good, Typed
  <1>2. PICK cut \in [0 .. Len(channel) -> 0 .. Len(heard)] :
           Cuts(cut, channel, heard) /\ Whole(cut, task, channel, heard)
    BY DEF IInv, Good, TextOK
  <1>3. /\ cut[0] = Len(reply.text)
        /\ \A j \in 1 .. Len(reply.text) : reply.text[j] = heard[j]
    BY <1>2 DEF Cuts
  <1>4. Len(channel) \in Nat /\ Len(heard) \in Nat /\ Len(reply.text) \in Nat
    BY <1>1
  <1>5. cut[0] \in 0 .. Len(heard)
    BY <1>2, <1>4
  <1>6. QED
    BY <1>1, <1>2, <1>3, <1>4, <1>5

\* The reader leaves, for whatever reason.
LEMMA LeaveGood ==
    ASSUME IInv, Leave, reader = "reading", UNCHANGED <<task, effects, late, heard>>,
           reply' \in [state : {"streaming", "finished", "failed", "cancelled"},
                       text : Seq(Pieces), trace : Seq(Outcomes)],
           reply'.text = reply.text, reply'.trace = reply.trace,
           reply'.state = "streaming" => task.at \in {"done", "dropped"},
           task.at = "dropped" => reply'.state = "cancelled",
           reply'.state = "finished" =>
              \/ reply.state = "finished"
              \/ /\ task.at = "done" /\ (late \/ Len(reply.text) = Len(heard))
                 /\ reply.trace = task.results /\ Finishes(task, channel)
    PROVE  IInv'
  <1>1. /\ Typed(task, channel, heard) /\ PhaseOK(task, channel) /\ TextOK(task, channel, heard)
        /\ AttemptsOK(task, heard) /\ ImageOK(task) /\ PlacesOK(task, channel)
        /\ OutfitsOK(task, channel) /\ TraceOK(task, channel)
    BY DEF IInv, Good
  <1>2. /\ reader' = "joining" /\ channel' = <<>> /\ Len(channel') = 0
        /\ task' = task /\ effects' = effects /\ late' = late /\ heard' = heard
    BY DEF Leave
  <1>3. /\ DOMAIN host.answers = 1 .. MaxCalls
        /\ host \in [applying : 0 .. MaxCalls, applied : SUBSET (1 .. MaxCalls),
                     answers : [1 .. MaxCalls -> {"none", "applied", "failed"}]]
    BY <1>1 DEF Typed
  <1>4. /\ channel \in Seq(Events) /\ DOMAIN channel = 1 .. Len(channel)
    BY <1>1 DEF Typed
  <1> DEFINE InChannel(id) == \E i \in DOMAIN channel : channel[i] = Event("outfit", id)
             new == [id \in 1 .. MaxCalls |-> IF InChannel(id) THEN "failed" ELSE host.answers[id]]
  <1>5. host' = [host EXCEPT !.answers = new]
    BY <1>3 DEF Leave
  <1>6. \A id \in 1 .. MaxCalls : InChannel(id) =>
           /\ host.answers[id] = "none" /\ host.applying # id
           /\ \A e \in 1 .. Len(effects) : effects[e] # id
           /\ id > Len(task.results) => Asked(task, id)
    <2>1. ASSUME NEW id \in 1 .. MaxCalls, NEW i \in 1 .. Len(channel),
                 channel[i] = Event("outfit", id)
          PROVE  /\ host.answers[id] = "none" /\ host.applying # id
                 /\ \A e \in 1 .. Len(effects) : effects[e] # id
                 /\ id > Len(task.results) => Asked(task, id)
      <3>1. channel[i].kind = "outfit" /\ channel[i].body = id
        BY <2>1 DEF Event
      <3>2. QED
        BY <1>1, <3>1 DEF PlacesOK
    <2>2. QED
      BY <1>4, <2>1
  <1>7. /\ host' \in [applying : 0 .. MaxCalls, applied : SUBSET (1 .. MaxCalls),
                      answers : [1 .. MaxCalls -> {"none", "applied", "failed"}]]
        /\ host'.applying = host.applying /\ host'.applied = host.applied
        /\ host'.answers = new
    BY <1>3, <1>5
  <1>8. \A id \in 1 .. MaxCalls :
           /\ ~InChannel(id) => host'.answers[id] = host.answers[id]
           /\ InChannel(id) => host'.answers[id] = "failed"
           /\ host'.answers[id] = "applied" <=> host.answers[id] = "applied"
    BY <1>6, <1>7
  <1> HIDE DEF InChannel, new
  <1>9. Typed(task, channel, heard)'
    BY <1>1, <1>2, <1>7, EmptySeq DEF Typed
  <1>10. PhaseOK(task, channel)'
    BY <1>1, <1>2 DEF PhaseOK, Finale
  <1>11. TextOK(task, channel, heard)'
    <2>1. PICK cut \in [0 .. 0 -> 0 .. Len(heard)] : cut[0] = Len(reply.text)
      <3>1. [i \in 0 .. 0 |-> Len(reply.text)] \in [0 .. 0 -> 0 .. Len(heard)]
        BY ReaderFacts
      <3>2. [i \in 0 .. 0 |-> Len(reply.text)][0] = Len(reply.text)
        OBVIOUS
      <3>3. QED
        BY <3>1, <3>2
    <2>2. /\ \A j \in 1 .. Len(reply'.text) : reply'.text[j] = heard'[j]
          /\ \A i \in 1 .. Len(channel') : FALSE
      BY <1>2, ReaderFacts
    <2>3. Cuts(cut, channel, heard)'
      BY <1>2, <2>1, <2>2 DEF Cuts
    <2>4. Whole(cut, task, channel, heard)'
      BY <1>2 DEF Whole
    <2>5. reply'.state = "finished" => late' \/ Len(reply'.text) = Len(heard')
      BY <1>1, <1>2 DEF TextOK
    <2>6. cut \in [0 .. Len(channel') -> 0 .. Len(heard')]
      BY <1>2, <2>1
    <2>7. QED
      BY <2>3, <2>4, <2>5, <2>6 DEF TextOK
  <1>12. AttemptsOK(task, heard)' /\ ImageOK(task)'
    BY <1>1, <1>2 DEF AttemptsOK, ImageOK
  <1>13. PlacesOK(task, channel)'
    <2>1. \A i \in 1 .. Len(channel') : FALSE
      BY <1>2
    <2>2. \A e \in 1 .. Len(effects) :
             /\ host'.answers[effects[e]] = "none" /\ host'.applying # effects[e]
             /\ \A f \in 1 .. Len(effects) : f # e => effects[f] # effects[e]
      <3>1. ASSUME NEW e \in 1 .. Len(effects)
            PROVE  effects[e] \in 1 .. MaxCalls
        <4>1. effects \in Seq(1 .. MaxCalls)
          BY <1>1 DEF Typed
        <4>2. QED
          BY <3>1, <4>1, ElementOfSeq
      <3>2. \A e \in 1 .. Len(effects) :
               /\ host.answers[effects[e]] = "none" /\ host.applying # effects[e]
               /\ \A f \in 1 .. Len(effects) : f # e => effects[f] # effects[e]
        BY <1>1 DEF PlacesOK
      <3>3. \A e \in 1 .. Len(effects) : ~InChannel(effects[e])
        BY <1>6, <3>1
      <3>4. QED
        BY <1>7, <1>8, <3>1, <3>2, <3>3
    <2>3. host'.applying # 0 => host'.answers[host'.applying] = "none"
      <3>1. host.applying # 0 => host.applying \in 1 .. MaxCalls
        BY <1>3, ReplyAssumption
      <3>2. QED
        BY <1>1, <1>6, <1>7, <1>8, <3>1 DEF PlacesOK
    <2>4. \A id \in 1 .. MaxCalls : (id > Len(task.results) /\ ~Asked(task, id)) =>
             /\ host'.answers[id] = "none" /\ host'.applying # id
             /\ \A e \in 1 .. Len(effects) : effects[e] # id
      BY <1>1, <1>6, <1>7, <1>8 DEF PlacesOK
    <2>5. QED
      BY <1>2, <2>1, <2>2, <2>3, <2>4 DEF PlacesOK, Asked
  <1>14. OutfitsOK(task, channel)'
    <2>1. \A id \in 1 .. MaxCalls : id \in host'.applied <=> host'.answers[id] = "applied"
      BY <1>1, <1>7, <1>8 DEF OutfitsOK
    <2>2. \A id \in 1 .. Len(task.results) :
             task.results[id] = "changed" => host'.answers[id] = "applied"
      <3>1. \A id \in 1 .. Len(task.results) : id \in 1 .. MaxCalls
        <4>1. task.results \in Seq(Outcomes) /\ Len(task.results) <= MaxCalls
          BY <1>1 DEF Typed, Tasks, PhaseOK
        <4>2. Len(task.results) \in Nat
          BY <4>1
        <4>3. QED
          BY <4>1, <4>2, ReplyAssumption
      <3>2. QED
        BY <1>1, <1>8, <3>1 DEF OutfitsOK
    <2>3. \A id \in 1 .. MaxCalls : Settled(task, id) => Settled(task, id)'
      BY <1>2, <1>7, <1>8 DEF Settled
    <2>4. \A id \in 1 .. MaxCalls : Asked(task, id) => Asked(task, id)'
      BY <1>2 DEF Asked
    <2>5. ~Finishes(task, channel)' \/ task.at = "ending"
      BY <1>2 DEF Finishes
    <2>6. ~Finishes(task, channel) => ~Finishes(task, channel)'
      BY <1>2 DEF Finishes
    <2>7. ASSUME NEW id \in 1 .. MaxCalls
          PROVE  \/ Settled(task, id)' \/ Asked(task, id)'
                 \/ late /\ task.at \in Asking \cup {"attempt"}
                 \/ task.at \in Finale /\ ~Finishes(task, channel)' /\ reply'.state # "finished"
      <3>1. CASE Settled(task, id) \/ Asked(task, id)
        BY <2>3, <2>4, <3>1
      <3>2. CASE late /\ task.at \in Asking \cup {"attempt"}
        BY <3>2
      <3>3. CASE task.at \in Finale /\ ~Finishes(task, channel) /\ reply.state # "finished"
        BY <2>6, <3>3
      <3>4. QED
        BY <1>1, <3>1, <3>2, <3>3 DEF OutfitsOK
    <2>8. QED
      BY <1>2, <2>1, <2>2, <2>7 DEF OutfitsOK
  <1>15. TraceOK(task, channel)'
    BY <1>1, <1>2 DEF TraceOK
  <1>16. QED
    BY <1>9, <1>10, <1>11, <1>12, <1>13, <1>14, <1>15 DEF IInv, Good

LEMMA ReadStaleStep ==
    ASSUME IInv, ReadStale, UNCHANGED <<task, permission, late, sent, heard>>
    PROVE  IInv'
  <1>1. /\ Leave /\ reader = "reading" /\ UNCHANGED <<task, effects, late, heard, reply>>
        /\ reply.state # "streaming"
    BY DEF ReadStale, Streaming
  <1>2. /\ reply \in [state : {"streaming", "finished", "failed", "cancelled"},
                      text : Seq(Pieces), trace : Seq(Outcomes)]
        /\ task.at = "dropped" => reply.state = "cancelled"
    BY DEF IInv, Good, Typed, PhaseOK
  <1>3. QED
    BY <1>1, <1>2, LeaveGood

LEMMA ReadNoneStep ==
    ASSUME IInv, ReadNone, UNCHANGED <<task, permission, late, sent, heard>>
    PROVE  IInv'
  <1>1. /\ Leave /\ reader = "reading" /\ UNCHANGED <<task, effects, late, heard, reply>>
        /\ task.at \in {"done", "dropped"}
    BY DEF ReadNone
  <1>2. /\ reply \in [state : {"streaming", "finished", "failed", "cancelled"},
                      text : Seq(Pieces), trace : Seq(Outcomes)]
        /\ task.at = "dropped" => reply.state = "cancelled"
    BY DEF IInv, Good, Typed, PhaseOK
  <1>3. QED
    BY <1>1, <1>2, LeaveGood

\* The event at the head of the channel, and the others.
LEMMA HeadFacts ==
    ASSUME NEW ch \in Seq(Events), ch # <<>>
    PROVE  /\ Head(ch) = ch[1] /\ Head(ch) \in Events /\ Tail(ch) \in Seq(Events)
           /\ Len(Tail(ch)) = Len(ch) - 1 /\ Len(ch) \in Nat /\ 1 \in 1 .. Len(ch)
           /\ \A i \in 1 .. Len(Tail(ch)) : Tail(ch)[i] = ch[i + 1] /\ i + 1 \in 1 .. Len(ch)
  <1>1. Len(ch) \in Nat /\ Len(ch) # 0 /\ Head(ch) = ch[1]
    OBVIOUS
  <1>2. /\ Head(ch) \in Events /\ Tail(ch) \in Seq(Events) /\ Len(Tail(ch)) = Len(ch) - 1
        /\ \A i \in 1 .. Len(Tail(ch)) : Tail(ch)[i] = ch[i + 1]
    BY HeadTailProperties
  <1>3. QED
    BY <1>1, <1>2

LEMMA ReadEndingStep ==
    ASSUME IInv, ReadEnding, UNCHANGED <<task, permission, late, sent, heard>>
    PROVE  IInv'
  <1>1. /\ Leave /\ reader = "reading" /\ UNCHANGED <<task, effects, late, heard>>
        /\ reply.state = "streaming" /\ channel # <<>> /\ Head(channel).kind \in {"finished", "failed"}
        /\ reply' = [reply EXCEPT !.state = Head(channel).kind]
    BY DEF ReadEnding, Reading, Streaming
  <1>2. /\ reply \in [state : {"streaming", "finished", "failed", "cancelled"},
                      text : Seq(Pieces), trace : Seq(Outcomes)]
        /\ task.at = "dropped" => reply.state = "cancelled"
        /\ channel \in Seq(Events)
    BY DEF IInv, Good, Typed, PhaseOK
  <1>3. /\ Head(channel) = channel[1] /\ 1 \in 1 .. Len(channel) /\ Len(channel) \in Nat
    BY <1>1, <1>2, HeadFacts
  <1>4. task.at = "done" /\ Len(channel) = 1
    BY <1>1, <1>3 DEF IInv, Good, PhaseOK
  <1>5. /\ reply' \in [state : {"streaming", "finished", "failed", "cancelled"},
                       text : Seq(Pieces), trace : Seq(Outcomes)]
        /\ reply'.text = reply.text /\ reply'.trace = reply.trace
        /\ reply'.state = Head(channel).kind
    BY <1>1, <1>2
  <1>6. ASSUME reply'.state = "finished"
        PROVE  /\ late \/ Len(reply.text) = Len(heard)
               /\ reply.trace = task.results /\ Finishes(task, channel)
    <2>1. channel[1].kind = "finished" /\ \A i \in 1 .. Len(channel) : i = 1
      BY <1>3, <1>4, <1>5, <1>6
    <2>2. Finishes(task, channel)
      BY <1>3, <2>1 DEF Finishes
    <2>3. PICK cut \in [0 .. Len(channel) -> 0 .. Len(heard)] :
             Cuts(cut, channel, heard) /\ Whole(cut, task, channel, heard)
      BY DEF IInv, Good, TextOK
    <2>4. cut[1] = cut[1 - 1] /\ cut[0] = Len(reply.text)
      BY <1>3, <2>1, <2>3 DEF Cuts
    <2>5. late \/ cut[Len(channel)] = Len(heard)
      BY <1>1, <2>2, <2>3 DEF Whole
    <2>6. reply.trace = task.results
      BY <1>1, <1>3, <2>1 DEF IInv, Good, TraceOK
    <2>7. QED
      BY <1>4, <2>2, <2>4, <2>5, <2>6
  <1>7. QED
    BY <1>1, <1>2, <1>4, <1>5, <1>6, LeaveGood

LEMMA JoinedText ==
    ASSUME NEW text \in Seq(Pieces), NEW body \in Seq(Pieces),
           \A j \in 1 .. Len(text) : text[j] = heard[j],
           \A j \in 1 .. Len(body) : body[j] = heard[Len(text) + j]
    PROVE  /\ Len(text \o body) = Len(text) + Len(body)
           /\ \A j \in 1 .. Len(text \o body) : (text \o body)[j] = heard[j]
  <1>1. /\ Len(text \o body) = Len(text) + Len(body)
        /\ \A j \in 1 .. Len(text) + Len(body) : (text \o body)[j] =
              IF j <= Len(text) THEN text[j] ELSE body[j - Len(text)]
    BY ConcatProperties
  <1>2. Len(text) \in Nat /\ Len(body) \in Nat
    OBVIOUS
  <1>3. ASSUME NEW j \in 1 .. Len(text) + Len(body), ~(j <= Len(text))
        PROVE  body[j - Len(text)] = heard[j]
    <2>1. j - Len(text) \in 1 .. Len(body) /\ Len(text) + (j - Len(text)) = j
      BY <1>2, <1>3
    <2>2. QED
      BY <2>1
  <1>4. ASSUME NEW j \in 1 .. Len(text) + Len(body), j <= Len(text)
        PROVE  text[j] = heard[j]
    BY <1>2, <1>4
  <1>5. QED
    BY <1>1, <1>3, <1>4

LEMMA NextCuts ==
    ASSUME NEW c \in Seq(Events), channel' = c, heard' = heard, NEW new,
           new[0] = Len(reply'.text), \A j \in 1 .. Len(reply'.text) : reply'.text[j] = heard[j],
           \A i \in 1 .. Len(c) :
              /\ c[i].kind = "delta" =>
                    /\ new[i] = new[i - 1] + Len(c[i].body)
                    /\ \A j \in 1 .. Len(c[i].body) : c[i].body[j] = heard[new[i - 1] + j]
              /\ c[i].kind # "delta" => new[i] = new[i - 1]
    PROVE  Cuts(new, channel, heard)'
  BY DEF Cuts

\* The event at the head is read, and the reader stays.
LEMMA StayGood ==
    ASSUME IInv, reader = "reading", channel # <<>>, channel' = Tail(channel),
           UNCHANGED <<task, reader, host, late, heard>>,
           reply' \in [state : {"streaming", "finished", "failed", "cancelled"},
                       text : Seq(Pieces), trace : Seq(Outcomes)],
           reply.state = "streaming", reply'.state = "streaming",
           effects' \in Seq(1 .. MaxCalls),
           IF Head(channel).kind = "delta"
           THEN reply'.text = reply.text \o Head(channel).body ELSE reply'.text = reply.text,
           IF Head(channel).kind = "trace"
           THEN reply'.trace = Head(channel).body ELSE reply'.trace = reply.trace,
           IF Head(channel).kind = "outfit"
           THEN effects' = Append(effects, Head(channel).body) ELSE effects' = effects
    PROVE  IInv'
  <1>1. /\ Typed(task, channel, heard) /\ PhaseOK(task, channel) /\ TextOK(task, channel, heard)
        /\ AttemptsOK(task, heard) /\ ImageOK(task) /\ PlacesOK(task, channel)
        /\ OutfitsOK(task, channel) /\ TraceOK(task, channel)
    BY DEF IInv, Good
  <1>2. /\ channel \in Seq(Events) /\ effects \in Seq(1 .. MaxCalls) /\ heard \in Seq(Pieces)
        /\ reply.text \in Seq(Pieces)
    BY <1>1 DEF Typed
  <1> DEFINE e == Head(channel)
             c == Tail(channel)
  <1>3. /\ e = channel[1] /\ e \in Events /\ c \in Seq(Events)
        /\ Len(c) = Len(channel) - 1 /\ Len(channel) \in Nat /\ 1 \in 1 .. Len(channel)
        /\ \A i \in 1 .. Len(c) : c[i] = channel[i + 1] /\ i + 1 \in 1 .. Len(channel)
    BY <1>2, HeadFacts
  <1>4. channel' = c
    OBVIOUS
  <1>5. /\ e.kind = "delta" => reply'.text = reply.text \o e.body
        /\ e.kind # "delta" => reply'.text = reply.text
        /\ e.kind = "trace" => reply'.trace = e.body
        /\ e.kind # "trace" => reply'.trace = reply.trace
        /\ e.kind = "outfit" => effects' = Append(effects, e.body)
        /\ e.kind # "outfit" => effects' = effects
    OBVIOUS
  <1> HIDE DEF e, c
  <1>6. Typed(task, channel, heard)'
    BY <1>1, <1>3, <1>4 DEF Typed
  <1>7. PhaseOK(task, channel)'
    <2>1. \A i \in 1 .. Len(c) :
             /\ c[i].kind \in {"finished", "failed"} => i = Len(c) /\ task.at = "done"
             /\ c[i].kind = "trace" => task.at \in Finale /\ c[i].body = task.results
      <3>1. ASSUME NEW i \in 1 .. Len(c)
            PROVE  /\ c[i].kind \in {"finished", "failed"} => i = Len(c) /\ task.at = "done"
                   /\ c[i].kind = "trace" => task.at \in Finale /\ c[i].body = task.results
        <4>1. /\ c[i] = channel[i + 1] /\ i + 1 \in 1 .. Len(channel)
              /\ i + 1 = Len(channel) => i = Len(c)
          BY <1>3
        <4>2. QED
          BY <1>1, <4>1 DEF PhaseOK
      <3>2. QED
        BY <3>1
    <2>2. e.kind = "trace" => task.at \in Finale
      BY <1>1, <1>3 DEF PhaseOK
    <2>3. QED
      BY <1>1, <1>4, <1>5, <2>1, <2>2 DEF PhaseOK
  <1>8. Finishes(task, c) => Finishes(task, channel)
    BY <1>3 DEF Finishes
  <1>9. TextOK(task, channel, heard)'
    <2>1. PICK cut \in [0 .. Len(channel) -> 0 .. Len(heard)] :
             Cuts(cut, channel, heard) /\ Whole(cut, task, channel, heard)
      BY <1>1 DEF TextOK
    <2>2. PICK new \in [0 .. Len(c) -> 0 .. Len(heard)] :
             \A i \in 0 .. Len(c) : new[i] = cut[i + 1]
      <3>1. \A i \in 0 .. Len(c) : cut[i + 1] \in 0 .. Len(heard)
        <4>1. \A i \in 0 .. Len(c) : i + 1 \in 0 .. Len(channel)
          BY <1>3
        <4>2. QED
          BY <2>1, <4>1
      <3>2. [i \in 0 .. Len(c) |-> cut[i + 1]] \in [0 .. Len(c) -> 0 .. Len(heard)]
        BY <3>1
      <3>3. QED
        BY <3>2
    <2>3. /\ new[0] = cut[1] /\ new[Len(c)] = cut[Len(channel)]
          /\ \A i \in 1 .. Len(c) : new[i] = cut[i + 1] /\ new[i - 1] = cut[i]
                                    /\ (i + 1) - 1 = i
      BY <1>3, <2>2
    <2>4. /\ cut[0] = Len(reply.text) /\ cut[1 - 1] = cut[0]
          /\ \A j \in 1 .. Len(reply.text) : reply.text[j] = heard[j]
          /\ e.kind = "delta" =>
                /\ cut[1] = cut[0] + Len(e.body)
                /\ \A j \in 1 .. Len(e.body) : e.body[j] = heard[cut[0] + j]
          /\ e.kind # "delta" => cut[1] = cut[0]
      <3>1. cut[1 - 1] = cut[0]
        OBVIOUS
      <3>2. /\ cut[0] = Len(reply.text)
            /\ \A j \in 1 .. Len(reply.text) : reply.text[j] = heard[j]
        BY <2>1 DEF Cuts
      <3>3. /\ e.kind = "delta" =>
                  /\ cut[1] = cut[1 - 1] + Len(e.body)
                  /\ \A j \in 1 .. Len(e.body) : e.body[j] = heard[cut[1 - 1] + j]
            /\ e.kind # "delta" => cut[1] = cut[1 - 1]
        <4>1. /\ channel[1].kind = "delta" =>
                    /\ cut[1] = cut[1 - 1] + Len(channel[1].body)
                    /\ \A j \in 1 .. Len(channel[1].body) :
                          channel[1].body[j] = heard[cut[1 - 1] + j]
              /\ channel[1].kind # "delta" => cut[1] = cut[1 - 1]
          BY <1>3, <2>1, Zenon DEF Cuts
        <4>2. QED
          BY <1>3, <4>1
      <3>4. QED
        BY <3>1, <3>2, <3>3
    <2>5. /\ cut[1] = Len(reply'.text)
          /\ \A j \in 1 .. Len(reply'.text) : reply'.text[j] = heard[j]
      <3>1. CASE e.kind # "delta"
        BY <1>5, <2>4, <3>1
      <3>2. CASE e.kind = "delta"
        <4>1. e.body \in Seq(Pieces)
          BY <1>3, <3>2 DEF Events
        <4>2. /\ Len(reply.text \o e.body) = Len(reply.text) + Len(e.body)
              /\ \A j \in 1 .. Len(reply.text \o e.body) : (reply.text \o e.body)[j] = heard[j]
          <5>1. /\ \A j \in 1 .. Len(reply.text) : reply.text[j] = heard[j]
                /\ \A j \in 1 .. Len(e.body) : e.body[j] = heard[Len(reply.text) + j]
            BY <2>4, <3>2
          <5>2. QED
            BY <1>2, <4>1, <5>1, JoinedText, Zenon
        <4>3. QED
          BY <1>5, <2>4, <3>2, <4>2
      <3>3. QED
        BY <3>1, <3>2
    <2>6. Cuts(new, channel, heard)'
      <3>1. ASSUME NEW i \in 1 .. Len(c)
            PROVE  /\ c[i].kind = "delta" =>
                        /\ new[i] = new[i - 1] + Len(c[i].body)
                        /\ \A j \in 1 .. Len(c[i].body) : c[i].body[j] = heard[new[i - 1] + j]
                   /\ c[i].kind # "delta" => new[i] = new[i - 1]
        <4>1. c[i] = channel[i + 1] /\ i + 1 \in 1 .. Len(channel)
          BY <1>3
        <4>2. new[i] = cut[i + 1] /\ new[i - 1] = cut[(i + 1) - 1]
          BY <2>3
        <4>3. /\ channel[i + 1].kind = "delta" =>
                    /\ cut[i + 1] = cut[(i + 1) - 1] + Len(channel[i + 1].body)
                    /\ \A j \in 1 .. Len(channel[i + 1].body) :
                          channel[i + 1].body[j] = heard[cut[(i + 1) - 1] + j]
              /\ channel[i + 1].kind # "delta" => cut[i + 1] = cut[(i + 1) - 1]
          BY <2>1, <4>1, Zenon DEF Cuts
        <4>4. QED
          BY <4>1, <4>2, <4>3
      <3>2. heard' = heard /\ new[0] = Len(reply'.text)
        BY <2>3, <2>5
      <3>3. QED
        BY <1>3, <1>4, <2>5, <3>1, <3>2, NextCuts
    <2>7. Whole(new, task, channel, heard)'
      BY <1>4, <1>8, <2>1, <2>3 DEF Whole, Finishes
    <2>8. new \in [0 .. Len(channel') -> 0 .. Len(heard')]
      BY <1>4, <2>2
    <2>9. QED
      BY <2>6, <2>7, <2>8 DEF TextOK
  <1>10. AttemptsOK(task, heard)' /\ ImageOK(task)'
    BY <1>1 DEF AttemptsOK, ImageOK
  <1>11. PlacesOK(task, channel)'
    <2>1. \A i \in 1 .. Len(channel) : channel[i].kind = "outfit" =>
             /\ host.answers[channel[i].body] = "none" /\ host.applying # channel[i].body
             /\ \A f \in 1 .. Len(effects) : effects[f] # channel[i].body
             /\ \A j \in 1 .. Len(channel) :
                   (j # i /\ channel[j].kind = "outfit") => channel[j].body # channel[i].body
      BY <1>1 DEF PlacesOK
    <2>2. \A f \in 1 .. Len(effects) :
             /\ host.answers[effects[f]] = "none" /\ host.applying # effects[f]
             /\ \A g \in 1 .. Len(effects) : g # f => effects[g] # effects[f]
      BY <1>1 DEF PlacesOK
    <2>3. \A f \in 1 .. Len(effects') :
             \/ f \in 1 .. Len(effects) /\ effects'[f] = effects[f]
             \/ f = Len(effects) + 1 /\ e.kind = "outfit" /\ effects'[f] = e.body
      <3>1. CASE e.kind = "outfit"
        <4>1. e.body \in 1 .. MaxCalls
          BY <1>3, <3>1 DEF Events
        <4>2. QED
          BY <1>2, <1>5, <3>1, <4>1
      <3>2. CASE e.kind # "outfit"
        BY <1>5, <3>2
      <3>3. QED
        BY <3>1, <3>2
    <2>4. \A i \in 1 .. Len(c) : c[i].kind = "outfit" =>
             /\ host.answers[c[i].body] = "none" /\ host.applying # c[i].body
             /\ \A f \in 1 .. Len(effects') : effects'[f] # c[i].body
             /\ \A j \in 1 .. Len(c) : (j # i /\ c[j].kind = "outfit") => c[j].body # c[i].body
      <3>1. ASSUME NEW i \in 1 .. Len(c), c[i].kind = "outfit"
            PROVE  /\ host.answers[c[i].body] = "none" /\ host.applying # c[i].body
                   /\ \A f \in 1 .. Len(effects') : effects'[f] # c[i].body
                   /\ \A j \in 1 .. Len(c) : (j # i /\ c[j].kind = "outfit") => c[j].body # c[i].body
        <4>1. c[i] = channel[i + 1] /\ i + 1 \in 1 .. Len(channel) /\ i + 1 # 1
          BY <1>3
        <4>2. e.kind = "outfit" => e.body # c[i].body
          <5>1. /\ channel[i + 1].kind = "outfit" /\ 1 # i + 1
                /\ \A j \in 1 .. Len(channel) :
                      (j # i + 1 /\ channel[j].kind = "outfit") => channel[j].body # channel[i + 1].body
            BY <2>1, <3>1, <4>1
          <5>2. QED
            BY <1>3, <4>1, <5>1
        <4>3. \A f \in 1 .. Len(effects') : effects'[f] # c[i].body
          BY <2>1, <2>3, <3>1, <4>1, <4>2
        <4>4. \A j \in 1 .. Len(c) : j # i =>
                 c[j] = channel[j + 1] /\ j + 1 \in 1 .. Len(channel) /\ j + 1 # i + 1
          BY <1>3
        <4>5. \A j \in 1 .. Len(c) : (j # i /\ c[j].kind = "outfit") => c[j].body # c[i].body
          BY <2>1, <3>1, <4>1, <4>4
        <4>6. host.answers[c[i].body] = "none" /\ host.applying # c[i].body
          BY <2>1, <3>1, <4>1
        <4>7. QED
          BY <4>3, <4>5, <4>6
      <3>2. QED
        BY <3>1
    <2>5. \A f \in 1 .. Len(effects') :
             /\ host.answers[effects'[f]] = "none" /\ host.applying # effects'[f]
             /\ \A g \in 1 .. Len(effects') : g # f => effects'[g] # effects'[f]
      <3>1. e.kind = "outfit" =>
               /\ host.answers[e.body] = "none" /\ host.applying # e.body
               /\ \A f \in 1 .. Len(effects) : effects[f] # e.body
        BY <1>3, <2>1
      <3>2. ASSUME NEW f \in 1 .. Len(effects')
            PROVE  host.answers[effects'[f]] = "none" /\ host.applying # effects'[f]
        <4>1. CASE f \in 1 .. Len(effects) /\ effects'[f] = effects[f]
          BY <2>2, <4>1
        <4>2. CASE e.kind = "outfit" /\ effects'[f] = e.body
          BY <3>1, <4>2
        <4>3. QED
          BY <2>3, <3>2, <4>1, <4>2
      <3>3. ASSUME NEW f \in 1 .. Len(effects'), NEW g \in 1 .. Len(effects'), g # f
            PROVE  effects'[g] # effects'[f]
        <4>1. CASE f \in 1 .. Len(effects) /\ effects'[f] = effects[f]
          <5>1. CASE g \in 1 .. Len(effects) /\ effects'[g] = effects[g]
            BY <2>2, <3>3, <4>1, <5>1
          <5>2. CASE e.kind = "outfit" /\ effects'[g] = e.body
            BY <3>1, <4>1, <5>2
          <5>3. QED
            BY <2>3, <3>3, <5>1, <5>2
        <4>2. CASE f = Len(effects) + 1 /\ e.kind = "outfit" /\ effects'[f] = e.body
          <5>1. g \in 1 .. Len(effects) /\ effects'[g] = effects[g]
            BY <2>3, <3>3, <4>2
          <5>2. QED
            BY <3>1, <4>2, <5>1
        <4>3. QED
          BY <2>3, <3>3, <4>1, <4>2
      <3>4. QED
        BY <3>2, <3>3
    <2>6. ASSUME NEW id \in 1 .. MaxCalls, id > Len(task.results), ~Asked(task, id)
          PROVE  /\ host.answers[id] = "none" /\ host.applying # id
                 /\ \A f \in 1 .. Len(effects') : effects'[f] # id
                 /\ \A i \in 1 .. Len(c) : c[i].kind = "outfit" => c[i].body # id
      <3>1. /\ host.answers[id] = "none" /\ host.applying # id
            /\ \A f \in 1 .. Len(effects) : effects[f] # id
            /\ \A i \in 1 .. Len(channel) : channel[i].kind = "outfit" => channel[i].body # id
        BY <1>1, <2>6 DEF PlacesOK
      <3>2. \A i \in 1 .. Len(c) : c[i].kind = "outfit" => c[i].body # id
        BY <1>3, <3>1
      <3>3. e.kind = "outfit" => e.body # id
        BY <1>3, <3>1
      <3>4. QED
        BY <2>3, <3>1, <3>2, <3>3
    <2>7. host.applying # 0 => host.answers[host.applying] = "none"
      BY <1>1 DEF PlacesOK
    <2>8. /\ task' = task /\ host' = host /\ channel' = c
          /\ \A id : Asked(task, id)' = Asked(task, id)
      BY <1>4 DEF Asked
    <2>9. \A i \in 1 .. Len(channel') : channel'[i].kind = "outfit" =>
             /\ host'.answers[channel'[i].body] = "none" /\ host'.applying # channel'[i].body
             /\ \A f \in 1 .. Len(effects') : effects'[f] # channel'[i].body
             /\ \A j \in 1 .. Len(channel') :
                   (j # i /\ channel'[j].kind = "outfit") => channel'[j].body # channel'[i].body
      BY <2>4, <2>8
    <2>10. \A id \in 1 .. MaxCalls : (id > Len(task'.results) /\ ~Asked(task, id)') =>
              /\ host'.answers[id] = "none" /\ host'.applying # id
              /\ \A f \in 1 .. Len(effects') : effects'[f] # id
              /\ \A i \in 1 .. Len(channel') : channel'[i].kind = "outfit" => channel'[i].body # id
      BY <2>6, <2>8
    <2>11. QED
      BY <2>5, <2>7, <2>8, <2>9, <2>10 DEF PlacesOK
  <1>12. OutfitsOK(task, channel)'
    <2>1. ~Finishes(task, channel) => ~Finishes(task, channel)'
      BY <1>4, <1>8 DEF Finishes
    <2>2. OutfitsOK(task, channel)
      BY <1>1
    <2>3. QED
      BY <2>1, <2>2 DEF OutfitsOK, Asked, Settled
  <1>13. TraceOK(task, channel)'
    <2>1. e.kind = "trace" => e.body = task.results
      BY <1>1, <1>3 DEF PhaseOK
    <2>2. ASSUME NEW i \in 1 .. Len(c), c[i].kind = "finished"
          PROVE  \E j \in 1 .. Len(channel) : channel[j].kind = "finished"
      BY <1>3, <2>2
    <2>3. ASSUME \E i \in 1 .. Len(channel) : channel[i].kind = "trace", e.kind # "trace"
          PROVE  \E i \in 1 .. Len(c) : c[i].kind = "trace"
      <3>1. PICK i \in 1 .. Len(channel) : channel[i].kind = "trace"
        BY <2>3
      <3>2. i # 1 /\ i - 1 \in 1 .. Len(c) /\ (i - 1) + 1 = i
        BY <1>3, <2>3, <3>1
      <3>3. c[i - 1] = channel[i]
        BY <1>3, <3>2
      <3>4. QED
        BY <3>1, <3>2, <3>3
    <2>4. QED
      BY <1>1, <1>4, <1>5, <2>1, <2>2, <2>3 DEF TraceOK
  <1>14. QED
    BY <1>6, <1>7, <1>9, <1>10, <1>11, <1>12, <1>13 DEF IInv, Good

LEMMA ReadEventStep ==
    ASSUME IInv, ReadDelta \/ ReadTrace \/ ReadOutfit,
           UNCHANGED <<task, permission, late, sent, heard>>
    PROVE  IInv'
  <1>1. /\ reader = "reading" /\ channel # <<>> /\ reply.state = "streaming"
        /\ UNCHANGED <<task, late, heard>>
    BY DEF ReadDelta, ReadTrace, ReadOutfit, Reading, Streaming
  <1>2. /\ reply \in [state : {"streaming", "finished", "failed", "cancelled"},
                      text : Seq(Pieces), trace : Seq(Outcomes)]
        /\ task.at # "dropped" /\ channel \in Seq(Events) /\ effects \in Seq(1 .. MaxCalls)
    BY <1>1 DEF IInv, Good, Typed, PhaseOK
  <1>3. Head(channel) \in Events
    BY <1>1, <1>2, HeadFacts
  <1>4. CASE /\ Head(channel).kind = "delta" /\ Stay /\ effects' = effects
             /\ reply' = [reply EXCEPT !.text = @ \o Head(channel).body]
    <2>1. Head(channel).body \in Seq(Pieces)
      BY <1>3, <1>4 DEF Events
    <2>2. reply.text \o Head(channel).body \in Seq(Pieces)
      BY <1>2, <2>1, ConcatProperties
    <2>3. /\ reply' \in [state : {"streaming", "finished", "failed", "cancelled"},
                         text : Seq(Pieces), trace : Seq(Outcomes)]
          /\ reply'.text = reply.text \o Head(channel).body
          /\ reply'.trace = reply.trace /\ reply'.state = "streaming"
      BY <1>1, <1>2, <1>4, <2>2
    <2>4. QED
      BY <1>1, <1>2, <1>4, <2>3, StayGood DEF Stay
  <1>5. CASE /\ Head(channel).kind = "delta" /\ Leave /\ effects' = effects
             /\ reply' = [reply EXCEPT !.state = "failed"]
    <2>1. /\ reply' \in [state : {"streaming", "finished", "failed", "cancelled"},
                         text : Seq(Pieces), trace : Seq(Outcomes)]
          /\ reply'.text = reply.text /\ reply'.trace = reply.trace /\ reply'.state = "failed"
      BY <1>2, <1>5
    <2>2. QED
      BY <1>1, <1>2, <1>5, <2>1, LeaveGood
  <1>6. CASE /\ Head(channel).kind = "trace" /\ Stay /\ effects' = effects
             /\ reply' = [reply EXCEPT !.trace = Head(channel).body]
    <2>1. Head(channel).body \in Seq(Outcomes)
      BY <1>3, <1>6 DEF Events
    <2>2. /\ reply' \in [state : {"streaming", "finished", "failed", "cancelled"},
                         text : Seq(Pieces), trace : Seq(Outcomes)]
          /\ reply'.trace = Head(channel).body
          /\ reply'.text = reply.text /\ reply'.state = "streaming"
      BY <1>1, <1>2, <1>6, <2>1
    <2>3. QED
      BY <1>1, <1>2, <1>6, <2>2, StayGood DEF Stay
  <1>7. CASE /\ Head(channel).kind = "outfit" /\ channel' = Tail(channel)
             /\ effects' = Append(effects, Head(channel).body)
             /\ UNCHANGED <<reader, reply, host>>
    <2>1. Head(channel).body \in 1 .. MaxCalls
      BY <1>3, <1>7 DEF Events
    <2>2. effects' \in Seq(1 .. MaxCalls)
      BY <1>2, <1>7, <2>1
    <2>3. QED
      BY <1>1, <1>2, <1>7, <2>2, StayGood
  <1>8. QED
    BY <1>4, <1>5, <1>6, <1>7 DEF ReadDelta, ReadTrace, ReadOutfit, Reading

LEMMA ReturnStep ==
    ASSUME IInv, Return, UNCHANGED <<task, permission, late, sent, heard>>
    PROVE  IInv'
  <1>1. /\ Typed(task, channel, heard) /\ PhaseOK(task, channel) /\ TextOK(task, channel, heard)
        /\ AttemptsOK(task, heard) /\ ImageOK(task) /\ PlacesOK(task, channel)
        /\ OutfitsOK(task, channel) /\ TraceOK(task, channel)
    BY DEF IInv, Good
  <1>2. /\ reader = "joining" /\ reader' = "returned" /\ task.at \in {"done", "dropped"}
        /\ UNCHANGED <<task, channel, effects, host, late, heard>>
        /\ reply' = reply \/ (task.at = "done" /\ reply' = [reply EXCEPT !.state = "failed"])
    BY DEF Return
  <1>3. /\ reply' \in [state : {"streaming", "finished", "failed", "cancelled"},
                       text : Seq(Pieces), trace : Seq(Outcomes)]
        /\ reply'.text = reply.text /\ reply'.trace = reply.trace
        /\ reply'.state # reply.state => reply'.state = "failed" /\ task.at = "done"
    BY <1>1, <1>2 DEF Typed
  <1>4. Typed(task, channel, heard)'
    BY <1>1, <1>2, <1>3 DEF Typed
  <1>5. PhaseOK(task, channel)'
    BY <1>1, <1>2, <1>3 DEF PhaseOK
  <1>6. TextOK(task, channel, heard)'
    <2>1. PICK cut \in [0 .. Len(channel) -> 0 .. Len(heard)] :
             Cuts(cut, channel, heard) /\ Whole(cut, task, channel, heard)
      BY <1>1 DEF TextOK
    <2>2. Cuts(cut, channel, heard)'
      BY <1>2, <1>3, <2>1 DEF Cuts
    <2>3. Whole(cut, task, channel, heard)'
      BY <1>2 DEF Whole
    <2>4. reply'.state = "finished" => late' \/ Len(reply'.text) = Len(heard')
      BY <1>1, <1>2, <1>3 DEF TextOK
    <2>5. cut \in [0 .. Len(channel') -> 0 .. Len(heard')]
      BY <1>2, <2>1
    <2>6. QED
      BY <2>2, <2>3, <2>4, <2>5 DEF TextOK
  <1>7. AttemptsOK(task, heard)' /\ ImageOK(task)'
    BY <1>1, <1>2 DEF AttemptsOK, ImageOK
  <1>8. PlacesOK(task, channel)'
    BY <1>1, <1>2 DEF PlacesOK, Asked
  <1>9. OutfitsOK(task, channel)'
    BY <1>1, <1>2, <1>3 DEF OutfitsOK, Asked, Settled, Finishes
  <1>10. TraceOK(task, channel)'
    BY <1>1, <1>2, <1>3 DEF TraceOK
  <1>11. QED
    BY <1>4, <1>5, <1>6, <1>7, <1>8, <1>9, <1>10 DEF IInv, Good

LEMMA AgentStep ==
    ASSUME IInv, AgentNext
    PROVE  IInv'
  BY ReadStaleStep, ReadEventStep, ReadEndingStep, ReadNoneStep, ReturnStep DEF AgentNext

-----------------------------------------------------------------------------
(* The user, the window and the clock.                                      *)

LEMMA CancelStep ==
    ASSUME IInv, Cancel
    PROVE  IInv'
  <1>1. /\ Typed(task, channel, heard) /\ PhaseOK(task, channel) /\ TextOK(task, channel, heard)
        /\ AttemptsOK(task, heard) /\ ImageOK(task) /\ PlacesOK(task, channel)
        /\ OutfitsOK(task, channel) /\ TraceOK(task, channel)
    BY DEF IInv, Good
  <1>2. /\ UNCHANGED <<task, channel, reader, effects, host, late, heard>>
        /\ reply.state = "streaming" /\ reply' = [reply EXCEPT !.state = "cancelled"]
    BY DEF Cancel, Streaming
  <1>3. /\ reply' \in [state : {"streaming", "finished", "failed", "cancelled"},
                       text : Seq(Pieces), trace : Seq(Outcomes)]
        /\ reply'.text = reply.text /\ reply'.trace = reply.trace /\ reply'.state = "cancelled"
    BY <1>1, <1>2 DEF Typed
  <1>4. Typed(task, channel, heard)'
    BY <1>1, <1>2, <1>3 DEF Typed
  <1>5. PhaseOK(task, channel)'
    BY <1>1, <1>2, <1>3 DEF PhaseOK
  <1>6. TextOK(task, channel, heard)'
    <2>1. PICK cut \in [0 .. Len(channel) -> 0 .. Len(heard)] :
             Cuts(cut, channel, heard) /\ Whole(cut, task, channel, heard)
      BY <1>1 DEF TextOK
    <2>2. Cuts(cut, channel, heard)'
      BY <1>2, <1>3, <2>1 DEF Cuts
    <2>3. Whole(cut, task, channel, heard)'
      BY <1>2, <2>1 DEF Whole, Finishes
    <2>4. cut \in [0 .. Len(channel') -> 0 .. Len(heard')]
      BY <1>2, <2>1
    <2>5. QED
      BY <1>3, <2>2, <2>3, <2>4 DEF TextOK
  <1>7. AttemptsOK(task, heard)' /\ ImageOK(task)'
    BY <1>1, <1>2 DEF AttemptsOK, ImageOK
  <1>8. PlacesOK(task, channel)'
    BY <1>1, <1>2 DEF PlacesOK, Asked
  <1>9. OutfitsOK(task, channel)'
    BY <1>1, <1>2, <1>3 DEF OutfitsOK, Asked, Settled, Finishes
  <1>10. TraceOK(task, channel)'
    BY <1>1, <1>2, <1>3 DEF TraceOK
  <1>11. QED
    BY <1>4, <1>5, <1>6, <1>7, <1>8, <1>9, <1>10 DEF IInv, Good

LEMMA AbortedStep ==
    ASSUME IInv, Aborted
    PROVE  IInv'
  <1> DEFINE u == [task EXCEPT !.at = "dropped"]
  <1>1. /\ Typed(task, channel, heard) /\ PhaseOK(task, channel) /\ TextOK(task, channel, heard)
        /\ AttemptsOK(task, heard) /\ ImageOK(task) /\ PlacesOK(task, channel)
        /\ OutfitsOK(task, channel) /\ TraceOK(task, channel)
    BY DEF IInv, Good
  <1>2. /\ UNCHANGED <<channel, reader, reply, effects, host, late, heard>> /\ task' = u
        /\ reply.state = "cancelled" /\ task.at \notin {"done", "dropped"}
    BY DEF Aborted, agent
  <1>3. task \in Tasks
    BY <1>1 DEF Typed
  <1>4. /\ u \in Tasks /\ Keeps(task, u) /\ u.at = "dropped" /\ u.pending = task.pending
        /\ u.calls = task.calls /\ u.started = task.started /\ u.retries = task.retries
    <2>1. u \in Tasks
      BY <1>3 DEF Tasks, Finale
    <2>2. QED
      BY <1>3, <2>1 DEF Tasks, Keeps
  <1> HIDE DEF u
  <1>5. \A i \in 1 .. Len(channel) : channel[i].kind \notin {"finished", "failed"}
    BY <1>1, <1>2 DEF PhaseOK
  <1>6. ~Finishes(u, channel)
    BY <1>4, <1>5 DEF Finishes
  <1>7. Typed(u, channel, heard)
    BY <1>1, <1>4 DEF Typed
  <1>8. PhaseOK(u, channel)
    BY <1>1, <1>2, <1>4, <1>5 DEF PhaseOK, Keeps, Before, Asking, Finale
  <1>9. TextOK(u, channel, heard)
    BY <1>1, <1>4, <1>6 DEF TextOK, Whole, Finale
  <1>10. AttemptsOK(u, heard) /\ ImageOK(u)
    BY <1>1, <1>4 DEF AttemptsOK, ImageOK, Keeps, Before, Asking
  <1>11. \A id : Asked(task, id) => Asked(u, id)
    BY <1>4 DEF Asked, Keeps
  <1>12. PlacesOK(u, channel)
    BY <1>1, <1>4, <1>11 DEF PlacesOK, Keeps
  <1>13. OutfitsOK(u, channel)
    BY <1>1, <1>2, <1>4, <1>6 DEF OutfitsOK, Keeps, Finale
  <1>14. TraceOK(u, channel)
    BY <1>1, <1>2, <1>4, <1>5 DEF TraceOK
  <1>15. Good(task', channel', heard')
    BY <1>2, <1>7, <1>8, <1>9, <1>10, <1>12, <1>13, <1>14 DEF Good
  <1>16. QED
    BY <1>2, <1>15, TaskFrame

\* Nothing in the invariant speaks of the permission, and a deadline that has
\* passed only excuses.
LEMMA TimeStep ==
    ASSUME IInv, Revoke \/ Clock \/ UNCHANGED vars
    PROVE  IInv'
  <1>1. CASE Revoke \/ UNCHANGED vars
    <2>1. /\ UNCHANGED <<reader, reply, effects, host, late>>
          /\ UNCHANGED <<task, channel, heard>>
      BY <1>1 DEF Revoke, agent, vars
    <2>2. QED
      BY <2>1, TaskFrame DEF IInv
  <1>2. CASE Clock
    <2>1. /\ Typed(task, channel, heard) /\ PhaseOK(task, channel) /\ TextOK(task, channel, heard)
          /\ AttemptsOK(task, heard) /\ ImageOK(task) /\ PlacesOK(task, channel)
          /\ OutfitsOK(task, channel) /\ TraceOK(task, channel)
      BY DEF IInv, Good
    <2>2. /\ UNCHANGED <<task, channel, reader, reply, effects, host, heard>> /\ late' = TRUE
      BY <1>2 DEF Clock, agent
    <2>3. Typed(task, channel, heard)' /\ PhaseOK(task, channel)'
      BY <2>1, <2>2 DEF Typed, PhaseOK
    <2>4. TextOK(task, channel, heard)'
      <3>1. PICK cut \in [0 .. Len(channel) -> 0 .. Len(heard)] :
               Cuts(cut, channel, heard) /\ Whole(cut, task, channel, heard)
        BY <2>1 DEF TextOK
      <3>2. Cuts(cut, channel, heard)'
        BY <2>2, <3>1 DEF Cuts
      <3>3. Whole(cut, task, channel, heard)'
        BY <2>2, <3>1 DEF Whole
      <3>4. cut \in [0 .. Len(channel') -> 0 .. Len(heard')]
        BY <2>2, <3>1
      <3>5. QED
        BY <2>2, <3>2, <3>3, <3>4 DEF TextOK
    <2>5. AttemptsOK(task, heard)' /\ ImageOK(task)'
      BY <2>1, <2>2 DEF AttemptsOK, ImageOK
    <2>6. PlacesOK(task, channel)'
      BY <2>1, <2>2 DEF PlacesOK, Asked
    <2>7. OutfitsOK(task, channel)'
      BY <2>1, <2>2 DEF OutfitsOK, Asked, Settled, Finishes
    <2>8. TraceOK(task, channel)'
      BY <2>1, <2>2 DEF TraceOK
    <2>9. QED
      BY <2>3, <2>4, <2>5, <2>6, <2>7, <2>8 DEF IInv, Good
  <1>3. QED
    BY <1>1, <1>2

\* What the window does changes neither the text nor the trace.
LEMMA HostFrame ==
    ASSUME IInv, UNCHANGED <<task, channel, reader, reply, late, heard>>,
           effects' \in Seq(1 .. MaxCalls),
           host' \in [applying : 0 .. MaxCalls, applied : SUBSET (1 .. MaxCalls),
                      answers : [1 .. MaxCalls -> {"none", "applied", "failed"}]],
           PlacesOK(task, channel)', OutfitsOK(task, channel)'
    PROVE  IInv'
  <1>1. /\ Typed(task, channel, heard) /\ PhaseOK(task, channel) /\ TextOK(task, channel, heard)
        /\ AttemptsOK(task, heard) /\ ImageOK(task) /\ TraceOK(task, channel)
    BY DEF IInv, Good
  <1>2. Typed(task, channel, heard)' /\ PhaseOK(task, channel)'
    BY <1>1 DEF Typed, PhaseOK
  <1>3. TextOK(task, channel, heard)'
    <2>1. PICK cut \in [0 .. Len(channel) -> 0 .. Len(heard)] :
             Cuts(cut, channel, heard) /\ Whole(cut, task, channel, heard)
      BY <1>1 DEF TextOK
    <2>2. Cuts(cut, channel, heard)'
      BY <2>1 DEF Cuts
    <2>3. Whole(cut, task, channel, heard)'
      BY <2>1 DEF Whole, Finishes
    <2>4. reply'.state = "finished" => late' \/ Len(reply'.text) = Len(heard')
      BY <1>1 DEF TextOK
    <2>5. cut \in [0 .. Len(channel') -> 0 .. Len(heard')]
      BY <2>1
    <2>6. QED
      BY <2>2, <2>3, <2>4, <2>5 DEF TextOK
  <1>4. AttemptsOK(task, heard)' /\ ImageOK(task)' /\ TraceOK(task, channel)'
    BY <1>1 DEF AttemptsOK, ImageOK, TraceOK
  <1>5. QED
    BY <1>2, <1>3, <1>4 DEF IInv, Good

LEMMA ResultIndex ==
    ASSUME IInv
    PROVE  \A k \in 1 .. Len(task.results) : k \in 1 .. MaxCalls
  <1>1. task.results \in Seq(Outcomes) /\ Len(task.results) <= MaxCalls
    BY DEF IInv, Good, Typed, Tasks, PhaseOK
  <1>2. Len(task.results) \in Nat
    BY <1>1
  <1>3. QED
    BY <1>1, <1>2, ReplyAssumption

LEMMA HostTakesStep ==
    ASSUME IInv, HostTakes, UNCHANGED <<task, channel, reader, reply, permission, late, sent, heard>>
    PROVE  IInv'
  <1> DEFINE id == Head(effects)
             rest == Tail(effects)
  <1>1. /\ PlacesOK(task, channel) /\ OutfitsOK(task, channel) /\ effects \in Seq(1 .. MaxCalls)
        /\ host \in [applying : 0 .. MaxCalls, applied : SUBSET (1 .. MaxCalls),
                     answers : [1 .. MaxCalls -> {"none", "applied", "failed"}]]
    BY DEF IInv, Good, Typed
  <1>2. /\ effects # <<>> /\ host.applying = 0 /\ effects' = rest
        /\ \/ Waited(id) /\ host' = [host EXCEPT !.applying = id]
           \/ host' = [host EXCEPT !.answers[id] = "failed"]
    BY DEF HostTakes
  <1>3. /\ id = effects[1] /\ 1 \in 1 .. Len(effects) /\ Len(effects) \in Nat
        /\ id \in 1 .. MaxCalls /\ rest \in Seq(1 .. MaxCalls) /\ Len(rest) = Len(effects) - 1
        /\ \A e \in 1 .. Len(rest) : rest[e] = effects[e + 1]
    <2>1. Len(effects) \in Nat /\ Len(effects) # 0 /\ id = effects[1]
      BY <1>1, <1>2
    <2>2. /\ id \in 1 .. MaxCalls /\ rest \in Seq(1 .. MaxCalls) /\ Len(rest) = Len(effects) - 1
          /\ \A e \in 1 .. Len(rest) : rest[e] = effects[e + 1]
      BY <1>1, <1>2, HeadTailProperties
    <2>3. QED
      BY <2>1, <2>2
  <1> HIDE DEF id, rest
  <1>4. \A e \in 1 .. Len(rest) : e + 1 \in 1 .. Len(effects) /\ e + 1 # 1
    BY <1>3
  <1>5. /\ host.answers[id] = "none"
        /\ \A e \in 1 .. Len(rest) : rest[e] # id
        /\ \A i \in 1 .. Len(channel) : channel[i].kind = "outfit" => channel[i].body # id
        /\ id > Len(task.results) => Asked(task, id)
    BY <1>1, <1>3, <1>4 DEF PlacesOK
  <1>6. /\ host' \in [applying : 0 .. MaxCalls, applied : SUBSET (1 .. MaxCalls),
                      answers : [1 .. MaxCalls -> {"none", "applied", "failed"}]]
        /\ host'.applied = host.applied
        /\ \A k \in 1 .. MaxCalls : k # id => host'.answers[k] = host.answers[k]
        /\ \/ Waited(id) /\ host'.applying = id /\ host'.answers[id] = "none"
           \/ host'.applying = 0 /\ host'.answers[id] = "failed"
    <2>1. id \in 0 .. MaxCalls
      BY <1>3, ReplyAssumption
    <2>2. CASE Waited(id) /\ host' = [host EXCEPT !.applying = id]
      BY <1>1, <1>3, <1>5, <2>1, <2>2
    <2>3. CASE host' = [host EXCEPT !.answers[id] = "failed"]
      BY <1>1, <1>2, <1>3, <2>3
    <2>4. QED
      BY <1>2, <2>2, <2>3
  <1>7. \A i \in 1 .. Len(channel) : channel[i].kind = "outfit" => channel[i].body \in 1 .. MaxCalls
    <2>1. channel \in Seq(Events)
      BY DEF IInv, Good, Typed
    <2>2. \A i \in 1 .. Len(channel) : channel[i] \in Events
      BY <2>1
    <2>3. QED
      BY <2>2 DEF Events
  <1>8. \A e \in 1 .. Len(rest) : rest[e] \in 1 .. MaxCalls
    BY <1>3, ElementOfSeq
  <1>9. PlacesOK(task, channel)'
    <2>1. \A i \in 1 .. Len(channel) : channel[i].kind = "outfit" =>
             /\ host'.answers[channel[i].body] = "none" /\ host'.applying # channel[i].body
             /\ \A e \in 1 .. Len(rest) : rest[e] # channel[i].body
             /\ \A j \in 1 .. Len(channel) :
                   (j # i /\ channel[j].kind = "outfit") => channel[j].body # channel[i].body
      <3>1. ASSUME NEW i \in 1 .. Len(channel), channel[i].kind = "outfit"
            PROVE  /\ host'.answers[channel[i].body] = "none" /\ host'.applying # channel[i].body
                   /\ \A e \in 1 .. Len(rest) : rest[e] # channel[i].body
        <4>1. channel[i].body \in 1 .. MaxCalls /\ channel[i].body # id /\ channel[i].body # 0
          BY <1>5, <1>7, <3>1
        <4>2. /\ host.answers[channel[i].body] = "none"
              /\ \A e \in 1 .. Len(effects) : effects[e] # channel[i].body
          BY <1>1, <3>1 DEF PlacesOK
        <4>3. QED
          BY <1>3, <1>4, <1>6, <4>1, <4>2
      <3>2. QED
        BY <1>1, <3>1 DEF PlacesOK
    <2>2. \A e \in 1 .. Len(rest) :
             /\ host'.answers[rest[e]] = "none" /\ host'.applying # rest[e]
             /\ \A f \in 1 .. Len(rest) : f # e => rest[f] # rest[e]
      <3>1. ASSUME NEW e \in 1 .. Len(rest)
            PROVE  /\ host'.answers[rest[e]] = "none" /\ host'.applying # rest[e]
                   /\ \A f \in 1 .. Len(rest) : f # e => rest[f] # rest[e]
        <4>1. rest[e] \in 1 .. MaxCalls /\ rest[e] # id /\ rest[e] # 0 /\ rest[e] = effects[e + 1]
          BY <1>3, <1>5, <1>8
        <4>2. /\ host.answers[rest[e]] = "none"
              /\ \A f \in 1 .. Len(effects) : f # e + 1 => effects[f] # rest[e]
          BY <1>1, <1>4, <4>1 DEF PlacesOK
        <4>3. \A f \in 1 .. Len(rest) : f # e =>
                 f + 1 # e + 1 /\ f + 1 \in 1 .. Len(effects) /\ rest[f] = effects[f + 1]
          BY <1>3, <1>4
        <4>4. QED
          BY <1>6, <4>1, <4>2, <4>3
      <3>2. QED
        BY <3>1
    <2>3. host'.applying # 0 => host'.answers[host'.applying] = "none"
      BY <1>6
    <2>4. ASSUME NEW k \in 1 .. MaxCalls, k > Len(task.results), ~Asked(task, k)
          PROVE  /\ host'.answers[k] = "none" /\ host'.applying # k
                 /\ \A e \in 1 .. Len(rest) : rest[e] # k
                 /\ \A i \in 1 .. Len(channel) : channel[i].kind = "outfit" => channel[i].body # k
      <3>1. k # id /\ k # 0
        BY <1>5, <2>4
      <3>2. /\ host.answers[k] = "none"
            /\ \A e \in 1 .. Len(effects) : effects[e] # k
            /\ \A i \in 1 .. Len(channel) : channel[i].kind = "outfit" => channel[i].body # k
        BY <1>1, <2>4 DEF PlacesOK
      <3>3. QED
        BY <1>3, <1>4, <1>6, <3>1, <3>2
    <2>5. /\ task' = task /\ channel' = channel /\ effects' = rest
          /\ \A k : Asked(task, k)' = Asked(task, k)
      BY <1>2 DEF Asked
    <2>6. QED
      BY <2>1, <2>2, <2>3, <2>4, <2>5 DEF PlacesOK
  <1>10. OutfitsOK(task, channel)'
    <2>1. /\ task' = task /\ channel' = channel /\ late' = late /\ reply' = reply
          /\ \A k : Asked(task, k)' = Asked(task, k)
          /\ Finishes(task, channel)' = Finishes(task, channel)
      BY DEF Asked, Finishes
    <2>2. \A k \in 1 .. MaxCalls : k \in host'.applied <=> host'.answers[k] = "applied"
      BY <1>1, <1>5, <1>6 DEF OutfitsOK
    <2>3. ASSUME NEW k \in 1 .. Len(task.results), task.results[k] = "changed"
          PROVE  host'.answers[k] = "applied"
      <3>1. host.answers[k] = "applied"
        BY <1>1, <2>3 DEF OutfitsOK
      <3>2. k \in 1 .. MaxCalls
        BY ResultIndex
      <3>3. QED
        BY <1>5, <1>6, <3>1, <3>2
    <2>4. ASSUME NEW k \in 1 .. MaxCalls
          PROVE  Settled(task, k) => Settled(task, k)' \/ Asked(task, k)
      <3>1. CASE k # id
        BY <1>2, <1>6, <2>1, <3>1 DEF Settled
      <3>2. CASE k = id /\ Waited(id)
        BY <3>2 DEF Waited, Asked
      <3>3. CASE k = id /\ ~Waited(id)
        <4>1. host'.applying # k /\ host'.answers[k] # "applied"
          BY <1>3, <1>6, <3>3
        <4>2. QED
          BY <4>1 DEF Settled
      <3>4. QED
        BY <3>1, <3>2, <3>3
    <2>5. \A k \in 1 .. MaxCalls :
             \/ Settled(task, k)' \/ Asked(task, k)
             \/ late /\ task.at \in Asking \cup {"attempt"}
             \/ task.at \in Finale /\ ~Finishes(task, channel) /\ reply.state # "finished"
      BY <1>1, <2>4 DEF OutfitsOK
    <2>6. QED
      BY <2>1, <2>2, <2>3, <2>5 DEF OutfitsOK
  <1>11. QED
    BY <1>2, <1>3, <1>6, <1>9, <1>10, HostFrame

LEMMA HostAnswersStep ==
    ASSUME IInv, HostAnswers,
           UNCHANGED <<task, channel, reader, reply, permission, late, sent, heard>>
    PROVE  IInv'
  <1> DEFINE id == host.applying
  <1>1. /\ PlacesOK(task, channel) /\ OutfitsOK(task, channel) /\ effects \in Seq(1 .. MaxCalls)
        /\ host \in [applying : 0 .. MaxCalls, applied : SUBSET (1 .. MaxCalls),
                     answers : [1 .. MaxCalls -> {"none", "applied", "failed"}]]
    BY DEF IInv, Good, Typed
  <1>2. /\ id # 0 /\ effects' = effects
        /\ \/ host' = [host EXCEPT !.applying = 0, !.applied = @ \cup {id}, !.answers[id] = "applied"]
           \/ host' = [host EXCEPT !.applying = 0, !.answers[id] = "failed"]
    BY DEF HostAnswers
  <1>3. id \in 1 .. MaxCalls
    BY <1>1, <1>2, ReplyAssumption
  <1>4. host.answers[id] = "none" /\ host.applying = id
    BY <1>1, <1>2 DEF PlacesOK
  <1> HIDE DEF id
  <1>5. /\ host' \in [applying : 0 .. MaxCalls, applied : SUBSET (1 .. MaxCalls),
                      answers : [1 .. MaxCalls -> {"none", "applied", "failed"}]]
        /\ host'.applying = 0
        /\ \A k \in 1 .. MaxCalls : k # id =>
              host'.answers[k] = host.answers[k] /\ (k \in host'.applied <=> k \in host.applied)
        /\ \/ host'.answers[id] = "applied" /\ id \in host'.applied
           \/ host'.answers[id] = "failed" /\ host'.applied = host.applied
    <2>1. 0 \in 0 .. MaxCalls
      BY ReplyAssumption
    <2>2. CASE host' = [host EXCEPT !.applying = 0, !.applied = @ \cup {id}, !.answers[id] = "applied"]
      <3>1. /\ host'.applying = 0 /\ host'.applied = host.applied \cup {id}
            /\ host'.answers = [host.answers EXCEPT ![id] = "applied"]
        BY <1>1, <2>2
      <3>2. host' \in [applying : 0 .. MaxCalls, applied : SUBSET (1 .. MaxCalls),
                       answers : [1 .. MaxCalls -> {"none", "applied", "failed"}]]
        BY <1>1, <1>3, <2>1, <2>2
      <3>3. QED
        BY <1>1, <1>3, <3>1, <3>2
    <2>3. CASE host' = [host EXCEPT !.applying = 0, !.answers[id] = "failed"]
      BY <1>1, <1>3, <2>1, <2>3
    <2>4. QED
      BY <1>2, <2>2, <2>3
  <1>6. PlacesOK(task, channel)'
    <2>1. \A i \in 1 .. Len(channel) : channel[i].kind = "outfit" =>
             channel[i].body \in 1 .. MaxCalls /\ channel[i].body # 0
      <3>1. channel \in Seq(Events)
        BY DEF IInv, Good, Typed
      <3>2. \A i \in 1 .. Len(channel) : channel[i] \in Events
        BY <3>1
      <3>3. QED
        BY <3>2 DEF Events
    <2>2. \A e \in 1 .. Len(effects) : effects[e] \in 1 .. MaxCalls /\ effects[e] # 0
      <3>1. \A e \in 1 .. Len(effects) : effects[e] \in 1 .. MaxCalls
        BY <1>1, ElementOfSeq
      <3>2. QED
        BY <3>1
    <2>3. \A i \in 1 .. Len(channel) : channel[i].kind = "outfit" =>
             host'.answers[channel[i].body] = "none" /\ host'.applying # channel[i].body
      BY <1>1, <1>4, <1>5, <2>1 DEF PlacesOK
    <2>4. \A e \in 1 .. Len(effects) :
             host'.answers[effects[e]] = "none" /\ host'.applying # effects[e]
      BY <1>1, <1>4, <1>5, <2>2 DEF PlacesOK
    <2>5. \A k \in 1 .. MaxCalls : (k > Len(task.results) /\ ~Asked(task, k)) =>
             host'.answers[k] = "none" /\ host'.applying # k
      <3>1. \A k \in 1 .. MaxCalls : (k > Len(task.results) /\ ~Asked(task, k)) =>
               k # id /\ k # 0 /\ host.answers[k] = "none"
        BY <1>1, <1>4 DEF PlacesOK
      <3>2. QED
        BY <1>5, <3>1
    <2>6. /\ task' = task /\ channel' = channel /\ effects' = effects
          /\ \A k : Asked(task, k)' = Asked(task, k)
      BY <1>2 DEF Asked
    <2>7. QED
      BY <1>1, <1>5, <2>3, <2>4, <2>5, <2>6 DEF PlacesOK
  <1>7. OutfitsOK(task, channel)'
    <2>1. /\ task' = task /\ channel' = channel /\ late' = late /\ reply' = reply
          /\ \A k : Asked(task, k)' = Asked(task, k)
          /\ Finishes(task, channel)' = Finishes(task, channel)
      BY DEF Asked, Finishes
    <2>2. \A k \in 1 .. MaxCalls : k \in host'.applied <=> host'.answers[k] = "applied"
      BY <1>1, <1>4, <1>5 DEF OutfitsOK
    <2>3. ASSUME NEW k \in 1 .. Len(task.results), task.results[k] = "changed"
          PROVE  host'.answers[k] = "applied"
      <3>1. host.answers[k] = "applied"
        BY <1>1, <2>3 DEF OutfitsOK
      <3>2. k \in 1 .. MaxCalls
        BY ResultIndex
      <3>3. QED
        BY <1>4, <1>5, <3>1, <3>2
    <2>4. \A k \in 1 .. MaxCalls : Settled(task, k) => Settled(task, k)'
      <3>1. ASSUME NEW k \in 1 .. MaxCalls,
                   (host.applying = k \/ host.answers[k] = "applied") =>
                      k <= Len(task.results) /\ task.results[k] = "changed",
                   host'.applying = k \/ host'.answers[k] = "applied"
            PROVE  k <= Len(task.results) /\ task.results[k] = "changed"
        <4>1. k # 0
          OBVIOUS
        <4>2. host'.answers[k] = "applied"
          BY <1>5, <3>1, <4>1
        <4>3. host.applying = k \/ host.answers[k] = "applied"
          BY <1>4, <1>5, <4>2
        <4>4. QED
          BY <3>1, <4>3
      <3>2. QED
        BY <2>1, <3>1 DEF Settled
    <2>5. \A k \in 1 .. MaxCalls :
             \/ Settled(task, k)' \/ Asked(task, k)
             \/ late /\ task.at \in Asking \cup {"attempt"}
             \/ task.at \in Finale /\ ~Finishes(task, channel) /\ reply.state # "finished"
      BY <1>1, <2>4 DEF OutfitsOK
    <2>6. QED
      BY <2>1, <2>2, <2>3, <2>5 DEF OutfitsOK
  <1>8. QED
    BY <1>1, <1>2, <1>5, <1>6, <1>7, HostFrame

-----------------------------------------------------------------------------
(* The invariant.                                                           *)

LEMMA InitIInv ==
    ASSUME Init
    PROVE  IInv
  <1>1. /\ channel = <<>> /\ heard = <<>> /\ reader = "reading" /\ late = FALSE
        /\ reply = [state |-> "streaming", text |-> <<>>, trace |-> <<>>]
        /\ effects = <<>> /\ task.at = "start" /\ task.round = 1 /\ task.results = <<>>
        /\ task.pending = <<>> /\ task.calls = <<>> /\ ~task.started /\ ~task.image
        /\ host = [applying |-> 0, applied |-> {}, answers |-> [id \in 1 .. MaxCalls |-> "none"]]
    BY DEF Init
  <1>2. /\ Len(channel) = 0 /\ Len(heard) = 0 /\ Len(reply.text) = 0 /\ Len(effects) = 0
        /\ Len(task.results) = 0 /\ Len(task.calls) = 0 /\ Len(task.pending) = 0
        /\ MaxCalls \in Nat
        /\ reply.state = "streaming" /\ reply.trace = <<>>
    BY <1>1, ReplyAssumption
  <1>3. task \in Tasks
    <2>1. <<>> \in Seq(Pieces) /\ <<>> \in Seq(Tools) /\ <<>> \in Seq(Outcomes) /\ <<>> \in Seq(Events)
      BY EmptySeq
    <2>2. "start" \in Before
      BY DEF Before
    <2>3. QED
      BY <2>1, <2>2 DEF Init, Tasks
  <1>4. /\ host.applying = 0 /\ host.applied = {} /\ \A id \in 1 .. MaxCalls : host.answers[id] = "none"
        /\ host \in [applying : 0 .. MaxCalls, applied : SUBSET (1 .. MaxCalls),
                     answers : [1 .. MaxCalls -> {"none", "applied", "failed"}]]
    BY <1>1, <1>2
  <1>5. Typed(task, channel, heard)
    <2>1. <<>> \in Seq(Pieces) /\ <<>> \in Seq(Outcomes) /\ <<>> \in Seq(Events)
          /\ <<>> \in Seq(1 .. MaxCalls)
      BY EmptySeq
    <2>2. QED
      BY <1>1, <1>3, <1>4, <2>1 DEF Typed
  <1>6. PhaseOK(task, channel)
    BY <1>1, <1>2 DEF PhaseOK, Before, Asking, Finale
  <1>7. TextOK(task, channel, heard)
    <2>1. PICK cut \in [0 .. 0 -> 0 .. 0] : cut[0] = 0
      <3>1. [i \in 0 .. 0 |-> 0] \in [0 .. 0 -> 0 .. 0] /\ [i \in 0 .. 0 |-> 0][0] = 0
        OBVIOUS
      <3>2. QED
        BY <3>1
    <2>2. Cuts(cut, channel, heard)
      BY <1>2, <2>1 DEF Cuts
    <2>3. Whole(cut, task, channel, heard)
      BY <1>1, <1>2, <2>1 DEF Whole, Finishes
    <2>4. cut \in [0 .. Len(channel) -> 0 .. Len(heard)]
      BY <1>2, <2>1
    <2>5. QED
      BY <1>2, <2>2, <2>3, <2>4 DEF TextOK
  <1>8. AttemptsOK(task, heard) /\ ImageOK(task)
    BY <1>1, <1>2 DEF AttemptsOK, ImageOK
  <1>9. PlacesOK(task, channel)
    BY <1>1, <1>2, <1>4 DEF PlacesOK
  <1>10. OutfitsOK(task, channel)
    <2>1. \A id \in 1 .. MaxCalls : id # 0
      OBVIOUS
    <2>2. QED
      BY <1>1, <1>2, <1>4, <2>1 DEF OutfitsOK, Settled
  <1>11. TraceOK(task, channel)
    BY <1>1, <1>2 DEF TraceOK
  <1>12. QED
    BY <1>5, <1>6, <1>7, <1>8, <1>9, <1>10, <1>11 DEF IInv, Good

LEMMA NextIInv ==
    ASSUME IInv, [Next]_vars
    PROVE  IInv'
  <1>1. CASE TaskNext
    BY <1>1, TaskStep
  <1>2. CASE AgentNext
    BY <1>2, AgentStep
  <1>3. CASE Cancel
    BY <1>3, CancelStep
  <1>4. CASE Aborted
    BY <1>4, AbortedStep
  <1>5. CASE HostNext
    BY <1>5, HostTakesStep, HostAnswersStep DEF HostNext
  <1>6. CASE Revoke \/ Clock \/ UNCHANGED vars
    BY <1>6, TimeStep
  <1>7. QED
    BY <1>1, <1>2, <1>3, <1>4, <1>5, <1>6 DEF Next, Rest

\* Where every piece of text and every outfit request is, at any moment of a reply
\* (consume_stream, execute_tool_calls, the loop of Agent::send).
THEOREM InductiveInvariant == Spec => []IInv
  <1>1. Init => IInv
    BY InitIInv
  <1>2. IInv /\ [Next]_vars => IInv'
    BY NextIInv
  <1>3. QED
    BY <1>1, <1>2, PTL DEF Spec

-----------------------------------------------------------------------------
(* What follows from it.                                                    *)

\* What the user reads is what the provider said, each piece once and in order,
\* however often it is retried, and a reply marked as finished is whole unless it
\* ran into the total deadline: for every number of retries, pieces and calls
\* (stream_with_retry, consume_stream).
THEOREM FaithfulTheorem == Spec => []ReplyIsFaithful
  <1>1. ASSUME IInv
        PROVE  ReplyIsFaithful
    <2>1. /\ heard \in Seq(Pieces) /\ reply.text \in Seq(Pieces)
          /\ Len(reply.text) \in Nat /\ Len(reply.text) <= Len(heard) /\ Len(heard) \in Nat
          /\ \A j \in 1 .. Len(reply.text) : reply.text[j] = heard[j]
      BY <1>1, ReaderFacts
    <2>2. IsPrefix(reply.text, heard)
      <3>1. SubSeq(reply.text, 1, Len(reply.text)) = reply.text
        BY <2>1, SubSeqFull
      <3> DEFINE start == SubSeq(heard, 1, Len(reply.text))
      <3>2. /\ start \in Seq(Pieces) /\ Len(start) = Len(reply.text)
            /\ \A j \in 1 .. Len(reply.text) : start[j] = heard[j]
        <4>1. \A j \in 1 .. Len(reply.text) : heard[j] \in Pieces
          BY <2>1
        <4>2. /\ start \in Seq(Pieces)
              /\ Len(start) = IF 1 <= Len(reply.text) THEN Len(reply.text) - 1 + 1 ELSE 0
              /\ \A j \in 1 .. Len(reply.text) - 1 + 1 : start[j] = heard[1 + j - 1]
          BY <2>1, <4>1, SubSeqProperties
        <4>3. QED
          BY <2>1, <4>2
      <3> HIDE DEF start
      <3>3. \A j \in 1 .. Len(reply.text) : reply.text[j] = start[j]
        BY <2>1, <3>2
      <3>4. reply.text = start
        BY <2>1, <3>2, <3>3, SeqEqual
      <3>5. QED
        BY <2>1, <3>1, <3>4 DEF IsPrefix, start
    <2>3. \A i, j \in DOMAIN reply.text :
             reply.text[i].round = reply.text[j].round => reply.text[i].attempt = reply.text[j].attempt
      <3>1. DOMAIN reply.text = 1 .. Len(reply.text)
        BY <2>1
      <3>2. \A i \in 1 .. Len(reply.text) : i \in 1 .. Len(heard) /\ reply.text[i] = heard[i]
        BY <2>1
      <3>3. \A i, j \in 1 .. Len(heard) :
               heard[i].round = heard[j].round => heard[i].attempt = heard[j].attempt
        BY <1>1 DEF IInv, Good, AttemptsOK
      <3>4. QED
        BY <3>1, <3>2, <3>3
    <2>4. reply.state = "finished" => (reply.text = heard \/ late)
      <3>1. ASSUME reply.state = "finished", ~late
            PROVE  reply.text = heard
        <4>1. Len(reply.text) = Len(heard)
          BY <1>1, <3>1 DEF IInv, Good, TextOK
        <4>2. QED
          BY <2>1, <4>1, SeqEqual
      <3>2. QED
        BY <3>1
    <2>5. QED
      BY <2>2, <2>3, <2>4 DEF ReplyIsFaithful
  <1>2. QED
    BY <1>1, InductiveInvariant, PTL

\* The trace of a finished reply says changed of exactly the outfits that were
\* changed, however late the window answers: for every number of tool calls
\* (execute_tool_calls, request_outfit_change, send_completion_events).
THEOREM TraceTheorem == Spec => []TraceTellsTheTruth
  <1>1. ASSUME IInv, reply.state = "finished"
        PROVE  /\ reply.trace = task.results
               /\ \A id \in 1 .. MaxCalls :
                     (id \in host.applied) <=> (id \in DOMAIN reply.trace /\ reply.trace[id] = "changed")
    <2>1. reply.trace = task.results
      BY <1>1 DEF IInv, Good, TraceOK
    <2>2. task.at = "done" /\ task.results \in Seq(Outcomes)
      BY <1>1 DEF IInv, Good, Typed, Tasks, PhaseOK
    <2>3. Len(task.results) \in Nat /\ DOMAIN task.results = 1 .. Len(task.results)
      BY <2>2
    <2>4. /\ \A id \in 1 .. MaxCalls : id \in host.applied <=> host.answers[id] = "applied"
          /\ \A id \in 1 .. Len(task.results) :
                task.results[id] = "changed" => host.answers[id] = "applied"
          /\ \A id \in 1 .. MaxCalls : Settled(task, id)
      BY <1>1, <2>2 DEF IInv, Good, OutfitsOK, Asked, Asking
    <2>5. ASSUME NEW id \in 1 .. MaxCalls
          PROVE  (id \in host.applied) <=> (id \in DOMAIN reply.trace /\ reply.trace[id] = "changed")
      <3>1. host.answers[id] = "applied" =>
               id \in 1 .. Len(task.results) /\ task.results[id] = "changed"
        BY <2>3, <2>4 DEF Settled
      <3>2. QED
        BY <2>1, <2>3, <2>4, <3>1
    <2>6. QED
      BY <2>1, <2>5
  <1>2. IInv => TraceTellsTheTruth
    BY <1>1 DEF TraceTellsTheTruth
  <1>3. QED
    BY <1>2, InductiveInvariant, PTL

\* A request carries the image only while the permission stands.
LEMMA SentRevoked ==
    ASSUME IInv, [Next]_vars, permission = "revoked", sent'.image
    PROVE  sent' = sent
  <1>1. CASE Attempt
    <2>1. task.at = "attempt" /\ task.at \in Before
      BY <1>1 DEF Attempt, Before
    <2>2. ASSUME sent' # sent
          PROVE  FALSE
      <3>1. ~GivenUp(task) /\ sent' = [count |-> sent.count + 1, image |-> task.image]
        BY <1>1, <2>2 DEF Attempt
      <3>2. task.image
        BY <3>1
      <3>3. task.capability /\ task.screen
        BY <2>1, <3>2 DEF IInv, Good, ImageOK
      <3>4. QED
        BY <3>1, <3>3 DEF GivenUp, Required, Authorized
    <2>3. QED
      BY <2>2
  <1>2. CASE TaskNext /\ ~Attempt
    BY <1>2 DEF TaskNext, Begin, Connect, Deadlines, Chunk, ToolChunk, End, Wake, Flush, Conclude,
                Screen, Capture, NoTool, AskOutfit, AwaitOutfit, Continue
  <1>3. CASE ~TaskNext
    BY <1>3 DEF Next, AgentNext, Cancel, Aborted, Revoke, HostNext, Clock, Rest, vars
  <1>4. QED
    BY <1>1, <1>2, <1>3

\* And text leaves the task only then, if the request requires it.
LEMMA TextRevoked ==
    ASSUME IInv, [Next]_vars, permission = "revoked", Required(task), Len(channel') > Len(channel)
    PROVE  Last(channel').kind # "delta"
  <1>1. /\ channel \in Seq(Events) /\ Len(channel) \in Nat /\ task \in Tasks
        /\ GivenUp(task)
        /\ task.at = "ending" => task.last \in {LastFailed, LastFinished, LastTraced(task)}
    BY DEF IInv, Good, Typed, PhaseOK, GivenUp, Authorized
  <1>2. ASSUME NEW e, channel' = Append(channel, e), e \in Events
        PROVE  Last(channel') = e
    BY <1>1, <1>2 DEF Last
  <1>3. CASE Conclude
    <2>1. channel' = Append(channel, Head(task.last)) /\ task.at = "ending"
      BY <1>1, <1>3 DEF Conclude
    <2>2. /\ Event("failed", <<>>) \in Events /\ Event("finished", <<>>) \in Events
          /\ Event("trace", task.results) \in Events
      BY <1>1 DEF Event, Events, Tasks
    <2>3. \/ Head(task.last) = Event("failed", <<>>) \/ Head(task.last) = Event("finished", <<>>)
          \/ Head(task.last) = Event("trace", task.results)
      BY <1>1, <2>1 DEF LastFailed, LastFinished, LastTraced
    <2>4. Head(task.last) \in Events
      BY <2>2, <2>3
    <2>5. Head(task.last).kind # "delta"
      BY <2>3 DEF Event
    <2>6. QED
      BY <1>2, <2>1, <2>4, <2>5
  <1>4. CASE AskOutfit
    <2>1. channel' = Append(channel, Event("outfit", Len(task.results) + 1))
      BY <1>1, <1>4 DEF AskOutfit
    <2> DEFINE e == Event("outfit", Len(task.results) + 1)
    <2>2. Len(channel') = Len(channel) + 1 /\ channel'[Len(channel) + 1] = e
      BY <1>1, <2>1, AppendProperties
    <2>3. e.kind = "outfit"
      BY DEF Event
    <2>4. QED
      BY <2>2, <2>3 DEF Last
  <1>5. CASE TaskNext /\ ~Conclude /\ ~AskOutfit
    <2>1. channel' = channel
      BY <1>1, <1>5 DEF TaskNext, Begin, Attempt, Connect, Deadlines, Chunk, ToolChunk, End, Wake,
                        Flush, Screen, Capture, NoTool, AwaitOutfit, Continue
    <2>2. QED
      BY <1>1, <2>1
  <1>6. CASE AgentNext
    <2>1. channel' = <<>> \/ channel' = channel \/ (channel # <<>> /\ channel' = Tail(channel))
      BY <1>6 DEF AgentNext, ReadStale, ReadDelta, ReadTrace, ReadOutfit, ReadEnding, ReadNone,
                  Return, Leave, Stay, Reading
    <2>2. channel # <<>> => Len(Tail(channel)) = Len(channel) - 1
      BY <1>1, HeadFacts
    <2>3. Len(<<>>) = 0
      OBVIOUS
    <2>4. QED
      BY <1>1, <2>1, <2>2, <2>3
  <1>7. CASE ~TaskNext /\ ~AgentNext
    <2>1. channel' = channel
      BY <1>7 DEF Next, Cancel, Aborted, Revoke, HostNext, Clock, Rest, vars
    <2>2. QED
      BY <1>1, <2>1
  <1>8. QED
    BY <1>3, <1>4, <1>5, <1>6, <1>7

\* Once the permission is revoked no request with the image is made and no more
\* text comes out of a request that needed it: in any interleaving with the task,
\* for every bound (stream_with_retry, stream_once).
THEOREM RevocationTheorem == Spec => RevocationIsHonoured
  <1>1. ASSUME IInv, [Next]_vars
        PROVE  [permission = "revoked" =>
                   /\ sent'.image => sent' = sent
                   /\ (Required(task) /\ Len(channel') > Len(channel)) => Last(channel').kind # "delta"]_vars
    BY <1>1, SentRevoked, TextRevoked
  <1>2. QED
    BY <1>1, InductiveInvariant, PTL DEF Spec, RevocationIsHonoured

=============================================================================
