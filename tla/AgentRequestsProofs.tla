------------------------ MODULE AgentRequestsProofs ------------------------
(***************************************************************************)
(* For any personas, calls and bounds: an answer is given only to who asks *)
(* for it, a transcript is accepted only under the runtime its utterance   *)
(* belongs to, and a document that could not be read is never overwritten  *)
(* by a save.                                                              *)
(*                                                                         *)
(* The invariant of AgentCoreProofs is continued by three parts.  Waiting  *)
(* says that a call has at most one operation in the queue and waits for   *)
(* it.  Requests relates every call to the runtime and to the state it     *)
(* finds, and two calls to each other.  Documents says that whoever may    *)
(* write a document could read it.                                         *)
(*                                                                         *)
(* A second invariant, Switches, follows the configurations through their  *)
(* switches.  A third, DInv, follows every turn to its document: it        *)
(* holds as long as one persona is selected, when there is one store.      *)
(***************************************************************************)
EXTENDS AgentCoreProofs

\* What the head of the queue will find: a call waits for its operation.
Awaits(op, r) ==
    IF op = "load" THEN r.api = "apply" /\ r.pc = "loading"
    ELSE IF r.api = "apply" THEN op = "save" /\ r.pc = "saving" ELSE r.pc = "waiting"

Waiting(q, cs) ==
    /\ \A i \in 1 .. Len(q) : q[i].call \in Calls => Awaits(q[i].op, cs[q[i].call])
    /\ \A i, j \in 1 .. Len(q) : q[i].call = q[j].call /\ q[i].call \in Calls => i = j

\* A call and the runtime and state it finds.
Behaves(rt, s, r) ==
    /\ r.pc = "idle" => r = IdleCall
    /\ r.out = "accepted" => r.pc = "done"
    /\ r.rt.rev <= rt.rev
    /\ r.rt.rev = rt.rev => r.rt.persona = rt.persona /\ r.rid <= s.session.responses
    /\ r.rid # 0 => r.api = "send" /\ r.pc \notin {"input", "cloned"}
    /\ r.stale => r.api = "send" /\ r.pc \in {"input", "cloned"} /\ r.n < s.request_revision
    /\ (r.api = "send" /\ r.pc \in {"input", "cloned"}) => r.n <= s.request_revision
    /\ (r.api = "take" /\ r.pc = "cloned") =>
           /\ r.n # 0
           /\ (s.pending_voice.utterance = r.n /\ s.pending_voice.rev = r.rt.rev) => r.rt.rev = rt.rev

\* Two calls: their responses are told apart, and one of two UI calls is over.
Apart(rt, r, q) ==
    /\ (r.rid # 0 /\ r.rid = q.rid) => r.rt.rev # rt.rev \/ q.rt.rev # rt.rev
    /\ (r.api \in UiApis /\ q.api \in UiApis) => r.pc \in {"idle", "done"} \/ q.pc \in {"idle", "done"}

\* The call that started the active request still reads its events.
Owns(request, r) ==
    /\ r.api = "send" /\ r.rid = request.rid /\ r.rt.rev = request.rev
    /\ r.pc \in {"streaming", "ending"} \/ (r.pc \in {"persist", "persist_weak"} /\ r.then = "streaming")

Owned(s, cs) ==
    s.active_request.rid # 0 =>
        /\ s.active_request.call \in Calls
        /\ Owns(s.active_request, cs[s.active_request.call])

RequestsOK(rt, s, cs) ==
    /\ rt.rev # 0
    /\ \A c \in Calls : Behaves(rt, s, cs[c])
    /\ \A c, d \in Calls : c # d => Apart(rt, cs[c], cs[d])
    /\ Owned(s, cs)

\* Who can write a document can have read it.
Readable(ds, p) == ds[p].kind # "unsupported"
DocumentsOK(ds, ss, cs, q) ==
    /\ \A p \in Personas : ds[p].kind # "ok" => ds[p].turns = {}
    /\ \A i \in 1 .. Len(ss) : ss[i].ok => Readable(ds, ss[i].persona)
    /\ \A c \in Calls : (cs[c].pc = "loaded" /\ cs[c].out # "unavailable") => Readable(ds, cs[c].persona)
    /\ \A i \in 1 .. Len(q) : q[i].op = "save" => Readable(ds, q[i].persona)
Documents == DocumentsOK(docs, stores, calls, queue)

RInv == IInv /\ Waiting(queue, calls) /\ RequestsOK(runtime, state, calls) /\ Documents

-----------------------------------------------------------------------------
(* What the steps do to the record of a call and to the state.             *)

\* Only the record of c changes.
Only(c) == calls' \in [Calls -> CallRecords] /\ \A d \in Calls \ {c} : calls'[d] = calls[d]

\* A record q that goes on at another place.
Goes(r, q) ==
    /\ q.api = r.api /\ q.n = r.n /\ q.persona = r.persona /\ q.rt = r.rt /\ q.rid = r.rid
    /\ q.doomed = r.doomed /\ q.stale = r.stale

\* A record q of a call that has returned.
Returned(r, q, out) ==
    /\ q.api = r.api /\ q.n = r.n /\ q.persona = r.persona /\ q.pc = "done" /\ q.out = out
    /\ q.rid = 0 /\ q.rt.rev = 0 /\ ~q.doomed /\ ~q.stale

\* A record q of a call that begins.
Begun(q, api, pc) ==
    /\ q.api = api /\ q.pc = pc /\ q.out = "none" /\ q.rid = 0 /\ ~q.doomed /\ ~q.stale

\* The fields of the state that calls look at.
Reads(s, responses, request, revision, voice, cfg, switching, stopping) ==
    /\ s.session.responses = responses /\ s.active_request = request
    /\ s.request_revision = revision /\ s.pending_voice = voice
    /\ s.pending_cfg = cfg /\ s.switching = switching /\ s.shutting_down = stopping

LEMMA GotoIs ==
    ASSUME CallsOK, NEW c \in Calls, NEW pc \in Places, Goto(c, pc)
    PROVE  /\ Only(c) /\ Goes(calls[c], calls'[c]) /\ calls'[c].out = calls[c].out
           /\ calls'[c].pc = pc /\ calls'[c].then = calls[c].then
  <1> DEFINE r == [calls[c] EXCEPT !.pc = pc]
  <1>1. calls' = [calls EXCEPT ![c] = r]
    BY DEF Goto
  <1>2. /\ r \in CallRecords /\ Goes(calls[c], r) /\ r.out = calls[c].out
        /\ r.pc = pc /\ r.then = calls[c].then
    BY DEF CallsOK, CallRecords, Goes
  <1> HIDE DEF r
  <1>3. QED
    BY <1>1, <1>2 DEF CallsOK, Only

LEMMA ThenIs ==
    ASSUME CallsOK, NEW c \in Calls, NEW pc \in Places, NEW then \in Places,
           calls' = [calls EXCEPT ![c].pc = pc, ![c].then = then]
    PROVE  /\ Only(c) /\ Goes(calls[c], calls'[c]) /\ calls'[c].out = calls[c].out
           /\ calls'[c].pc = pc /\ calls'[c].then = then
  <1> DEFINE r == [calls[c] EXCEPT !.pc = pc, !.then = then]
  <1>1. calls' = [calls EXCEPT ![c] = r]
    OBVIOUS
  <1>2. /\ r \in CallRecords /\ Goes(calls[c], r) /\ r.out = calls[c].out
        /\ r.pc = pc /\ r.then = then
    BY DEF CallsOK, CallRecords, Goes
  <1> HIDE DEF r
  <1>3. QED
    BY <1>1, <1>2 DEF CallsOK, Only

LEMMA IdleCallIs ==
    /\ IdleCall \in CallRecords /\ IdleCall.api = "none" /\ IdleCall.pc = "idle"
    /\ IdleCall.then = "done" /\ IdleCall.n = 0 /\ IdleCall.rt.rev = 0 /\ IdleCall.rid = 0
    /\ IdleCall.out = "none" /\ ~IdleCall.doomed /\ ~IdleCall.stale
  <1>1. IdleCall \in CallRecords
    BY IdleCallGood
  <1>2. QED
    BY <1>1 DEF IdleCall

LEMMA FinishedIs ==
    ASSUME CallsOK, NEW c \in Calls, NEW out \in Outs
    PROVE  Returned(calls[c], Finished(c, out), out) /\ Finished(c, out) \in CallRecords
  <1> DEFINE r == Finished(c, out)
             api == calls[c].api
             n == calls[c].n
             persona == calls[c].persona
  <1>1. r = [IdleCall EXCEPT !.api = api, !.pc = "done", !.out = out, !.n = n, !.persona = persona]
    BY DEF Finished
  <1>2. api \in ApiNames /\ n \in Nat /\ persona \in Personas /\ "done" \in Places
    BY DEF CallsOK, CallRecords, Places
  <1> HIDE DEF r, api, n, persona
  <1>3. /\ r \in CallRecords /\ r.pc = "done" /\ r.persona = persona /\ r.api = api /\ r.n = n
        /\ r.out = out /\ r.rid = IdleCall.rid /\ r.rt = IdleCall.rt
        /\ r.doomed = IdleCall.doomed /\ r.stale = IdleCall.stale
    BY <1>1, <1>2, IdleCallIs DEF CallRecords
  <1>4. QED
    BY <1>3, IdleCallIs DEF Returned, r, api, n, persona

LEMMA ReturnIs ==
    ASSUME CallsOK, NEW c \in Calls, NEW out \in Outs, Return(c, out)
    PROVE  Only(c) /\ Returned(calls[c], calls'[c], out)
  <1>1. calls' = [calls EXCEPT ![c] = Finished(c, out)]
    BY DEF Return
  <1>2. Returned(calls[c], Finished(c, out), out) /\ Finished(c, out) \in CallRecords
    BY FinishedIs
  <1>3. QED
    BY <1>1, <1>2, Zenon DEF CallsOK, Only

\* A call is opened with the record of an idle one, of which n and rt may be set.
LEMMA OpenedIs ==
    ASSUME CallsOK, NEW c \in Calls, calls[c] = IdleCall, NEW api \in ApiNames, NEW pc \in Places
    PROVE  /\ Opened(c, api, pc) \in CallRecords /\ Begun(Opened(c, api, pc), api, pc)
           /\ Opened(c, api, pc).n = 0 /\ Opened(c, api, pc).rt.rev = 0
           /\ Opened(c, api, pc).then = "done"
  BY IdleCallIs DEF Opened, CallRecords, Begun

LEMMA SessionCounters ==
    ASSUME NEW s \in Sessions, NEW st
    PROVE  /\ Ended(s, st).responses = s.responses /\ Discarded(s).responses = s.responses
           /\ Started(s).responses = s.responses + 1
  BY DEF Sessions, Ended, Discarded, Started


LEMMA AbortedReads ==
    ASSUME NEW s \in States, NEW r, r = Aborted(s)
    PROVE  /\ r \in States /\ r.session = s.session
           /\ Reads(r, s.session.responses, NoRequest, s.request_revision, s.pending_voice,
                    s.pending_cfg, s.switching, s.shutting_down)
  BY NoRequestTyped DEF Aborted, States, Reads

LEMMA BumpedReads ==
    ASSUME NEW s \in States, NEW r, r = Bumped(s)
    PROVE  /\ r \in States /\ r.session = s.session
           /\ Reads(r, s.session.responses, s.active_request, s.request_revision, s.pending_voice,
                    s.pending_cfg, s.switching, s.shutting_down)
  <1> DEFINE n == s.persist_revision + 1
  <1>1. n \in Nat
    BY DEF States
  <1>2. r = [s EXCEPT !.persist_revision = n]
    BY DEF Bumped
  <1> HIDE DEF n
  <1>3. QED
    BY <1>1, <1>2 DEF States, Reads

LEMMA NewRequestsReads ==
    ASSUME NEW s \in States, NEW r, r = NewRequests(s)
    PROVE  /\ r \in States /\ r.session = s.session
           /\ Reads(r, s.session.responses, s.active_request, s.request_revision + 1,
                    s.pending_voice, s.pending_cfg, s.switching, s.shutting_down)
  <1> DEFINE n == s.request_revision + 1
  <1>1. n \in Nat
    BY DEF States
  <1>2. r = [s EXCEPT !.request_revision = n]
    BY DEF NewRequests
  <1> HIDE DEF n
  <1>3. /\ r \in States /\ r.session = s.session
        /\ Reads(r, s.session.responses, s.active_request, n,
                 s.pending_voice, s.pending_cfg, s.switching, s.shutting_down)
    BY <1>1, <1>2 DEF States, Reads
  <1>4. QED
    BY <1>3 DEF n

\* The answer that streams ends.
LEMMA EndedReads ==
    ASSUME NEW s \in States, GoodSession(s.session), NEW st \in Terminal,
           NEW q, q = Ended(s.session, st), NEW r, r = [s EXCEPT !.session = q]
    PROVE  /\ r \in States /\ r.session = q
           /\ Reads(r, s.session.responses, s.active_request, s.request_revision, s.pending_voice,
                    s.pending_cfg, s.switching, s.shutting_down)
  <1>1. q \in Sessions
    BY EndedQuiet DEF QuietSession, GoodSession
  <1>2. q.responses = s.session.responses
    BY SessionCounters DEF GoodSession
  <1>3. QED
    BY <1>1, <1>2 DEF States, Reads

LEMMA InterruptedReads ==
    ASSUME NEW s \in States, GoodSession(s.session), NEW rev \in Nat, NEW r, r = Interrupted(s, rev)
    PROVE  /\ r \in States
           /\ Reads(r, s.session.responses, NoRequest, s.request_revision, NoVoice,
                    rev, s.switching, s.shutting_down)
  <1> DEFINE q == Ended(s.session, "interrupted")
             a == Aborted(s)
  <1>1. q \in Sessions /\ q.responses = s.session.responses
    <2>1. QuietSession(q, s.session.home)
      BY EndedQuiet DEF Terminal
    <2>2. QED
      BY <2>1, SessionCounters DEF QuietSession, GoodSession
  <1>2. /\ a \in States
        /\ Reads(a, s.session.responses, NoRequest, s.request_revision, s.pending_voice,
                 s.pending_cfg, s.switching, s.shutting_down)
    BY AbortedReads
  <1>3. r = [a EXCEPT !.session = q, !.pending_voice = NoVoice, !.pending_cfg = rev]
    BY DEF Interrupted
  <1> HIDE DEF q, a
  <1>4. QED
    BY <1>1, <1>2, <1>3, NoVoiceTyped DEF States, Reads

-----------------------------------------------------------------------------
(* What every action does.                                                 *)

\* Nothing but the records of calls and what Reads leaves out has changed.
StateReads(responses, request, revision, voice, cfg, switching, stopping) ==
    Reads(state', responses, request, revision, voice, cfg, switching, stopping)

SameReads ==
    Reads(state', state.session.responses, state.active_request, state.request_revision,
          state.pending_voice, state.pending_cfg, state.switching, state.shutting_down)

LEMMA SameState == ASSUME state' = state PROVE SameReads
  BY DEF SameReads, Reads

LEMMA StateIs ==
    ASSUME IInv
    PROVE  /\ state \in States /\ GoodSession(state.session) /\ state.session \in Sessions
           /\ state.active_request.rid = state.session.active
           /\ state.session.home = runtime.persona
           /\ CallsOK /\ runtime \in Runtimes /\ calls \in [Calls -> CallRecords]
  BY DEF IInv, StateOK, GoodState, GoodSession, RuntimeOK, CallsOK

LEMMA PersistIs ==
    ASSUME IInv, NEW c \in Calls, Persist(c)
    PROVE  /\ Only(c) /\ Goes(calls[c], calls'[c]) /\ calls'[c].out = calls[c].out
           /\ calls[c].pc \in {"persist", "persist_weak"}
           /\ calls'[c].pc = calls[c].then /\ calls'[c].then = calls[c].then
           /\ SameReads /\ UNCHANGED <<target, runtime, stores, docs, faults>>
           /\ queue' = queue \/ (StoreOf(state).ok /\ queue' = Append(queue, SaveOf(state', Background)))
           /\ state'.store = state.store /\ state'.session = state.session
  <1>1. calls[c].then \in Places /\ Goto(c, calls[c].then)
    BY StateIs DEF Persist, CallRecords
  <1>2. SameReads /\ state'.store = state.store /\ state'.session = state.session
    <2>1. CASE state' = state
      BY <2>1, SameState
    <2>2. CASE state' = Bumped(state)
      BY <2>2, StateIs, BumpedReads, BumpedState DEF SameReads
    <2>3. QED
      BY <2>1, <2>2 DEF Persist
  <1>3. queue' = queue \/ (StoreOf(state).ok /\ queue' = Append(queue, SaveOf(state', Background)))
    BY <1>2 DEF Persist, EnqueueSave, StoreOf
  <1>4. QED
    BY <1>1, <1>2, <1>3, StateIs, GotoIs DEF Persist

LEMMA RefreshIs ==
    ASSUME IInv, NEW c \in Calls, NEW rev \in 1 .. MaxConfig, Refresh(c, rev), calls[c] = IdleCall
    PROVE  /\ calls' \in [Calls -> CallRecords]
           /\ \A d \in Calls \ {c} :
                  \/ calls'[d] = calls[d] /\ (calls[d].api = "apply" => ~Running(d))
                  \/ /\ calls[d].api = "apply" /\ Running(d) /\ calls'[d].doomed
                     /\ calls'[d] = [calls[d] EXCEPT !.doomed = TRUE]
           /\ Begun(calls'[c], "apply", "spawned") /\ calls'[c].n = rev /\ calls'[c].rt.rev = 0
           /\ calls'[c].persona = target[rev]
           /\ StateReads(state.session.responses, state.active_request, state.request_revision,
                         NoVoice, state.pending_cfg, state.switching, state.shutting_down)
           /\ UiFree /\ Spawnable(rev) /\ state'.store = state.store /\ state'.session = state.session
  <1> DEFINE o == Opened(c, "apply", "spawned")
             r == [o EXCEPT !.n = rev, !.persona = target[rev]]
             doomed(d) == [calls[d] EXCEPT !.doomed = TRUE]
  <1>1. calls' = [d \in Calls |-> IF d = c THEN r
                                  ELSE IF calls[d].api = "apply" /\ Running(d) THEN doomed(d) ELSE calls[d]]
    BY Zenon DEF Refresh
  <1>2. /\ r \in CallRecords /\ Begun(r, "apply", "spawned") /\ r.n = rev /\ r.rt.rev = 0
        /\ r.persona = target[rev]
    <2>1. "apply" \in ApiNames /\ "spawned" \in Places /\ target[rev] \in Personas /\ rev \in Nat
      BY AgentAssumption DEF ApiNames, Apis, Places, IInv, RuntimeOK, AgentAssumption
    <2>2. /\ o \in CallRecords /\ Begun(o, "apply", "spawned") /\ o.rt.rev = 0
      BY <2>1, StateIs, OpenedIs
    <2> HIDE DEF o
    <2>3. QED
      BY <2>1, <2>2 DEF CallRecords, Begun
  <1>3. \A d \in Calls : doomed(d) \in CallRecords /\ doomed(d).doomed
    BY StateIs DEF CallRecords
  <1>4. StateReads(state.session.responses, state.active_request, state.request_revision,
                   NoVoice, state.pending_cfg, state.switching, state.shutting_down)
        /\ state'.store = state.store /\ state'.session = state.session
    BY StateIs, NoVoiceTyped DEF Refresh, StateReads, Reads, States
  <1>5. calls \in [Calls -> CallRecords]
    BY StateIs
  <1> HIDE DEF r
  <1>6. calls'[c] = r
    BY <1>1
  <1>7. ASSUME NEW d \in Calls \ {c}
        PROVE  \/ calls'[d] = calls[d] /\ (calls[d].api = "apply" => ~Running(d))
               \/ calls[d].api = "apply" /\ Running(d) /\ calls'[d] = doomed(d)
    BY <1>1
  <1>8. calls' \in [Calls -> CallRecords]
    <2> HIDE DEF doomed
    <2>1. QED
      BY <1>1, <1>2, <1>3, <1>5
  <1>9. QED
    BY <1>2, <1>3, <1>4, <1>6, <1>7, <1>8 DEF Refresh

LEMMA ApplyReturnsIs ==
    ASSUME IInv, NEW c \in Calls, ApplyReject(c) \/ ApplyDone(c) \/ Finish(c)
    PROVE  /\ Only(c) /\ SameReads /\ UNCHANGED <<target, runtime, state, stores, docs, queue, faults>>
           /\ \/ /\ calls[c].api = "apply" /\ calls[c].pc = "spawned"
                 /\ \/ Outdated(calls[c].n) /\ Returned(calls[c], calls'[c], "rejected")
                    \/ state.shutting_down /\ Returned(calls[c], calls'[c], "error")
              \/ calls[c].api = "apply" /\ calls[c].pc = "applied" /\ Returned(calls[c], calls'[c], "applied")
              \/ calls[c].pc = "ended" /\ Returned(calls[c], calls'[c], "ended")
  <1>1. "rejected" \in Outs /\ "error" \in Outs /\ "applied" \in Outs /\ "ended" \in Outs
    BY DEF Outs
  <1>2. SameReads /\ UNCHANGED <<target, runtime, state, stores, docs, queue, faults>>
    BY SameState DEF ApplyReject, ApplyDone, Finish
  <1>3. CASE ApplyReject(c)
    BY <1>1, <1>2, <1>3, StateIs, ReturnIs DEF ApplyReject, At
  <1>4. CASE ApplyDone(c)
    BY <1>1, <1>2, <1>4, StateIs, ReturnIs DEF ApplyDone, At
  <1>5. CASE Finish(c)
    BY <1>1, <1>2, <1>5, StateIs, ReturnIs DEF Finish
  <1>6. QED
    BY <1>3, <1>4, <1>5

LEMMA ApplySamePersonaIs ==
    ASSUME IInv, NEW c \in Calls, ApplySamePersona(c)
    PROVE  /\ Only(c) /\ Goes(calls[c], calls'[c]) /\ calls'[c].out = calls[c].out
           /\ Accepted(c) /\ calls[c].api = "apply" /\ calls[c].pc = "spawned"
           /\ calls[c].persona = runtime.persona
           /\ calls'[c].pc = "persist_weak" /\ calls'[c].then = "applied"
           /\ StateReads(state.session.responses, NoRequest, state.request_revision, NoVoice,
                         calls[c].n, FALSE, state.shutting_down)
           /\ runtime'.rev = runtime.rev + 1 /\ runtime'.cfg = calls[c].n
           /\ runtime'.persona = runtime.persona
           /\ UNCHANGED <<target, stores, docs, queue, faults>>
  <1> DEFINE rev == calls[c].n
             s == Interrupted(state, rev)
             next == runtime.rev + 1
  <1>1. rev \in Nat /\ next \in Nat
    BY StateIs DEF CallRecords, Runtimes
  <1>2. runtime' = [runtime EXCEPT !.rev = next, !.cfg = rev] /\ state' = [s EXCEPT !.switching = FALSE]
    BY DEF ApplySamePersona
  <1>3. s \in States
        /\ Reads(s, state.session.responses, NoRequest, state.request_revision, NoVoice,
                 rev, state.switching, state.shutting_down)
    <2> HIDE DEF rev
    <2>1. QED
      BY <1>1, StateIs, InterruptedReads
  <1>4. Only(c) /\ Goes(calls[c], calls'[c]) /\ calls'[c].out = calls[c].out
        /\ calls'[c].pc = "persist_weak" /\ calls'[c].then = "applied"
    <2>1. "persist_weak" \in Places /\ "applied" \in Places
      BY DEF Places
    <2>2. QED
      BY <2>1, StateIs, ThenIs DEF ApplySamePersona
  <1>5. UNCHANGED <<target, stores, docs, queue, faults>> /\ Accepted(c)
        /\ calls[c].api = "apply" /\ calls[c].pc = "spawned" /\ calls[c].persona = runtime.persona
    BY DEF ApplySamePersona, Accepted, At
  <1>6. runtime'.rev = next /\ runtime'.cfg = rev /\ runtime'.persona = runtime.persona
    <2> HIDE DEF rev, next
    <2>1. QED
      BY <1>1, <1>2, StateIs DEF Runtimes
  <1>7. StateReads(state.session.responses, NoRequest, state.request_revision, NoVoice,
                   rev, FALSE, state.shutting_down)
    <2> HIDE DEF s, rev
    <2>1. QED
      BY <1>2, <1>3 DEF States, Reads, StateReads
  <1>8. QED
    BY <1>4, <1>5, <1>6, <1>7

LEMMA ApplySwitchIs ==
    ASSUME IInv, NEW c \in Calls, ApplySwitch(c)
    PROVE  /\ Only(c) /\ Goes(calls[c], calls'[c]) /\ calls'[c].out = calls[c].out
           /\ Accepted(c) /\ calls[c].api = "apply" /\ calls[c].pc = "spawned"
           /\ StateReads(state.session.responses, NoRequest, state.request_revision, NoVoice,
                         calls[c].n, TRUE, state.shutting_down)
           /\ \/ calls'[c].pc = "saved" /\ queue' = queue
              \/ /\ StoreOf(state).ok /\ calls'[c].pc = "saving"
                 /\ queue' = Append(queue, SaveOf(state', c))
           /\ UNCHANGED <<target, runtime, stores, docs, faults>> /\ state'.store = state.store
  <1> DEFINE rev == calls[c].n
             i == Interrupted(state, rev)
             b == Bumped(i)
  <1>1. rev \in Nat
    BY StateIs DEF CallRecords
  <1>2. i \in States /\ i.store = state.store
        /\ Reads(i, state.session.responses, NoRequest, state.request_revision, NoVoice,
                 rev, state.switching, state.shutting_down)
    <2> HIDE DEF rev
    <2>1. GoodState(state, runtime.persona)
      BY DEF IInv, StateOK
    <2>2. QED
      BY <1>1, <2>1, StateIs, InterruptedReads, InterruptedState
  <1>3. b \in States /\ b.store = state.store
        /\ Reads(b, state.session.responses, NoRequest, state.request_revision, NoVoice,
                 rev, state.switching, state.shutting_down)
    <2> HIDE DEF i, rev
    <2>1. b \in States /\ b.store = i.store
          /\ Reads(b, i.session.responses, i.active_request, i.request_revision, i.pending_voice,
                   i.pending_cfg, i.switching, i.shutting_down)
      BY <1>2, BumpedReads, BumpedState
    <2> HIDE DEF b
    <2>2. QED
      BY <1>2, <2>1 DEF Reads
  <1>4. state' = [b EXCEPT !.switching = TRUE]
    BY DEF ApplySwitch
  <1>5. StateReads(state.session.responses, NoRequest, state.request_revision, NoVoice,
                   rev, TRUE, state.shutting_down) /\ state'.store = state.store
    <2> HIDE DEF b, rev
    <2>1. QED
      BY <1>3, <1>4 DEF States, Reads, StateReads
  <1>6. Only(c) /\ Goes(calls[c], calls'[c]) /\ calls'[c].out = calls[c].out
        /\ calls'[c].pc = IF StoreOf(state).ok THEN "saving" ELSE "saved"
    <2> DEFINE pc == IF StoreOf(state).ok THEN "saving" ELSE "saved"
    <2>1. pc \in Places /\ Goto(c, pc)
      BY DEF Places, ApplySwitch
    <2> HIDE DEF pc
    <2>2. Only(c) /\ Goes(calls[c], calls'[c]) /\ calls'[c].out = calls[c].out /\ calls'[c].pc = pc
      BY <2>1, StateIs, GotoIs
    <2>3. QED
      BY <2>2 DEF pc
  <1>7. queue' = IF StoreOf(state).ok THEN Append(queue, SaveOf(state', c)) ELSE queue
    BY <1>5 DEF ApplySwitch, EnqueueSave, StoreOf
  <1>8. /\ Accepted(c) /\ calls[c].api = "apply" /\ calls[c].pc = "spawned"
        /\ UNCHANGED <<target, runtime, stores, docs, faults>>
    BY DEF ApplySwitch, Accepted, At
  <1>9. QED
    BY <1>5, <1>6, <1>7, <1>8

LEMMA ApplyLoadIs ==
    ASSUME IInv, NEW c \in Calls, ApplyLoad(c)
    PROVE  /\ Only(c) /\ Goes(calls[c], calls'[c]) /\ calls'[c].out = calls[c].out
           /\ calls[c].api = "apply" /\ calls[c].pc = "saved" /\ calls'[c].pc = "loading"
           /\ queue' = Append(queue, OpOf("load", c))
           /\ SameReads /\ UNCHANGED <<target, runtime, state, stores, docs, faults>>
  BY StateIs, GotoIs, SameState DEF ApplyLoad, At, Places

\* A switch that comes to nothing.
LEMMA ApplyFailsIs ==
    ASSUME IInv, NEW c \in Calls, ApplySaveFailed(c) \/ ApplyDiscard(c)
    PROVE  /\ Only(c) /\ calls[c].api = "apply"
           /\ \/ /\ calls[c].pc = "saved" /\ calls[c].out = "error"
                 /\ Returned(calls[c], calls'[c], "error")
                 /\ IF state.pending_cfg = calls[c].n /\ runtime.cfg < calls[c].n
                    THEN ~state'.switching ELSE state' = state
              \/ /\ calls[c].pc = "loaded" /\ ~StillPending(calls[c].n) /\ state' = state
                 /\ Returned(calls[c], calls'[c], "rejected")
              \/ /\ calls[c].pc = "loaded" /\ state.shutting_down
                 /\ Returned(calls[c], calls'[c], "error")
           /\ state'.switching \in {state.switching, FALSE}
           /\ StateReads(state.session.responses, state.active_request, state.request_revision,
                         state.pending_voice, state.pending_cfg, state'.switching, state.shutting_down)
           /\ UNCHANGED <<target, runtime, stores, docs, queue, faults>>
  <1>1. "rejected" \in Outs /\ "error" \in Outs
    BY DEF Outs
  <1>2. state' = state \/ state' = [state EXCEPT !.switching = FALSE]
    BY DEF ApplySaveFailed, ApplyDiscard
  <1>3. /\ state'.switching \in {state.switching, FALSE}
        /\ StateReads(state.session.responses, state.active_request, state.request_revision,
                      state.pending_voice, state.pending_cfg, state'.switching, state.shutting_down)
    BY <1>2, StateIs DEF States, StateReads, Reads
  <1>4. state' = [state EXCEPT !.switching = FALSE] => ~state'.switching
    BY StateIs DEF States
  <1>5. CASE ApplySaveFailed(c)
    BY <1>1, <1>3, <1>4, <1>5, StateIs, ReturnIs DEF ApplySaveFailed, At
  <1>6. CASE ApplyDiscard(c)
    BY <1>1, <1>3, <1>6, StateIs, ReturnIs DEF ApplyDiscard, At
  <1>7. QED
    BY <1>5, <1>6

LEMMA ApplyInstallIs ==
    ASSUME IInv, NEW c \in Calls, ApplyInstall(c)
    PROVE  /\ Only(c) /\ Returned(calls[c], calls'[c], "applied")
           /\ calls[c].api = "apply" /\ calls[c].pc = "loaded"
           /\ StillPending(calls[c].n) /\ ~state.shutting_down
           /\ \E responses \in Nat :
                  StateReads(responses, NoRequest, state.request_revision, NoVoice,
                             state.pending_cfg, FALSE, state.shutting_down)
           /\ runtime'.rev = runtime.rev + 1 /\ runtime'.cfg = calls[c].n
           /\ runtime'.persona = calls[c].persona
           /\ stores' = Append(stores, NewStore(calls[c].persona, calls[c].out # "unavailable"))
           /\ UNCHANGED <<target, docs, queue, faults>>
  <1> DEFINE loaded == calls[c].loaded
             a == Aborted(state)
             len == Len(stores')
             p == calls[c].persona
             n == calls[c].n
             next == runtime.rev + 1
  <1>1. Only(c) /\ Returned(calls[c], calls'[c], "applied")
    BY StateIs, ReturnIs DEF ApplyInstall, Outs
  <1>2. loaded \in Sessions /\ loaded.responses \in Nat /\ len \in Nat
    <2>1. calls[c].loaded \in Sessions
      BY StateIs DEF CallRecords
    <2>2. stores' \in Seq(Stores)
      BY ApplyInstallIInv DEF IInv, StoresOK
    <2>3. QED
      BY <2>1, <2>2, LenProperties DEF Sessions
  <1>3. /\ a \in States
        /\ Reads(a, state.session.responses, NoRequest, state.request_revision, state.pending_voice,
                 state.pending_cfg, state.switching, state.shutting_down)
    BY StateIs, AbortedReads
  <1>4. state' = [a EXCEPT !.session = loaded, !.store = len, !.persist_revision = 0,
                           !.pending_voice = NoVoice, !.switching = FALSE]
    BY DEF ApplyInstall
  <1>5. StateReads(loaded.responses, NoRequest, state.request_revision, NoVoice,
                   state.pending_cfg, FALSE, state.shutting_down)
    <2> HIDE DEF a, loaded, len
    <2>1. QED
      BY <1>2, <1>3, <1>4, NoVoiceTyped DEF States, StateReads, Reads
  <1>6. runtime'.rev = next /\ runtime'.cfg = n /\ runtime'.persona = p
    <2>1. runtime' = [persona |-> p, rev |-> next, cfg |-> n]
      BY DEF ApplyInstall
    <2> HIDE DEF p, next, n
    <2>2. QED
      BY <2>1
  <1>7. /\ calls[c].api = "apply" /\ calls[c].pc = "loaded"
        /\ StillPending(calls[c].n) /\ ~state.shutting_down
        /\ stores' = Append(stores, NewStore(calls[c].persona, calls[c].out # "unavailable"))
        /\ UNCHANGED <<target, docs, queue, faults>>
    BY DEF ApplyInstall, At
  <1>8. QED
    BY <1>1, <1>2, <1>5, <1>6, <1>7

LEMMA DropApplyIs ==
    ASSUME IInv, NEW c \in Calls, DropApply(c)
    PROVE  /\ Only(c) /\ Returned(calls[c], calls'[c], "dropped")
           /\ calls[c].doomed /\ calls[c].pc \in {"spawned", "saving", "saved", "loading", "loaded"}
           /\ queue' = Withdrawn(c)
           /\ SameReads /\ UNCHANGED <<target, runtime, state, stores, docs, faults>>
  BY StateIs, ReturnIs, SameState DEF DropApply, Outs

\* A record that a step of another call leaves alone, but for its history.
Kept(r, q) ==
    /\ q.api = r.api /\ q.pc = r.pc /\ q.then = r.then /\ q.n = r.n /\ q.persona = r.persona
    /\ q.rt = r.rt /\ q.rid = r.rid /\ q.out = r.out
    /\ r.pc = "idle" => q = r
    /\ q.doomed => r.doomed \/ (r.api = "apply" /\ r.pc \notin {"idle", "done"})
    /\ r.doomed => q.doomed
    /\ q.stale => \/ r.stale
                  \/ /\ r.api = "send" /\ r.pc \in {"input", "cloned"}
                     /\ state.request_revision < state'.request_revision

Others(c) == calls' \in [Calls -> CallRecords] /\ \A d \in Calls \ {c} : Kept(calls[d], calls'[d])

LEMMA KeptSame == ASSUME NEW r PROVE Kept(r, r)
  BY DEF Kept

LEMMA OnlyOthers == ASSUME NEW c \in Calls, Only(c) PROVE Others(c)
  BY KeptSame DEF Only, Others

\* Cancel, Suspend and VoiceStarted outdate the inputs that wait.
LEMMA OutdateIs ==
    ASSUME CallsOK, NEW c \in Calls, NEW r \in CallRecords,
           calls' = [Outdate(calls) EXCEPT ![c] = r],
           state.request_revision < state'.request_revision
    PROVE  Others(c) /\ calls'[c] = r /\ \A d \in Calls \ {c} : calls'[d].doomed = calls[d].doomed
  <1> DEFINE stale(d) == [calls[d] EXCEPT !.stale = TRUE]
             o == Outdate(calls)
  <1>1. \A d \in Calls : /\ stale(d) \in CallRecords /\ stale(d).doomed = calls[d].doomed
                         /\ (calls[d].api = "send" /\ calls[d].pc \in {"input", "cloned"})
                                => Kept(calls[d], stale(d))
    BY DEF CallsOK, CallRecords, Kept
  <1>2. o = [d \in Calls |-> IF calls[d].api = "send" /\ calls[d].pc \in {"input", "cloned"}
                             THEN stale(d) ELSE calls[d]]
    BY Zenon DEF Outdate
  <1> HIDE DEF stale
  <1>3. /\ o \in [Calls -> CallRecords]
        /\ \A d \in Calls : Kept(calls[d], o[d]) /\ o[d].doomed = calls[d].doomed
    BY <1>1, <1>2, KeptSame DEF CallsOK
  <1>4. calls' = [o EXCEPT ![c] = r]
    OBVIOUS
  <1> HIDE DEF o
  <1>5. calls' \in [Calls -> CallRecords] /\ calls'[c] = r /\ \A d \in Calls \ {c} : calls'[d] = o[d]
    BY <1>3, <1>4
  <1>6. QED
    BY <1>3, <1>5 DEF Others

LEMMA SendInputIs ==
    ASSUME IInv, NEW c \in Calls, calls[c] = IdleCall, SendInput(c)
    PROVE  /\ Only(c) /\ Begun(calls'[c], "send", "input") /\ calls'[c].rt.rev = 0
           /\ calls'[c].n = state.request_revision /\ UiFree
           /\ StateReads(state.session.responses, state.active_request, state.request_revision,
                         NoVoice, state.pending_cfg, state.switching, state.shutting_down)
           /\ UNCHANGED <<target, runtime, stores, docs, queue, faults>>
  <1> DEFINE o == Opened(c, "send", "input")
             n == state.request_revision
             r == [o EXCEPT !.n = n]
  <1>1. o \in CallRecords /\ Begun(o, "send", "input") /\ o.rt.rev = 0
    BY StateIs, OpenedIs DEF ApiNames, Apis, Places
  <1>2. n \in Nat
    BY StateIs DEF States
  <1>3. calls' = [calls EXCEPT ![c] = r]
    BY DEF SendInput
  <1>4. r \in CallRecords /\ Begun(r, "send", "input") /\ r.rt.rev = 0 /\ r.n = n
    <2> HIDE DEF o, n
    <2>1. QED
      BY <1>1, <1>2 DEF CallRecords, Begun
  <1>5. StateReads(state.session.responses, state.active_request, state.request_revision,
                   NoVoice, state.pending_cfg, state.switching, state.shutting_down)
    BY StateIs, NoVoiceTyped DEF SendInput, StateReads, Reads, States
  <1> HIDE DEF r
  <1>6. Only(c) /\ calls'[c] = r
    BY <1>3, <1>4, StateIs DEF Only
  <1>7. QED
    BY <1>4, <1>5, <1>6 DEF SendInput

LEMMA SendCloneIs ==
    ASSUME IInv, NEW c \in Calls, SendClone(c)
    PROVE  /\ Only(c) /\ calls[c].api = "send" /\ calls[c].pc = "input"
           /\ LET r == calls[c]
                  q == calls'[c]
              IN  /\ q.api = r.api /\ q.n = r.n /\ q.persona = r.persona /\ q.rid = r.rid
                  /\ q.out = r.out /\ q.doomed = r.doomed /\ q.stale = r.stale
                  /\ q.pc = "cloned" /\ q.rt = Clone
           /\ SameReads /\ UNCHANGED <<target, runtime, state, stores, docs, queue, faults>>
  <1> DEFINE rt == Clone
             r == [calls[c] EXCEPT !.pc = "cloned", !.rt = rt]
  <1>1. rt \in Clones /\ "cloned" \in Places /\ calls[c] \in CallRecords
    BY CloneTyped, StateIs DEF Places
  <1>2. calls' = [calls EXCEPT ![c] = r]
    BY DEF SendClone
  <1>3. /\ r \in CallRecords /\ r.api = calls[c].api /\ r.n = calls[c].n
        /\ r.persona = calls[c].persona /\ r.rid = calls[c].rid /\ r.out = calls[c].out
        /\ r.doomed = calls[c].doomed /\ r.stale = calls[c].stale /\ r.pc = "cloned" /\ r.rt = rt
    <2> HIDE DEF rt
    <2>1. QED
      BY <1>1 DEF CallRecords
  <1> HIDE DEF r
  <1>4. Only(c) /\ calls'[c] = r
    BY <1>2, <1>3, StateIs DEF Only
  <1>5. QED
    BY <1>3, <1>4, SameState DEF SendClone, At

\* The request that a send starts.
RequestOf(c) == [rid |-> state.session.responses + 1, rev |-> calls[c].rt.rev, call |-> c]

LEMMA SendStartIs ==
    ASSUME IInv, NEW c \in Calls, SendStart(c)
    PROVE  /\ Only(c) /\ calls[c].api = "send" /\ calls[c].pc = "cloned"
           /\ \/ /\ MayStart(c)
                 /\ LET r == calls[c]
                        q == calls'[c]
                    IN  /\ q.api = r.api /\ q.n = r.n /\ q.persona = r.persona /\ q.rt = r.rt
                        /\ q.out = r.out /\ q.doomed = r.doomed /\ q.stale = r.stale
                        /\ q.pc = "persist" /\ q.then = "streaming"
                        /\ q.rid = state.session.responses + 1
                 /\ StateReads(state.session.responses + 1, RequestOf(c), state.request_revision,
                               NoVoice, state.pending_cfg, state.switching, state.shutting_down)
              \/ Returned(calls[c], calls'[c], "error") /\ SameReads
           /\ UNCHANGED <<target, runtime, stores, docs, queue, faults>>
  <1> DEFINE rid == state.session.responses + 1
             q == Started(state.session)
             req == RequestOf(c)
  <1>1. CASE ~MayStart(c)
    <2>1. Return(c, "error") /\ UNCHANGED state /\ "error" \in Outs
      BY <1>1 DEF SendStart, Outs
    <2>2. QED
      BY <2>1, StateIs, ReturnIs, SameState DEF SendStart, At
  <1>2. CASE MayStart(c)
    <2>1. rid \in Nat /\ calls[c] \in CallRecords
      BY StateIs DEF Sessions
    <2>2. q \in Sessions /\ q.responses = rid
      <3>1. GoodSession(q)
        BY <1>2, StateIs, StartedGood DEF MayStart
      <3>2. QED
        BY <3>1, StateIs, SessionCounters DEF GoodSession
    <2>3. req \in Requests
      <3> DEFINE rev == calls[c].rt.rev
      <3>1. rev \in Nat
        BY <2>1 DEF CallRecords, Clones
      <3>2. req = [rid |-> rid, rev |-> rev, call |-> c]
        BY DEF RequestOf
      <3> HIDE DEF rid, rev
      <3>3. QED
        BY <2>1, <3>1, <3>2 DEF Requests, Actors
    <2>4. state' = [state EXCEPT !.session = q, !.pending_voice = NoVoice, !.active_request = req]
      BY <1>2 DEF SendStart, RequestOf
    <2>5. StateReads(rid, req, state.request_revision, NoVoice, state.pending_cfg,
                     state.switching, state.shutting_down)
      <3> HIDE DEF q, req, rid
      <3>1. QED
        BY <2>2, <2>3, <2>4, StateIs, NoVoiceTyped DEF States, StateReads, Reads
    <2> DEFINE r == [calls[c] EXCEPT !.rid = rid, !.pc = "persist", !.then = "streaming"]
    <2>6. calls' = [calls EXCEPT ![c] = r]
      BY <1>2 DEF SendStart
    <2>7. /\ r \in CallRecords /\ r.api = calls[c].api /\ r.n = calls[c].n
          /\ r.persona = calls[c].persona /\ r.rt = calls[c].rt /\ r.out = calls[c].out
          /\ r.doomed = calls[c].doomed /\ r.stale = calls[c].stale /\ r.pc = "persist"
          /\ r.then = "streaming" /\ r.rid = rid
      <3> HIDE DEF rid
      <3>1. "persist" \in Places /\ "streaming" \in Places
        BY DEF Places
      <3>2. QED
        BY <2>1, <3>1 DEF CallRecords
    <2> HIDE DEF r
    <2>8. Only(c) /\ calls'[c] = r
      BY <2>6, <2>7, StateIs DEF Only
    <2>9. QED
      BY <1>2, <2>5, <2>7, <2>8 DEF SendStart, At
  <1>3. QED
    BY <1>1, <1>2

\* The answer ends: the request is released.
EndReads ==
    StateReads(state.session.responses, NoRequest, state.request_revision, state.pending_voice,
               state.pending_cfg, state.switching, state.shutting_down)

LEMMA EndIs ==
    ASSUME IInv, NEW st \in Terminal, state' = [Aborted(state) EXCEPT !.session = Ended(@, st)]
    PROVE  EndReads
  <1> DEFINE a == Aborted(state)
             q == Ended(state.session, st)
  <1>1. /\ a \in States /\ a.session = state.session
        /\ Reads(a, state.session.responses, NoRequest, state.request_revision, state.pending_voice,
                 state.pending_cfg, state.switching, state.shutting_down)
    BY StateIs, AbortedReads
  <1>2. q = Ended(a.session, st) /\ state' = [a EXCEPT !.session = q] /\ GoodSession(a.session)
    BY <1>1, StateIs
  <1> HIDE DEF a, q
  <1>3. Reads(state', a.session.responses, a.active_request, a.request_revision, a.pending_voice,
              a.pending_cfg, a.switching, a.shutting_down)
    BY <1>1, <1>2, EndedReads
  <1>4. QED
    BY <1>1, <1>3 DEF Reads, EndReads, StateReads

LEMMA StreamEventIs ==
    ASSUME IInv, NEW c \in Calls, StreamEvent(c)
    PROVE  /\ Only(c) /\ Goes(calls[c], calls'[c]) /\ calls'[c].out = calls[c].out
           /\ calls[c].api = "send" /\ calls[c].pc = "streaming"
           /\ \/ ~Mine(c) /\ calls'[c].pc = "ending" /\ SameReads
              \/ calls'[c].pc = "persist_weak" /\ calls'[c].then = "streaming" /\ SameReads
              \/ calls'[c].pc = "persist" /\ calls'[c].then = "ending" /\ EndReads
           /\ UNCHANGED <<target, runtime, stores, docs, queue, faults>>
  <1>0. /\ "ending" \in Places /\ "persist" \in Places /\ "persist_weak" \in Places
        /\ "streaming" \in Places /\ EndState \subseteq Terminal
    BY DEF Places, EndState, Terminal
  <1>1. CASE ~Mine(c) /\ Goto(c, "ending") /\ UNCHANGED state
    BY <1>0, <1>1, StateIs, GotoIs, SameState DEF StreamEvent, At
  <1>2. CASE /\ calls' = [calls EXCEPT ![c].events = @ + 1,
                                       ![c].pc = "persist_weak", ![c].then = "streaming"]
             /\ UNCHANGED state
    <2> DEFINE n == calls[c].events + 1
               r == [calls[c] EXCEPT !.events = n, !.pc = "persist_weak", !.then = "streaming"]
    <2>1. n \in Nat /\ calls[c] \in CallRecords
      BY StateIs DEF CallRecords
    <2>2. calls' = [calls EXCEPT ![c] = r]
      BY <1>2
    <2>3. /\ r \in CallRecords /\ Goes(calls[c], r) /\ r.out = calls[c].out
          /\ r.pc = "persist_weak" /\ r.then = "streaming"
      <3> HIDE DEF n
      <3>1. QED
        BY <1>0, <2>1 DEF CallRecords, Goes
    <2> HIDE DEF r
    <2>4. Only(c) /\ calls'[c] = r
      BY <2>2, <2>3, StateIs DEF Only
    <2>5. QED
      BY <1>2, <2>3, <2>4, SameState DEF StreamEvent, At
  <1>3. CASE /\ \E st \in EndState : state' = [Aborted(state) EXCEPT !.session = Ended(@, st)]
             /\ PersistThen(c, "persist", "ending")
    <2>1. EndReads
      BY <1>0, <1>3, EndIs
    <2>2. QED
      BY <1>0, <1>3, <2>1, StateIs, ThenIs DEF PersistThen, StreamEvent, At
  <1>4. QED
    BY <1>1, <1>2, <1>3 DEF StreamEvent

LEMMA SendEndIs ==
    ASSUME IInv, NEW c \in Calls, SendEnd(c)
    PROVE  /\ Only(c) /\ calls[c].api = "send" /\ calls[c].pc = "ending"
           /\ \/ /\ Goes(calls[c], calls'[c]) /\ calls'[c].out = calls[c].out
                 /\ calls'[c].pc = "persist" /\ calls'[c].then = "ended" /\ EndReads
              \/ /\ ~(Mine(c) /\ state.active_request.call = c)
                 /\ Returned(calls[c], calls'[c], "ended") /\ SameReads
           /\ UNCHANGED <<target, runtime, stores, docs, queue, faults>>
  <1>0. "ended" \in Places /\ "persist" \in Places /\ "failed" \in Terminal /\ "ended" \in Outs
    BY DEF Places, Terminal, Outs
  <1>1. CASE Mine(c) /\ state.active_request.call = c
    <2>1. /\ state' = [Aborted(state) EXCEPT !.session = Ended(@, "failed")]
          /\ PersistThen(c, "persist", "ended")
      BY <1>1 DEF SendEnd
    <2>2. EndReads
      BY <1>0, <2>1, EndIs
    <2>3. /\ Only(c) /\ Goes(calls[c], calls'[c]) /\ calls'[c].out = calls[c].out
          /\ calls'[c].pc = "persist" /\ calls'[c].then = "ended"
      BY <1>0, <2>1, StateIs, ThenIs DEF PersistThen
    <2>4. QED
      BY <2>2, <2>3 DEF SendEnd, At
  <1>2. CASE ~(Mine(c) /\ state.active_request.call = c)
    <2>1. Return(c, "ended") /\ UNCHANGED state
      BY <1>2 DEF SendEnd
    <2>2. QED
      BY <1>0, <1>2, <2>1, StateIs, ReturnIs, SameState DEF SendEnd, At
  <1>3. QED
    BY <1>1, <1>2

LEMMA StreamClosedIs ==
    ASSUME IInv, NEW c \in Calls, StreamClosed(c)
    PROVE  /\ Only(c) /\ Goes(calls[c], calls'[c]) /\ calls'[c].out = calls[c].out
           /\ calls[c].api = "send" /\ calls[c].pc = "streaming" /\ calls'[c].pc = "ending"
           /\ SameReads /\ UNCHANGED <<target, runtime, state, stores, docs, queue, faults>>
  BY StateIs, GotoIs, SameState DEF StreamClosed, At, Places

\* A call that begins and ends with the save it may make.
LEMMA EndingIs ==
    ASSUME CallsOK, NEW c \in Calls, calls[c] = IdleCall, NEW api \in ApiNames, NEW pc \in Places,
           NEW r, r = [Opened(c, api, pc) EXCEPT !.then = "ended"]
    PROVE  r \in CallRecords /\ Begun(r, api, pc) /\ r.rt.rev = 0 /\ r.then = "ended"
  <1> DEFINE o == Opened(c, api, pc)
  <1>1. o \in CallRecords /\ Begun(o, api, pc) /\ o.rt.rev = 0 /\ "ended" \in Places
    BY OpenedIs DEF Places
  <1> HIDE DEF o
  <1>2. QED
    BY <1>1 DEF CallRecords, Begun, o

LEMMA NewRequestsIs ==
    ASSUME IInv
    PROVE  LET s == NewRequests(Aborted(state))
           IN  /\ s \in States /\ s.session = state.session
               /\ Reads(s, state.session.responses, NoRequest, state.request_revision + 1,
                        state.pending_voice, state.pending_cfg, state.switching, state.shutting_down)
  <1> DEFINE a == Aborted(state)
  <1>1. /\ a \in States /\ a.session = state.session
        /\ Reads(a, state.session.responses, NoRequest, state.request_revision, state.pending_voice,
                 state.pending_cfg, state.switching, state.shutting_down)
    BY StateIs, AbortedReads
  <1> HIDE DEF a
  <1> DEFINE s == NewRequests(a)
  <1>2. /\ s \in States /\ s.session = a.session
        /\ Reads(s, a.session.responses, a.active_request, a.request_revision + 1,
                 a.pending_voice, a.pending_cfg, a.switching, a.shutting_down)
    BY <1>1, NewRequestsReads
  <1> HIDE DEF s
  <1>3. /\ s \in States /\ s.session = state.session
        /\ Reads(s, state.session.responses, NoRequest, state.request_revision + 1,
                 state.pending_voice, state.pending_cfg, state.switching, state.shutting_down)
    BY <1>1, <1>2 DEF Reads
  <1>4. QED
    BY <1>3 DEF s, a

\* What the calls that outdate inputs leave in the state.
OutdatedReads(voice) ==
    StateReads(state.session.responses, NoRequest, state.request_revision + 1, voice,
               state.pending_cfg, state.switching, state.shutting_down)

LEMMA OutdatedReadsIs ==
    ASSUME IInv, NEW q \in Sessions, q.responses = state.session.responses, NEW v \in Voices,
           \/ state' = [NewRequests(Aborted(state)) EXCEPT !.session = q] /\ v = state.pending_voice
           \/ /\ state' = [NewRequests(Aborted(state)) EXCEPT
                              !.suspended = TRUE, !.pending_voice = NoVoice, !.session = q]
              /\ v = NoVoice
           \/ state' = [NewRequests(Aborted(state)) EXCEPT !.pending_voice = v, !.session = q]
    PROVE  OutdatedReads(v) /\ state.request_revision < state'.request_revision
  <1> DEFINE s == NewRequests(Aborted(state))
             n == state.request_revision + 1
  <1>1. /\ s \in States
        /\ Reads(s, state.session.responses, NoRequest, n,
                 state.pending_voice, state.pending_cfg, state.switching, state.shutting_down)
    BY NewRequestsIs
  <1>2. n \in Nat /\ state.request_revision < n
    BY StateIs DEF States
  <1>3. \/ state' = [s EXCEPT !.session = q] /\ v = state.pending_voice
        \/ state' = [s EXCEPT !.suspended = TRUE, !.pending_voice = NoVoice, !.session = q] /\ v = NoVoice
        \/ state' = [s EXCEPT !.pending_voice = v, !.session = q]
    OBVIOUS
  <1>4. StateReads(state.session.responses, NoRequest, n, v,
                   state.pending_cfg, state.switching, state.shutting_down)
    <2> HIDE DEF s, n
    <2>1. QED
      BY <1>1, <1>2, <1>3, NoVoiceTyped DEF States, StateReads, Reads
  <1>5. QED
    BY <1>2, <1>4 DEF OutdatedReads, StateReads, Reads

\* Nobody's doom changes.
SameDoom(c) == \A d \in Calls \ {c} : calls'[d].doomed = calls[d].doomed

\* Cancel and Suspend.
LEMMA SilenceIs ==
    ASSUME IInv, NEW c \in Calls, calls[c] = IdleCall, Cancel(c) \/ Suspend(c)
    PROVE  /\ Others(c) /\ SameDoom(c) /\ UiFree
           /\ \E api \in {"cancel", "suspend"}, pc \in {"persist", "ended"} :
                  Enter(c, api) /\ Begun(calls'[c], api, pc) /\ calls'[c].rt.rev = 0
           /\ calls'[c].then = "ended"
           /\ OutdatedReads(state.pending_voice) \/ OutdatedReads(NoVoice)
           /\ UNCHANGED <<target, runtime, stores, docs, queue, faults>>
  <1> DEFINE pc == IF state.session.active # 0 THEN "persist" ELSE "ended"
             v == [Opened(c, "suspend", pc) EXCEPT !.then = "ended"]
             r == [Opened(c, "cancel", "persist") EXCEPT !.then = "ended"]
             q == Ended(state.session, "cancelled")
             p == Discarded(state.session)
  <1>1. /\ r \in CallRecords /\ Begun(r, "cancel", "persist") /\ r.rt.rev = 0 /\ r.then = "ended"
        /\ v \in CallRecords /\ Begun(v, "suspend", pc) /\ v.rt.rev = 0 /\ v.then = "ended"
        /\ pc \in {"persist", "ended"}
    <2>1. /\ "cancel" \in ApiNames /\ "suspend" \in ApiNames /\ "persist" \in Places
          /\ pc \in Places
      BY DEF ApiNames, Apis, Places
    <2> HIDE DEF pc
    <2>2. /\ r \in CallRecords /\ Begun(r, "cancel", "persist") /\ r.rt.rev = 0 /\ r.then = "ended"
      BY <2>1, StateIs, EndingIs
    <2>3. /\ v \in CallRecords /\ Begun(v, "suspend", pc) /\ v.rt.rev = 0 /\ v.then = "ended"
      BY <2>1, StateIs, EndingIs
    <2>4. QED
      BY <2>2, <2>3 DEF pc
  <1>2. q \in Sessions /\ q.responses = state.session.responses
    <2>1. "cancelled" \in Terminal
      BY DEF Terminal
    <2>2. QED
      BY <2>1, StateIs, EndedQuiet, SessionCounters DEF QuietSession, GoodSession
  <1>3. p \in Sessions /\ p.responses = state.session.responses
    BY StateIs, DiscardedQuiet, SessionCounters DEF QuietSession, GoodSession
  <1>4. CASE Cancel(c)
    <2>1. NewRequests(Aborted(state)).session = state.session
      BY NewRequestsIs
    <2>2. state' = [NewRequests(Aborted(state)) EXCEPT !.session = q]
      BY <1>4, <2>1 DEF Cancel
    <2>3. OutdatedReads(state.pending_voice) /\ state.request_revision < state'.request_revision
      <3> HIDE DEF q
      <3>1. QED
        BY <1>2, <2>2, StateIs, OutdatedReadsIs DEF States
    <2>4. calls' = [Outdate(calls) EXCEPT ![c] = r]
      BY <1>4 DEF Cancel
    <2> HIDE DEF r, v, pc
    <2>5. Others(c) /\ calls'[c] = r /\ SameDoom(c)
      BY <1>1, <2>3, <2>4, StateIs, OutdateIs DEF SameDoom
    <2>6. QED
      BY <1>1, <1>4, <2>3, <2>5 DEF Cancel, UiStep
  <1>5. CASE Suspend(c)
    <2>1. NewRequests(Aborted(state)).session = state.session
      BY NewRequestsIs
    <2>2. state' = [NewRequests(Aborted(state)) EXCEPT
                       !.suspended = TRUE, !.pending_voice = NoVoice, !.session = p]
      BY <1>5, <2>1 DEF Suspend
    <2>3. OutdatedReads(NoVoice) /\ state.request_revision < state'.request_revision
      <3> HIDE DEF p
      <3>1. QED
        BY <1>3, <2>2, NoVoiceTyped, OutdatedReadsIs
    <2>4. calls' = [Outdate(calls) EXCEPT ![c] = v]
      BY <1>5 DEF Suspend
    <2> HIDE DEF r, v, pc
    <2>5. Others(c) /\ calls'[c] = v /\ SameDoom(c)
      BY <1>1, <2>3, <2>4, StateIs, OutdateIs DEF SameDoom
    <2>6. QED
      BY <1>1, <1>5, <2>3, <2>5 DEF Suspend, UiStep
  <1>6. QED
    BY <1>4, <1>5

LEMMA VoiceStartedIs ==
    ASSUME IInv, NEW c \in Calls, VoiceStarted(c)
    PROVE  /\ Others(c) /\ SameDoom(c) /\ calls[c].api = "voice" /\ calls[c].pc = "cloned"
           /\ \/ Only(c) /\ Returned(calls[c], calls'[c], "none") /\ SameReads
              \/ /\ Goes(calls[c], calls'[c]) /\ calls'[c].out = calls[c].out
                 /\ calls'[c].pc \in {"persist", "ended"} /\ calls'[c].then = "ended"
                 /\ state.session.active # 0 => calls'[c].pc = "persist"
                 /\ \E v \in Voices : OutdatedReads(v)
           /\ UNCHANGED <<target, runtime, stores, docs, queue, faults>>
  <1> DEFINE rev == calls[c].rt.rev
             voice == [utterance |-> calls[c].n, rev |-> rev, persona |-> calls[c].rt.persona]
             refused == state.shutting_down \/ state.pending_voice.utterance >= calls[c].n
             pc == IF state.session.active # 0 THEN "persist" ELSE "ended"
             q == Ended(state.session, "voice")
             r == [calls[c] EXCEPT !.pc = pc, !.then = "ended"]
  <1>1. CASE refused
    <2>1. Return(c, "none") /\ UNCHANGED state /\ "none" \in Outs
      BY <1>1 DEF VoiceStarted, Outs
    <2>2. Only(c) /\ Returned(calls[c], calls'[c], "none") /\ SameReads
      BY <2>1, StateIs, ReturnIs, SameState
    <2>3. Others(c) /\ SameDoom(c)
      BY <2>2, OnlyOthers DEF Only, SameDoom
    <2>4. QED
      BY <2>2, <2>3 DEF VoiceStarted, At
  <1>2. CASE ~refused
    <2>1. voice \in Voices
      BY StateIs DEF CallRecords, Clones, Voices
    <2>2. q \in Sessions /\ q.responses = state.session.responses
      <3>1. "voice" \in Terminal
        BY DEF Terminal
      <3>2. QED
        BY <3>1, StateIs, EndedQuiet, SessionCounters DEF QuietSession, GoodSession
    <2>3. OutdatedReads(voice) /\ state.request_revision < state'.request_revision
      <3>1. NewRequests(Aborted(state)).session = state.session
        BY NewRequestsIs
      <3>2. state' = [NewRequests(Aborted(state)) EXCEPT !.pending_voice = voice, !.session = q]
        BY <1>2, <3>1 DEF VoiceStarted
      <3> HIDE DEF q, voice
      <3>3. QED
        BY <2>1, <2>2, <3>2, OutdatedReadsIs
    <2>4. calls' = [Outdate(calls) EXCEPT ![c] = r]
      <3>1. Outdate(calls)[c] = calls[c]
        BY DEF Outdate, VoiceStarted, At
      <3>2. calls' = [Outdate(calls) EXCEPT ![c].pc = pc, ![c].then = "ended"]
        BY <1>2 DEF VoiceStarted
      <3> DEFINE o == Outdate(calls)
      <3>3. o = [d \in Calls |-> o[d]]
        BY DEF Outdate
      <3>4. calls' = [o EXCEPT ![c] = [o[c] EXCEPT !.pc = pc, !.then = "ended"]]
        <4> HIDE DEF o, pc
        <4>1. QED
          BY <3>2, <3>3 DEF o
      <3>5. QED
        BY <3>1, <3>4
    <2>5. /\ r \in CallRecords /\ Goes(calls[c], r) /\ r.out = calls[c].out
          /\ r.pc = pc /\ r.pc \in {"persist", "ended"} /\ r.then = "ended"
      <3>1. pc \in {"persist", "ended"} /\ pc \in Places /\ "ended" \in Places /\ calls[c] \in CallRecords
        BY StateIs DEF Places
      <3> HIDE DEF pc
      <3>2. QED
        BY <3>1 DEF CallRecords, Goes
    <2> HIDE DEF r, voice
    <2>6. Others(c) /\ calls'[c] = r /\ SameDoom(c)
      BY <2>3, <2>4, <2>5, StateIs, OutdateIs DEF SameDoom
    <2>7. QED
      BY <2>1, <2>3, <2>5, <2>6 DEF VoiceStarted, At
  <1>3. QED
    BY <1>1, <1>2

\* The fields a call that begins, or that takes an utterance, leaves as they are.
VoiceReads(voice) ==
    StateReads(state.session.responses, state.active_request, state.request_revision, voice,
               state.pending_cfg, state.switching, state.shutting_down)

\* Resume, VoiceClone, CancelVoice and EditClone open a call.
LEMMA OpensIs ==
    ASSUME IInv, NEW c \in Calls, calls[c] = IdleCall,
           \/ Resume(c)
           \/ \E u \in Utterances : VoiceClone(c, "voice", u) \/ VoiceClone(c, "take", u) \/ CancelVoice(c, u)
           \/ EditCall(c)
    PROVE  /\ Only(c) /\ (VoiceReads(state.pending_voice) \/ VoiceReads(NoVoice))
           /\ \E api \in Apis \ {"apply", "send"}, pc \in {"cloned", "ended"} :
                  /\ Enter(c, api) /\ Begun(calls'[c], api, pc)
                  /\ api \in UiApis => UiFree
                  /\ api = "take" => pc = "cloned" /\ calls'[c].rt = Clone /\ calls'[c].n # 0
                  /\ api \in UiApis \/ (api \in Edits /\ pc = "cloned" /\ calls'[c].rt = Clone)
           /\ calls'[c].rt.rev = 0 \/ calls'[c].rt = Clone
           /\ UNCHANGED <<target, runtime, stores, docs, queue, faults>>
  <1> DEFINE Is(r, api, pc) == /\ r \in CallRecords /\ Begun(r, api, pc) /\ calls' = [calls EXCEPT ![c] = r]
                               /\ r.rt.rev = 0 \/ r.rt = Clone
  <1>0. /\ Apis \subseteq ApiNames /\ "cloned" \in Places /\ "ended" \in Places
        /\ Clone \in Clones /\ FirstPersona \in Personas /\ Utterances \subseteq Nat \ {0}
    BY CloneTyped, AgentAssumption DEF ApiNames, Places, AgentAssumption
  <1>1. CASE Resume(c)
    <2>1. VoiceReads(state.pending_voice)
      BY <1>1, StateIs DEF Resume, States, VoiceReads, StateReads, Reads
    <2>2. Is(Opened(c, "resume", "ended"), "resume", "ended")
      BY <1>0, <1>1, StateIs, OpenedIs DEF Resume, Apis
    <2>3. Only(c) /\ Begun(calls'[c], "resume", "ended") /\ (calls'[c].rt.rev = 0 \/ calls'[c].rt = Clone)
      BY <2>2, StateIs DEF Only
    <2>4. QED
      BY <1>1, <2>1, <2>3 DEF Resume, UiStep, Apis, UiApis
  <1>2. ASSUME NEW u \in Utterances, NEW api \in {"voice", "take"}, VoiceClone(c, api, u)
        PROVE  /\ Only(c) /\ Begun(calls'[c], api, "cloned") /\ calls'[c].rt = Clone /\ calls'[c].n # 0
               /\ VoiceReads(state.pending_voice) /\ UiFree /\ Enter(c, api)
               /\ UNCHANGED <<target, runtime, stores, docs, queue, faults>>
    <2> DEFINE o == Opened(c, api, "cloned")
               rt == Clone
               r == [o EXCEPT !.n = u, !.rt = rt]
    <2>1. api \in ApiNames /\ u \in Nat /\ u # 0 /\ rt \in Clones
      BY <1>0 DEF Apis
    <2>2. calls' = [calls EXCEPT ![c] = r] /\ UNCHANGED state
      BY <1>2 DEF VoiceClone
    <2>3. VoiceReads(state.pending_voice)
      BY <2>2 DEF VoiceReads, StateReads, Reads
    <2>4. o \in CallRecords /\ Begun(o, api, "cloned")
      BY <1>0, <2>1, StateIs, OpenedIs
    <2>5. r \in CallRecords /\ Begun(r, api, "cloned") /\ r.rt = rt /\ r.n = u
      <3> HIDE DEF o, rt
      <3>1. QED
        BY <2>1, <2>4 DEF CallRecords, Begun
    <2> HIDE DEF r
    <2>6. Only(c) /\ calls'[c] = r
      BY <2>2, <2>5, StateIs DEF Only
    <2>7. QED
      BY <1>2, <2>1, <2>3, <2>5, <2>6 DEF VoiceClone, UiStep
  <1>3. ASSUME NEW u \in Utterances, CancelVoice(c, u)
        PROVE  /\ Only(c) /\ Begun(calls'[c], "unvoice", "ended") /\ calls'[c].rt.rev = 0
               /\ VoiceReads(NoVoice) /\ UiFree /\ Enter(c, "unvoice")
               /\ UNCHANGED <<target, runtime, stores, docs, queue, faults>>
    <2> DEFINE o == Opened(c, "unvoice", "ended")
               r == [o EXCEPT !.n = u]
    <2>1. VoiceReads(NoVoice)
      BY <1>3, StateIs, NoVoiceTyped DEF CancelVoice, States, VoiceReads, StateReads, Reads
    <2>2. calls' = [calls EXCEPT ![c] = r]
      BY <1>3 DEF CancelVoice
    <2>3. o \in CallRecords /\ Begun(o, "unvoice", "ended") /\ o.rt.rev = 0
      BY <1>0, StateIs, OpenedIs DEF Apis
    <2>4. r \in CallRecords /\ Begun(r, "unvoice", "ended") /\ r.rt.rev = 0
      <3> HIDE DEF o
      <3>1. QED
        BY <1>0, <2>3 DEF CallRecords, Begun
    <2> HIDE DEF r
    <2>5. Only(c) /\ calls'[c] = r
      BY <2>2, <2>4, StateIs DEF Only
    <2>6. QED
      BY <1>3, <2>1, <2>4, <2>5 DEF CancelVoice, UiStep
  <1>4. ASSUME NEW api \in {"delete", "edit", "clear"}, NEW p \in Personas, NEW n \in Nat,
               EditClone(c, api, p, n)
        PROVE  /\ Only(c) /\ Begun(calls'[c], api, "cloned") /\ calls'[c].rt = Clone
               /\ VoiceReads(state.pending_voice) /\ Enter(c, api)
               /\ UNCHANGED <<target, runtime, stores, docs, queue, faults>>
    <2> DEFINE o == Opened(c, api, "cloned")
               rt == Clone
               r == [o EXCEPT !.persona = p, !.n = n, !.rt = rt]
    <2>1. api \in ApiNames /\ rt \in Clones
      BY <1>0 DEF Apis
    <2>2. calls' = [calls EXCEPT ![c] = r] /\ UNCHANGED state
      BY <1>4 DEF EditClone
    <2>3. VoiceReads(state.pending_voice)
      BY <2>2 DEF VoiceReads, StateReads, Reads
    <2>4. o \in CallRecords /\ Begun(o, api, "cloned")
      BY <1>0, <2>1, StateIs, OpenedIs
    <2>5. r \in CallRecords /\ Begun(r, api, "cloned") /\ r.rt = rt
      <3> HIDE DEF o, rt
      <3>1. QED
        BY <2>1, <2>4 DEF CallRecords, Begun
    <2> HIDE DEF r
    <2>6. Only(c) /\ calls'[c] = r
      BY <2>2, <2>5, StateIs DEF Only
    <2>7. QED
      BY <1>4, <2>3, <2>5, <2>6 DEF EditClone
  <1>5. CASE \E u \in Utterances : VoiceClone(c, "voice", u) \/ VoiceClone(c, "take", u) \/ CancelVoice(c, u)
    <2>1. "voice" \in Apis \ {"apply", "send"} /\ "take" \in Apis \ {"apply", "send"}
          /\ "unvoice" \in Apis \ {"apply", "send"}
          /\ {"voice", "take", "unvoice"} \subseteq UiApis
      BY DEF Apis, UiApis
    <2>2. QED
      BY <1>2, <1>3, <1>5, <2>1
  <1>6. CASE EditCall(c)
    <2>1. PICK p \in Personas, n \in Nat, api \in {"delete", "edit", "clear"} : EditClone(c, api, p, n)
      <3>1. \A p \in Personas : Visible(p) \subseteq Nat
        BY VisibleNumbers
      <3>2. QED
        BY <1>6, <3>1 DEF EditCall
    <2>2. api \in Apis \ {"apply", "send"} /\ api \notin UiApis /\ api \in Edits
      BY DEF Apis, UiApis, Edits
    <2>3. QED
      BY <1>4, <2>1, <2>2
  <1>7. QED
    BY <1>1, <1>5, <1>6

LEMMA TakeTranscriptIs ==
    ASSUME IInv, NEW c \in Calls, TakeTranscript(c)
    PROVE  /\ Only(c) /\ calls[c].api = "take" /\ calls[c].pc = "cloned"
           /\ \E out \in {"none", "accepted"} :
                  /\ Returned(calls[c], calls'[c], out)
                  /\ out = "accepted" => VoiceFresh(c) /\ state.pending_voice.utterance = calls[c].n
           /\ VoiceReads(state.pending_voice) \/ VoiceReads(NoVoice)
           /\ UNCHANGED <<target, runtime, stores, docs, queue, faults>>
  <1>1. VoiceReads(state.pending_voice) \/ VoiceReads(NoVoice)
    BY StateIs, NoVoiceTyped DEF TakeTranscript, States, VoiceReads, StateReads, Reads
  <1> DEFINE out == IF VoiceFresh(c) THEN "accepted" ELSE "none"
  <1>2. CASE Return(c, "none")
    <2>1. Only(c) /\ Returned(calls[c], calls'[c], "none")
      BY <1>2, StateIs, ReturnIs DEF Outs
    <2>2. QED
      BY <1>1, <2>1 DEF TakeTranscript, At
  <1>3. CASE state.pending_voice.utterance = calls[c].n /\ Return(c, out)
    <2>1. out \in Outs /\ out \in {"none", "accepted"} /\ (out = "accepted" => VoiceFresh(c))
      BY DEF Outs
    <2> HIDE DEF out
    <2>2. Only(c) /\ Returned(calls[c], calls'[c], out)
      BY <1>3, <2>1, StateIs, ReturnIs
    <2>3. QED
      BY <1>1, <1>3, <2>1, <2>2 DEF TakeTranscript, At
  <1>4. QED
    BY <1>2, <1>3 DEF TakeTranscript

LEMMA EditElsewhereIs ==
    ASSUME IInv, NEW c \in Calls, EditElsewhere(c)
    PROVE  /\ Only(c) /\ Goes(calls[c], calls'[c]) /\ calls'[c].out = calls[c].out
           /\ calls[c].api \in Edits /\ calls[c].pc = "cloned" /\ calls'[c].pc = "waiting"
           /\ queue' = Append(queue, OpOf(calls[c].api, c))
           /\ SameReads /\ UNCHANGED <<target, runtime, state, stores, docs, faults>>
  BY StateIs, GotoIs, SameState DEF EditElsewhere, Places

\* What a call does that waits for its save, if there is a store to save in.
Waits(c) ==
    /\ Only(c)
    /\ \/ /\ StoreOf(state).ok /\ queue' = Append(queue, SaveOf(state', c))
          /\ Goes(calls[c], calls'[c]) /\ calls'[c].out = calls[c].out /\ calls'[c].pc = "waiting"
       \/ queue' = queue /\ Returned(calls[c], calls'[c], "error")

LEMMA SaveAndWaitIs ==
    ASSUME IInv, NEW c \in Calls, SaveAndWait(c, "error"), state'.store = state.store
    PROVE  Waits(c)
  <1>1. "waiting" \in Places /\ "error" \in Outs
    BY DEF Places, Outs
  <1>2. CASE StoreOf(state).ok
    <2>1. queue' = Append(queue, SaveOf(state', c)) /\ Goto(c, "waiting")
      BY <1>2 DEF SaveAndWait, EnqueueSave, StoreOf
    <2>2. QED
      BY <1>1, <1>2, <2>1, StateIs, GotoIs DEF Waits
  <1>3. CASE ~StoreOf(state).ok
    <2>1. queue' = queue /\ Return(c, "error")
      BY <1>3 DEF SaveAndWait, EnqueueSave, StoreOf
    <2>2. QED
      BY <1>1, <2>1, StateIs, ReturnIs DEF Waits
  <1>4. QED
    BY <1>2, <1>3

LEMMA EditHereIs ==
    ASSUME IInv, NEW c \in Calls, EditHere(c)
    PROVE  /\ Waits(c) /\ calls[c].api \in Edits /\ calls[c].pc = "cloned"
           /\ EndReads /\ state'.store = state.store
           /\ UNCHANGED <<target, runtime, stores, docs, faults>>
  <1> DEFINE p == runtime.persona
             a == Aborted(state)
             q == Ended(state.session, "interrupted")
             quiet == [a EXCEPT !.session = q]
             turns == Mutated(calls[c].api, q.turns, calls[c].n)
             m == [q EXCEPT !.turns = turns]
             edited == [quiet EXCEPT !.session = m]
  <1>2. QuietSession(q, p) /\ q \in Sessions /\ q.responses = state.session.responses
    BY StateIs, EndedQuiet, SessionCounters DEF Terminal, QuietSession, GoodSession
  <1>3. /\ a \in States /\ a.session = state.session /\ a.store = state.store
        /\ Reads(a, state.session.responses, NoRequest, state.request_revision, state.pending_voice,
                 state.pending_cfg, state.switching, state.shutting_down)
    BY StateIs, AbortedReads, AbortedState
  <1>4. /\ quiet \in States /\ quiet.session = q /\ quiet.store = state.store
        /\ Reads(quiet, state.session.responses, NoRequest, state.request_revision, state.pending_voice,
                 state.pending_cfg, state.switching, state.shutting_down)
    <2> HIDE DEF a, q
    <2>1. QED
      BY <1>2, <1>3 DEF States, Reads
  <1>5. m \in Sessions /\ m.responses = q.responses
    <2> DEFINE api == calls[c].api
               n == calls[c].n
    <2>1. GoodTurns(q.turns, p) /\ Streaming(q.turns) = {}
      BY <1>2 DEF QuietSession, GoodSession
    <2> HIDE DEF q, api, n
    <2>2. GoodTurns(turns, p)
      BY <2>1, MutatedTurns DEF api, n
    <2>3. turns \in SUBSET Turns
      BY <2>2 DEF GoodTurns
    <2> HIDE DEF turns
    <2>4. QED
      BY <1>2, <2>3 DEF Sessions
  <1>6. calls[c].api \in Edits /\ calls[c].pc = "cloned" /\ UNCHANGED <<target, runtime, stores, docs, faults>>
    BY DEF EditHere, Edits
  <1>7. CASE ~Has(q.turns, calls[c].n)
    <2>1. state' = quiet /\ Return(c, "error") /\ UNCHANGED queue /\ "error" \in Outs
      BY <1>3, <1>4, <1>7 DEF EditHere, Outs
    <2>2. Waits(c)
      BY <2>1, StateIs, ReturnIs DEF Waits
    <2>3. EndReads /\ state'.store = state.store
      BY <1>4, <2>1 DEF EndReads, StateReads
    <2>4. QED
      BY <1>6, <2>2, <2>3
  <1>8. CASE Has(q.turns, calls[c].n)
    <2>1. state' = Bumped(edited) /\ SaveAndWait(c, "error")
      BY <1>3, <1>4, <1>8 DEF EditHere
    <2>2. /\ edited \in States /\ edited.session = m /\ edited.store = state.store
          /\ Reads(edited, state.session.responses, NoRequest, state.request_revision, state.pending_voice,
                   state.pending_cfg, state.switching, state.shutting_down)
      <3> HIDE DEF quiet, m
      <3>1. QED
        BY <1>2, <1>4, <1>5 DEF States, Reads
    <2>3. EndReads /\ state'.store = state.store
      <3> HIDE DEF edited, m
      <3>1. /\ state'.store = edited.store
            /\ Reads(state', edited.session.responses, edited.active_request, edited.request_revision,
                     edited.pending_voice, edited.pending_cfg, edited.switching, edited.shutting_down)
        BY <2>1, <2>2, BumpedReads, BumpedState
      <3>2. QED
        BY <2>2, <3>1 DEF Reads, EndReads, StateReads
    <2>4. Waits(c)
      BY <2>1, <2>3, SaveAndWaitIs
    <2>5. QED
      BY <1>6, <2>3, <2>4
  <1>9. QED
    BY <1>7, <1>8

LEMMA ClearHereIs ==
    ASSUME IInv, NEW c \in Calls, ClearHere(c)
    PROVE  /\ Waits(c) /\ calls[c].api \in Edits /\ calls[c].pc = "cloned"
           /\ EndReads /\ state'.store = state.store
           /\ UNCHANGED <<target, runtime, stores, docs, faults>>
  <1> DEFINE a == Aborted(state)
             m == [[state.session EXCEPT !.turns = {}] EXCEPT !.active = 0]
             cleared == [a EXCEPT !.session = m]
  <1>1. m \in Sessions /\ m.responses = state.session.responses
    BY StateIs DEF Sessions
  <1>2. /\ a \in States /\ a.session = state.session /\ a.store = state.store
        /\ Reads(a, state.session.responses, NoRequest, state.request_revision, state.pending_voice,
                 state.pending_cfg, state.switching, state.shutting_down)
    BY StateIs, AbortedReads, AbortedState
  <1>3. /\ cleared \in States /\ cleared.store = state.store
        /\ Reads(cleared, state.session.responses, NoRequest, state.request_revision, state.pending_voice,
                 state.pending_cfg, state.switching, state.shutting_down)
    <2> HIDE DEF a, m
    <2>1. QED
      BY <1>1, <1>2 DEF States, Reads
  <1>4. state' = Bumped(cleared) /\ SaveAndWait(c, "error")
    BY <1>2 DEF ClearHere
  <1>5. EndReads /\ state'.store = state.store
    <2> HIDE DEF cleared
    <2>1. /\ state'.store = cleared.store
          /\ Reads(state', cleared.session.responses, cleared.active_request, cleared.request_revision,
                   cleared.pending_voice, cleared.pending_cfg, cleared.switching, cleared.shutting_down)
      BY <1>3, <1>4, BumpedReads, BumpedState
    <2>2. QED
      BY <1>3, <2>1 DEF Reads, EndReads, StateReads
  <1>6. QED
    BY <1>4, <1>5, SaveAndWaitIs DEF ClearHere, At, Edits

LEMMA ShutdownIs ==
    ASSUME IInv, NEW c \in Calls, calls[c] = IdleCall, Shutdown(c)
    PROVE  /\ Only(c) /\ calls'[c].api = "shutdown" /\ calls'[c].rid = 0 /\ calls'[c].rt.rev = 0
           /\ ~calls'[c].doomed /\ ~calls'[c].stale /\ calls'[c].out # "accepted"
           /\ \/ /\ StoreOf(state).ok /\ queue' = Append(queue, SaveOf(state', c))
                 /\ calls'[c].pc = "waiting"
              \/ queue' = queue /\ calls'[c].pc = "done"
           /\ StateReads(state.session.responses, NoRequest, state.request_revision, NoVoice,
                         state.pending_cfg, state.switching, TRUE)
           /\ state'.store = state.store
           /\ UNCHANGED <<target, runtime, stores, docs, faults>>
  <1> DEFINE a == Aborted(state)
             b == Bumped(a)
             q == Ended(state.session, "interrupted")
             w == Opened(c, "shutdown", "waiting")
             o == Opened(c, "shutdown", "done")
             d == [o EXCEPT !.out = "ok"]
  <1>1. q \in Sessions /\ q.responses = state.session.responses
    BY StateIs, EndedQuiet, SessionCounters DEF Terminal, QuietSession, GoodSession
  <1>2. /\ a \in States /\ a.session = state.session /\ a.store = state.store
        /\ Reads(a, state.session.responses, NoRequest, state.request_revision, state.pending_voice,
                 state.pending_cfg, state.switching, state.shutting_down)
    BY StateIs, AbortedReads, AbortedState
  <1>3. /\ b \in States /\ b.session = state.session /\ b.store = state.store
        /\ Reads(b, state.session.responses, NoRequest, state.request_revision, state.pending_voice,
                 state.pending_cfg, state.switching, state.shutting_down)
    <2> HIDE DEF a
    <2>1. /\ b \in States /\ b.session = a.session /\ b.store = a.store
          /\ Reads(b, a.session.responses, a.active_request, a.request_revision, a.pending_voice,
                   a.pending_cfg, a.switching, a.shutting_down)
      BY <1>2, BumpedReads, BumpedState
    <2> HIDE DEF b
    <2>2. QED
      BY <1>2, <2>1 DEF Reads
  <1>4. state' = [b EXCEPT !.session = q, !.shutting_down = TRUE, !.pending_voice = NoVoice]
    BY <1>3 DEF Shutdown
  <1>5. /\ StateReads(state.session.responses, NoRequest, state.request_revision, NoVoice,
                      state.pending_cfg, state.switching, TRUE)
        /\ state'.store = state.store
    <2> HIDE DEF b, q
    <2>1. QED
      BY <1>1, <1>3, <1>4, NoVoiceTyped DEF States, StateReads, Reads
  <1>6. /\ w \in CallRecords /\ Begun(w, "shutdown", "waiting") /\ w.rt.rev = 0
        /\ o \in CallRecords /\ Begun(o, "shutdown", "done") /\ o.rt.rev = 0
    BY StateIs, OpenedIs DEF ApiNames, Apis, Places
  <1>7. /\ d \in CallRecords /\ d.api = "shutdown" /\ d.rid = 0 /\ d.rt.rev = 0 /\ ~d.doomed
        /\ ~d.stale /\ d.out = "ok" /\ d.pc = "done"
    <2> HIDE DEF o
    <2>1. QED
      BY <1>6 DEF CallRecords, Begun, Outs
  <1>8. CASE StoreOf(state).ok
    <2>1. queue' = Append(queue, SaveOf(state', c)) /\ calls' = [calls EXCEPT ![c] = w]
      BY <1>5, <1>8 DEF Shutdown, EnqueueSave, StoreOf
    <2> HIDE DEF w
    <2>2. Only(c) /\ calls'[c] = w
      BY <1>6, <2>1, StateIs DEF Only
    <2>3. QED
      BY <1>5, <1>6, <1>8, <2>1, <2>2 DEF Begun, Shutdown
  <1>9. CASE ~StoreOf(state).ok
    <2>1. queue' = queue /\ calls' = [calls EXCEPT ![c] = d]
      BY <1>5, <1>9 DEF Shutdown, EnqueueSave, StoreOf
    <2> HIDE DEF d
    <2>2. Only(c) /\ calls'[c] = d
      BY <1>7, <2>1, StateIs DEF Only
    <2>3. QED
      BY <1>5, <1>7, <2>1, <2>2 DEF Shutdown
  <1>10. QED
    BY <1>8, <1>9

-----------------------------------------------------------------------------
(* The head of the queue and the call that waits for it.                   *)
LEMMA DeliverIs ==
    ASSUME IInv, Op \in Operations, Op.call \in Calls, NEW out \in Outs, Deliver(out)
    PROVE  /\ Only(Op.call)
           /\ \/ /\ calls[Op.call].api = "apply" /\ Goes(calls[Op.call], calls'[Op.call])
                 /\ calls'[Op.call].pc = "saved" /\ calls'[Op.call].out = out
              \/ calls[Op.call].api # "apply" /\ Returned(calls[Op.call], calls'[Op.call], out)
  <1> DEFINE d == Op.call
             f == Finished(d, out)
             r == [calls[d] EXCEPT !.pc = "saved", !.out = out]
  <1>1. d # Background /\ d \in Calls /\ CallsOK /\ calls[d] \in CallRecords
    BY AgentAssumption, StateIs DEF AgentAssumption
  <1>2. calls' = [calls EXCEPT ![d] = IF calls[d].api = "apply" THEN r ELSE f]
    BY <1>1 DEF Deliver
  <1>3. f \in CallRecords /\ Returned(calls[d], f, out)
    <2> HIDE DEF d
    <2>1. QED
      BY <1>1, FinishedIs
  <1>4. r \in CallRecords /\ Goes(calls[d], r) /\ r.pc = "saved" /\ r.out = out
    <2> HIDE DEF d
    <2>1. "saved" \in Places
      BY DEF Places
    <2>2. QED
      BY <1>1, <2>1 DEF CallRecords, Goes
  <1> HIDE DEF f, r, d
  <1>5. CASE calls[d].api = "apply"
    <2>1. Only(d) /\ calls'[d] = r
      BY <1>1, <1>2, <1>4, <1>5 DEF Only, CallsOK
    <2>2. QED
      BY <1>4, <1>5, <2>1 DEF d
  <1>6. CASE calls[d].api # "apply"
    <2>1. Only(d) /\ calls'[d] = f
      BY <1>1, <1>2, <1>3, <1>6 DEF Only, CallsOK
    <2>2. QED
      BY <1>3, <1>6, <2>1 DEF d
  <1>7. QED
    BY <1>5, <1>6

\* Serving an operation ends the wait of its call.
Served(d) ==
    /\ Awaits(Op.op, calls[d]) /\ Only(d)
    /\ \/ /\ calls[d].api = "apply" /\ calls[d].pc = "saving" /\ Goes(calls[d], calls'[d])
          /\ calls'[d].pc = "saved" /\ calls'[d].out \in {"ok", "error"}
          /\ calls'[d].out = "error" => faults' = faults + 1
       \/ /\ calls[d].api = "apply" /\ calls[d].pc = "loading" /\ Goes(calls[d], calls'[d])
          /\ calls'[d].pc = "loaded" /\ calls'[d].out \in {"ok", "unavailable"}
          /\ calls'[d].out # "unavailable" => Readable(docs, calls[d].persona)
          /\ UNCHANGED <<docs, stores>>
       \/ /\ calls[d].api # "apply" /\ calls[d].pc = "waiting"
          /\ Returned(calls[d], calls'[d], "ok") \/ Returned(calls[d], calls'[d], "error")

LEMMA ServeIs ==
    ASSUME IInv, Waiting(queue, calls), Serve
    PROVE  /\ queue # <<>> /\ queue' = Tail(queue) /\ Op \in Operations /\ Op \in GoodOps
           /\ Op.call \notin Calls => calls' = calls
           /\ Op.call \in Calls => Served(Op.call)
           /\ UNCHANGED <<target, runtime, state>>
           /\ faults' = faults \/ faults' = faults + 1
  <1>1. PICK names : Serving(names) /\ UNCHANGED <<target, runtime, state>>
    BY DEF Serve, ServeSave, ServeLoad, ServeEdit, ServeClear
  <1>2. Op \in GoodOps /\ Op \in Operations /\ queue # <<>> /\ queue' = Tail(queue)
    BY <1>1, HeadGood DEF Serving
  <1>3. Op.call \in Calls => Awaits(Op.op, calls[Op.call])
    <2>1. queue \in Seq(GoodOps) /\ 1 \in 1 .. Len(queue) /\ Op = queue[1]
      BY <1>2, LenProperties, EmptySeq DEF IInv, QueueOK, Op
    <2>2. QED
      BY <2>1 DEF Waiting
  <1>4. "ok" \in Outs /\ "error" \in Outs /\ "unavailable" \in Outs
    BY DEF Outs
  <1>5. faults' = faults \/ faults' = faults + 1
    BY DEF Serve, ServeSave, ServeLoad, ServeEdit, ServeClear, Fail, Write
  <1>6. CASE ServeLoad
    <2>1. Op.op = "load" /\ Op.call \in Calls /\ Op.persona = calls[Op.call].persona
      BY <1>2, <1>6 DEF ServeLoad, Serving, GoodOps
    <2> DEFINE d == Op.call
    <2>2. /\ calls[d].api = "apply" /\ calls[d].pc = "loading" /\ calls[d] \in CallRecords
      BY <1>3, <2>1, StateIs DEF Awaits
    <2>3. PICK session \in Sessions, out \in {"ok", "unavailable"} :
              Loaded(session, out) /\ (out # "unavailable" => Readable(docs, Op.persona))
      <3>1. Op.persona \in Personas
        BY <1>2 DEF Operations
      <3>2. LoadResult(Op.persona, docs[Op.persona]) \in Sessions /\ NoSession(Op.persona) \in Sessions
        <4>1. GoodTurns(docs[Op.persona].turns, Op.persona)
          BY <3>1 DEF IInv, DocsOK
        <4>2. QED
          BY <3>1, <4>1, LoadResultQuiet, NoSessionQuiet DEF QuietSession, GoodSession
      <3>3. QED
        BY <1>6, <3>2 DEF ServeLoad, Writable, Readable
    <2> DEFINE r == [calls[d] EXCEPT !.pc = "loaded", !.loaded = session, !.out = out]
    <2>4. calls' = [calls EXCEPT ![d] = r]
      BY <2>3 DEF Loaded
    <2>5. r \in CallRecords /\ Goes(calls[d], r) /\ r.pc = "loaded" /\ r.out = out
      <3> HIDE DEF d
      <3>1. "loaded" \in Places
        BY DEF Places
      <3>2. QED
        BY <1>4, <2>2, <3>1 DEF CallRecords, Goes
    <2> HIDE DEF r
    <2>6. Only(d) /\ calls'[d] = r
      BY <2>1, <2>4, <2>5, StateIs DEF Only
    <2>7. UNCHANGED <<docs, stores>>
      BY <1>6 DEF ServeLoad
    <2>8. Served(d)
      BY <1>3, <2>1, <2>2, <2>3, <2>5, <2>6, <2>7 DEF Served
    <2>9. QED
      BY <1>1, <1>2, <1>5, <2>1, <2>8
  <1>7. CASE ServeSave \/ ServeEdit \/ ServeClear
    <2>1. Op.op # "load" /\ \E out \in {"ok", "error"} : Deliver(out) /\ (Op.op = "save" /\ out = "error" => faults' = faults + 1)
      BY <1>7 DEF ServeSave, ServeEdit, ServeClear, Serving, Write, Fail
    <2>2. PICK out \in {"ok", "error"} : Deliver(out) /\ (Op.op = "save" /\ out = "error" => faults' = faults + 1)
      BY <2>1
    <2>3. CASE Op.call \notin Calls
      <3>1. Op.call = Background
        BY <1>2, <2>3 DEF Operations, Actors
      <3>2. calls' = calls
        BY <2>2, <3>1 DEF Deliver
      <3>3. QED
        BY <1>1, <1>2, <1>5, <2>3, <3>2
    <2>4. CASE Op.call \in Calls
      <3> DEFINE d == Op.call
      <3>1. /\ Only(d)
            /\ \/ calls[d].api = "apply" /\ Goes(calls[d], calls'[d]) /\ calls'[d].pc = "saved" /\ calls'[d].out = out
               \/ calls[d].api # "apply" /\ Returned(calls[d], calls'[d], out)
        BY <1>2, <1>4, <2>2, <2>4, DeliverIs
      <3>2. IF calls[d].api = "apply" THEN Op.op = "save" /\ calls[d].pc = "saving" ELSE calls[d].pc = "waiting"
        BY <1>3, <2>1, <2>4 DEF Awaits
      <3> HIDE DEF d
      <3>3. Awaits(Op.op, calls[d])
        BY <1>3, <2>4 DEF d
      <3>4. Served(d)
        BY <2>2, <3>1, <3>2, <3>3 DEF Served
      <3>5. QED
        BY <1>1, <1>2, <1>5, <2>4, <3>4 DEF d
    <2>5. QED
      BY <2>3, <2>4
  <1>8. QED
    BY <1>6, <1>7 DEF Serve

-----------------------------------------------------------------------------
(* A call has at most one operation in the queue and waits for it.         *)
WaitPlaces == {"loading", "saving", "waiting"}
Unmoved(d) == calls[d].pc \in WaitPlaces => calls'[d].pc = calls[d].pc /\ calls'[d].api = calls[d].api

LEMMA AwaitsPlaces == ASSUME NEW op, NEW r, Awaits(op, r) PROVE r.pc \in WaitPlaces
  BY DEF Awaits, WaitPlaces

LEMMA OthersUnmoved == ASSUME NEW c \in Calls, Others(c) PROVE \A d \in Calls \ {c} : Unmoved(d)
  BY DEF Others, Kept, Unmoved

LEMMA QueueLen == ASSUME IInv PROVE Len(queue) \in Nat /\ DOMAIN queue = 1 .. Len(queue)
  BY LenProperties DEF IInv, QueueOK

LEMMA AppendIs ==
    ASSUME IInv, NEW op, queue' = Append(queue, op)
    PROVE  /\ Len(queue') = Len(queue) + 1 /\ queue'[Len(queue) + 1] = op
           /\ \A i \in 1 .. Len(queue) : queue'[i] = queue[i]
  <1>1. queue \in Seq(GoodOps \cup {op}) /\ op \in GoodOps \cup {op}
    BY SeqMonotonic DEF IInv, QueueOK
  <1>2. QED
    BY <1>1, AppendProperties

LEMMA TailIs ==
    ASSUME IInv, queue # <<>>, queue' = Tail(queue)
    PROVE  /\ Len(queue) # 0 /\ Len(queue') = Len(queue) - 1 /\ Op = queue[1]
           /\ \A i \in 1 .. Len(queue') : queue'[i] = queue[i + 1]
  BY HeadTailProperties, EmptySeq, LenProperties DEF IInv, QueueOK, Op

LEMMA WithdrawnIs ==
    ASSUME IInv, NEW c \in Calls, queue' = Withdrawn(c)
    PROVE  \/ queue' = queue /\ \A i \in 1 .. Len(queue) : queue[i].call # c
           \/ \E i \in 1 .. Len(queue) :
                 /\ queue[i].call = c /\ Len(queue') = Len(queue) - 1
                 /\ \A j \in 1 .. Len(queue') : queue'[j] = IF j < i THEN queue[j] ELSE queue[j + 1]
  <1> DEFINE at == {i \in DOMAIN queue : queue[i].call = c}
             i == CHOOSE i \in at : TRUE
             l == SubSeq(queue, 1, i - 1)
             r == SubSeq(queue, i + 1, Len(queue))
  <1>1. queue \in Seq(GoodOps) /\ Len(queue) \in Nat /\ DOMAIN queue = 1 .. Len(queue)
    BY QueueLen DEF IInv, QueueOK
  <1>2. CASE at = {}
    BY <1>1, <1>2 DEF Withdrawn
  <1>3. CASE at # {}
    <2>1. i \in at
      BY <1>3
    <2>2. i \in 1 .. Len(queue) /\ queue[i].call = c
      BY <2>1, <1>1
    <2>3. queue' = l \o r
      BY <1>3 DEF Withdrawn
    <2> DEFINE k == i
    <2>4. k \in 1 .. Len(queue) /\ l = SubSeq(queue, 1, k - 1) /\ r = SubSeq(queue, k + 1, Len(queue))
      BY <2>2
    <2> HIDE DEF at, i, l, r, k
    <2>5. l \in Seq(GoodOps) /\ Len(l) = k - 1 /\ \A j \in 1 .. k - 1 : l[j] = queue[j]
      <3>1. 1 \in Int /\ k - 1 \in Int /\ \A j \in 1 .. k - 1 : queue[j] \in GoodOps
        BY <1>1, <2>4, ElementOfSeq
      <3>2. QED
        BY <1>1, <2>4, <3>1, SubSeqProperties
    <2>6. r \in Seq(GoodOps) /\ Len(r) = Len(queue) - k /\ \A j \in 1 .. Len(queue) - k : r[j] = queue[j + k]
      <3> DEFINE a == k + 1
                 b == Len(queue)
      <3>1. a \in Int /\ b \in Int /\ \A j \in a .. b : queue[j] \in GoodOps
        BY <1>1, <2>4, ElementOfSeq
      <3>2. b - a + 1 = b - k /\ a <= b + 1 /\ \A j \in 1 .. b - k : a + j - 1 = j + k
        BY <1>1, <2>4
      <3>3. r = SubSeq(queue, a, b)
        BY <2>4
      <3> HIDE DEF a, b
      <3>4. /\ r \in Seq(GoodOps) /\ Len(r) = IF a <= b THEN b - a + 1 ELSE 0
            /\ \A j \in 1 .. b - a + 1 : r[j] = queue[a + j - 1]
        BY <3>1, <3>3, SubSeqProperties
      <3>5. Len(r) = b - k
        BY <3>1, <3>2, <3>4, <2>4
      <3>6. \A j \in 1 .. b - k : r[j] = queue[j + k]
        BY <3>2, <3>4
      <3>7. QED
        BY <3>4, <3>5, <3>6 DEF b
    <2>7. /\ Len(queue') = Len(l) + Len(r)
          /\ \A j \in 1 .. Len(l) + Len(r) : queue'[j] = IF j <= Len(l) THEN l[j] ELSE r[j - Len(l)]
      BY <2>3, <2>5, <2>6, ConcatProperties
    <2>8. /\ Len(queue') = Len(queue) - 1
          /\ \A j \in 1 .. Len(queue') : queue'[j] = IF j < k THEN queue[j] ELSE queue[j + 1]
      <3> DEFINE n == Len(queue)
                 m == Len(queue')
                 v == Len(l)
                 w == Len(r)
      <3>1. n \in Nat /\ k \in 1 .. n /\ v = k - 1 /\ w = n - k /\ m = v + w
        BY <1>1, <2>4, <2>5, <2>6, <2>7
      <3>2. /\ \A j \in 1 .. k - 1 : l[j] = queue[j]
            /\ \A j \in 1 .. n - k : r[j] = queue[j + k]
            /\ \A j \in 1 .. v + w : queue'[j] = IF j <= v THEN l[j] ELSE r[j - v]
        BY <2>5, <2>6, <2>7
      <3> HIDE DEF n, m, v, w
      <3>3. m = n - 1
        BY <3>1
      <3>4. ASSUME NEW j \in 1 .. m, j < k PROVE queue'[j] = queue[j]
        <4>1. j \in 1 .. k - 1 /\ j <= v /\ j \in 1 .. v + w
          BY <3>1, <3>4
        <4>2. QED
          BY <3>2, <4>1
      <3>5. ASSUME NEW j \in 1 .. m, ~(j < k) PROVE queue'[j] = queue[j + 1]
        <4> DEFINE h == j - v
        <4>1. h \in 1 .. n - k /\ ~(j <= v) /\ j \in 1 .. v + w /\ h + k = j + 1
          BY <3>1, <3>5
        <4>2. queue'[j] = r[h]
          BY <3>2, <4>1
        <4> HIDE DEF h
        <4>3. r[h] = queue[h + k]
          BY <3>2, <4>1
        <4>4. QED
          BY <4>1, <4>2, <4>3
      <3>6. QED
        BY <3>3, <3>4, <3>5 DEF n, m
    <2>9. queue[k].call = c
      BY <2>2 DEF k
    <2>10. QED
      BY <2>4, <2>8, <2>9
  <1>4. QED
    BY <1>2, <1>3

LEMMA WaitingKept ==
    ASSUME Waiting(queue, calls), queue' = queue, \A d \in Calls : Unmoved(d)
    PROVE  Waiting(queue', calls')
  BY DEF Waiting, Awaits, Unmoved, WaitPlaces

LEMMA WaitingAppend ==
    ASSUME IInv, Waiting(queue, calls), NEW op, queue' = Append(queue, op),
           op.call \in Calls => calls[op.call].pc \notin WaitPlaces /\ Awaits(op.op, calls'[op.call]),
           \A d \in Calls : Unmoved(d)
    PROVE  Waiting(queue', calls')
  <1> DEFINE n == Len(queue)
  <1>1. n \in Nat /\ Len(queue') = n + 1 /\ queue'[n + 1] = op /\ \A i \in 1 .. n : queue'[i] = queue[i]
    BY QueueLen, AppendIs
  <1>2. /\ \A i \in 1 .. n : queue[i].call \in Calls => Awaits(queue[i].op, calls[queue[i].call])
        /\ \A i, j \in 1 .. n : queue[i].call = queue[j].call /\ queue[i].call \in Calls => i = j
    BY DEF Waiting
  <1>3. \A i \in 1 .. n : queue[i].call \in Calls => calls[queue[i].call].pc \in WaitPlaces
    BY <1>2, AwaitsPlaces
  <1>4. \A i \in 1 .. n : queue[i].call \in Calls => Awaits(queue[i].op, calls'[queue[i].call])
    BY <1>2, <1>3 DEF Unmoved, Awaits
  <1> HIDE DEF n
  <1>5. \A i \in 1 .. n : queue[i].call \in Calls => queue[i].call # op.call
    BY <1>3
  <1>6. \A i \in 1 .. n + 1 : i \in 1 .. n \/ i = n + 1
    BY <1>1
  <1>7. \A i \in 1 .. n + 1 : queue'[i].call \in Calls => Awaits(queue'[i].op, calls'[queue'[i].call])
    BY <1>1, <1>4, <1>6
  <1>8. \A i, j \in 1 .. n + 1 : queue'[i].call = queue'[j].call /\ queue'[i].call \in Calls => i = j
    BY <1>1, <1>2, <1>5, <1>6
  <1>9. QED
    BY <1>1, <1>7, <1>8 DEF Waiting

LEMMA WaitingTail ==
    ASSUME IInv, Waiting(queue, calls), queue # <<>>, queue' = Tail(queue),
           \A d \in Calls : d # Op.call => Unmoved(d)
    PROVE  Waiting(queue', calls')
  <1> DEFINE n == Len(queue)
             m == Len(queue')
  <1>1. n \in Nat /\ n # 0 /\ m = n - 1 /\ Op = queue[1] /\ \A i \in 1 .. m : queue'[i] = queue[i + 1]
    BY QueueLen, TailIs
  <1>2. /\ \A i \in 1 .. n : queue[i].call \in Calls => Awaits(queue[i].op, calls[queue[i].call])
        /\ \A i, j \in 1 .. n : queue[i].call = queue[j].call /\ queue[i].call \in Calls => i = j
    BY DEF Waiting
  <1> HIDE DEF n, m
  <1>3. \A i \in 1 .. m : i + 1 \in 1 .. n /\ i + 1 # 1 /\ 1 \in 1 .. n
    BY <1>1
  <1>4. ASSUME NEW i \in 1 .. m, queue'[i].call \in Calls
        PROVE  Awaits(queue'[i].op, calls'[queue'[i].call])
    <2>1. queue'[i] = queue[i + 1] /\ queue[i + 1].call # Op.call
      BY <1>1, <1>2, <1>3, <1>4
    <2>2. Awaits(queue[i + 1].op, calls[queue[i + 1].call]) /\ Unmoved(queue[i + 1].call)
      BY <1>2, <1>3, <1>4, <2>1
    <2>3. QED
      BY <2>1, <2>2, AwaitsPlaces DEF Awaits, Unmoved
  <1>5. ASSUME NEW i \in 1 .. m, NEW j \in 1 .. m, queue'[i].call = queue'[j].call, queue'[i].call \in Calls
        PROVE  i = j
    <2>1. i + 1 = j + 1
      BY <1>1, <1>2, <1>3, <1>5
    <2>2. QED
      BY <1>1, <2>1
  <1>6. QED
    BY <1>4, <1>5 DEF Waiting, m

LEMMA WaitingWithdrawn ==
    ASSUME IInv, Waiting(queue, calls), NEW c \in Calls, queue' = Withdrawn(c),
           \A d \in Calls \ {c} : Unmoved(d)
    PROVE  Waiting(queue', calls')
  <1> DEFINE n == Len(queue)
             m == Len(queue')
  <1>1. n \in Nat
    BY QueueLen
  <1>2. /\ \A i \in 1 .. n : queue[i].call \in Calls => Awaits(queue[i].op, calls[queue[i].call])
        /\ \A i, j \in 1 .. n : queue[i].call = queue[j].call /\ queue[i].call \in Calls => i = j
    BY DEF Waiting
  <1>3. \A i \in 1 .. n : (queue[i].call \in Calls /\ queue[i].call # c)
                               => Awaits(queue[i].op, calls'[queue[i].call])
    BY <1>2, AwaitsPlaces DEF Awaits, Unmoved
  <1>4. CASE queue' = queue /\ \A i \in 1 .. n : queue[i].call # c
    BY <1>2, <1>3, <1>4 DEF Waiting
  <1>5. CASE \E i \in 1 .. n :
                 /\ queue[i].call = c /\ m = n - 1
                 /\ \A j \in 1 .. m : queue'[j] = IF j < i THEN queue[j] ELSE queue[j + 1]
    <2>1. PICK i \in 1 .. n : /\ queue[i].call = c /\ m = n - 1
                              /\ \A j \in 1 .. m : queue'[j] = IF j < i THEN queue[j] ELSE queue[j + 1]
      BY <1>5
    <2> DEFINE f(j) == IF j < i THEN j ELSE j + 1
    <2> HIDE DEF n, m
    <2>2. \A j \in 1 .. m : f(j) \in 1 .. n /\ f(j) # i /\ queue'[j] = queue[f(j)]
      BY <1>1, <2>1
    <2>3. \A j, k \in 1 .. m : f(j) = f(k) => j = k
      BY <1>1, <2>1
    <2> HIDE DEF f
    <2>4. \A j \in 1 .. m : queue'[j].call # c
      BY <1>2, <2>1, <2>2
    <2>5. \A j \in 1 .. m : queue'[j].call \in Calls => Awaits(queue'[j].op, calls'[queue'[j].call])
      BY <1>3, <2>2, <2>4
    <2>6. \A j, k \in 1 .. m : queue'[j].call = queue'[k].call /\ queue'[j].call \in Calls => j = k
      BY <1>2, <2>2, <2>3
    <2>7. QED
      BY <2>5, <2>6 DEF Waiting, m
  <1>6. QED
    BY <1>4, <1>5, WithdrawnIs

LEMMA WaitingQuiet ==
    ASSUME RInv, NEW c \in Calls, Others(c), calls[c].pc \notin WaitPlaces, queue' = queue
    PROVE  Waiting(queue', calls')
  <1>1. \A d \in Calls : Unmoved(d)
    BY OthersUnmoved DEF Unmoved
  <1>2. QED
    BY <1>1, WaitingKept DEF RInv

LEMMA WaitingQueued ==
    ASSUME RInv, NEW c \in Calls, Others(c), calls[c].pc \notin WaitPlaces, NEW op,
           queue' = Append(queue, op), op.call \in Calls => op.call = c /\ Awaits(op.op, calls'[c])
    PROVE  Waiting(queue', calls')
  <1>1. \A d \in Calls : Unmoved(d)
    BY OthersUnmoved DEF Unmoved
  <1>2. QED
    BY <1>1, WaitingAppend DEF RInv

LEMMA SaveIs == ASSUME NEW s, NEW c PROVE SaveOf(s, c).op = "save" /\ SaveOf(s, c).call = c
  BY DEF SaveOf

LEMMA OpIs == ASSUME NEW op, NEW c PROVE OpOf(op, c).op = op /\ OpOf(op, c).call = c
  BY DEF OpOf

LEMMA IdleIs == ASSUME RInv, NEW c \in Calls, calls[c].pc = "idle" PROVE calls[c] = IdleCall
  BY DEF RInv, RequestsOK, Behaves

LEMMA StartIdle == ASSUME RInv, NEW c \in Calls, Start(c) PROVE calls[c].pc = "idle" /\ calls[c] = IdleCall
  BY IdleIs DEF Start, Refresh, SendInput, UiCall, Cancel, Suspend, Resume, VoiceClone, CancelVoice,
                UiStep, EditCall, EditClone, Shutdown, Enter

LEMMA StartWaiting ==
    ASSUME RInv, NEW c \in Calls, Start(c)
    PROVE  Waiting(queue', calls')
  <1>1. IInv /\ calls[c].pc = "idle" /\ calls[c] = IdleCall /\ calls[c].pc \notin WaitPlaces
    BY StartIdle DEF RInv, WaitPlaces
  <1>2. ASSUME NEW rev \in 1 .. MaxConfig, Refresh(c, rev) PROVE Waiting(queue', calls')
    <2>1. queue' = queue
      BY <1>2 DEF Refresh
    <2>2. \A d \in Calls \ {c} : calls'[d].pc = calls[d].pc /\ calls'[d].api = calls[d].api
      <3>1. \A d \in Calls \ {c} : calls'[d] = calls[d] \/ calls'[d] = [calls[d] EXCEPT !.doomed = TRUE]
        BY <1>1, <1>2, RefreshIs
      <3>2. QED
        BY <3>1, <1>1, StateIs DEF CallRecords
    <2>3. \A d \in Calls : Unmoved(d)
      BY <1>1, <2>2 DEF Unmoved
    <2>4. QED
      BY <2>1, <2>3, WaitingKept DEF RInv
  <1>3. CASE SendInput(c)
    BY <1>1, <1>3, SendInputIs, OnlyOthers, WaitingQuiet
  <1>4. CASE Cancel(c) \/ Suspend(c)
    BY <1>1, <1>4, SilenceIs, WaitingQuiet
  <1>5. CASE \/ Resume(c) \/ EditCall(c)
             \/ \E u \in Utterances : VoiceClone(c, "voice", u) \/ VoiceClone(c, "take", u) \/ CancelVoice(c, u)
    <2>1. Only(c) /\ queue' = queue
      BY <1>1, <1>5, OpensIs
    <2>2. QED
      BY <1>1, <2>1, OnlyOthers, WaitingQuiet
  <1>6. CASE Shutdown(c)
    <2>1. /\ Others(c) /\ calls'[c].api = "shutdown"
          /\ queue' = queue \/ (queue' = Append(queue, SaveOf(state', c)) /\ calls'[c].pc = "waiting")
      BY <1>1, <1>6, ShutdownIs, OnlyOthers
    <2>2. QED
      BY <1>1, <2>1, SaveIs, WaitingQuiet, WaitingQueued DEF Awaits
  <1>7. QED
    BY <1>2, <1>3, <1>4, <1>5, <1>6 DEF Start, UiCall

LEMMA AdvanceWaiting ==
    ASSUME RInv, NEW c \in Calls, Advance(c)
    PROVE  Waiting(queue', calls')
  <1>1. IInv
    BY DEF RInv
  <1>2. CASE Persist(c)
    <2>1. /\ Others(c) /\ calls[c].pc \notin WaitPlaces
          /\ queue' = queue \/ queue' = Append(queue, SaveOf(state', Background))
      BY <1>1, <1>2, PersistIs, OnlyOthers DEF WaitPlaces
    <2>2. Background \notin Calls
      BY AgentAssumption DEF AgentAssumption
    <2>3. QED
      BY <2>1, <2>2, SaveIs, WaitingQuiet, WaitingQueued
  <1>3. CASE ApplyReject(c) \/ ApplyDone(c) \/ Finish(c)
    BY <1>1, <1>3, ApplyReturnsIs, OnlyOthers, WaitingQuiet DEF WaitPlaces
  <1>4. CASE ApplySamePersona(c)
    BY <1>1, <1>4, ApplySamePersonaIs, OnlyOthers, WaitingQuiet DEF WaitPlaces
  <1>5. CASE ApplySwitch(c)
    <2>1. /\ Others(c) /\ calls[c].pc \notin WaitPlaces /\ calls'[c].api = "apply"
          /\ queue' = queue \/ (queue' = Append(queue, SaveOf(state', c)) /\ calls'[c].pc = "saving")
      BY <1>1, <1>5, ApplySwitchIs, OnlyOthers DEF WaitPlaces, Goes
    <2>2. QED
      BY <2>1, SaveIs, WaitingQuiet, WaitingQueued DEF Awaits
  <1>6. CASE ApplyLoad(c)
    <2>1. /\ Others(c) /\ calls[c].pc \notin WaitPlaces /\ calls'[c].api = "apply"
          /\ queue' = Append(queue, OpOf("load", c)) /\ calls'[c].pc = "loading"
      BY <1>1, <1>6, ApplyLoadIs, OnlyOthers DEF WaitPlaces, Goes
    <2>2. QED
      BY <2>1, OpIs, WaitingQueued DEF Awaits
  <1>7. CASE ApplySaveFailed(c) \/ ApplyDiscard(c)
    BY <1>1, <1>7, ApplyFailsIs, OnlyOthers, WaitingQuiet DEF WaitPlaces
  <1>8. CASE ApplyInstall(c)
    BY <1>1, <1>8, ApplyInstallIs, OnlyOthers, WaitingQuiet DEF WaitPlaces
  <1>9. CASE DropApply(c)
    BY <1>1, <1>9, DropApplyIs, OnlyOthers, OthersUnmoved, WaitingWithdrawn DEF RInv
  <1>10. CASE SendClone(c)
    BY <1>1, <1>10, SendCloneIs, OnlyOthers, WaitingQuiet DEF WaitPlaces
  <1>11. CASE SendStart(c)
    BY <1>1, <1>11, SendStartIs, OnlyOthers, WaitingQuiet DEF WaitPlaces
  <1>12. CASE StreamEvent(c)
    BY <1>1, <1>12, StreamEventIs, OnlyOthers, WaitingQuiet DEF WaitPlaces
  <1>13. CASE StreamClosed(c)
    BY <1>1, <1>13, StreamClosedIs, OnlyOthers, WaitingQuiet DEF WaitPlaces
  <1>14. CASE SendEnd(c)
    BY <1>1, <1>14, SendEndIs, OnlyOthers, WaitingQuiet DEF WaitPlaces
  <1>15. CASE VoiceStarted(c)
    BY <1>1, <1>15, VoiceStartedIs, WaitingQuiet DEF WaitPlaces
  <1>16. CASE TakeTranscript(c)
    BY <1>1, <1>16, TakeTranscriptIs, OnlyOthers, WaitingQuiet DEF WaitPlaces
  <1>17. CASE EditElsewhere(c)
    <2>1. /\ Others(c) /\ calls[c].pc \notin WaitPlaces /\ calls'[c].api \in Edits
          /\ queue' = Append(queue, OpOf(calls[c].api, c)) /\ calls'[c].pc = "waiting"
          /\ calls[c].api = calls'[c].api
      BY <1>1, <1>17, EditElsewhereIs, OnlyOthers DEF WaitPlaces, Goes
    <2>2. QED
      BY <2>1, OpIs, WaitingQueued DEF Awaits, Edits
  <1>18. CASE EditHere(c) \/ ClearHere(c)
    <2>1. /\ Others(c) /\ calls[c].pc \notin WaitPlaces
          /\ \/ queue' = queue
             \/ /\ queue' = Append(queue, SaveOf(state', c)) /\ calls'[c].pc = "waiting"
                /\ calls'[c].api \in Edits
      BY <1>1, <1>18, EditHereIs, ClearHereIs, OnlyOthers DEF WaitPlaces, Waits, Goes
    <2>2. QED
      BY <2>1, SaveIs, WaitingQuiet, WaitingQueued DEF Awaits, Edits
  <1>19. QED
    BY <1>2, <1>3, <1>4, <1>5, <1>6, <1>7, <1>8, <1>9, <1>10, <1>11, <1>12, <1>13, <1>14, <1>15,
       <1>16, <1>17, <1>18
       DEF Advance, ApplyStep, SendStep, VoiceStep, EditStep

LEMMA NextWaiting ==
    ASSUME RInv, [Next]_vars
    PROVE  Waiting(queue', calls')
  <1>1. CASE Serve
    <2>1. /\ queue # <<>> /\ queue' = Tail(queue) /\ (Op.call \notin Calls => calls' = calls)
          /\ (Op.call \in Calls => Only(Op.call))
      BY <1>1, ServeIs DEF RInv, Served
    <2>2. \A d \in Calls : d # Op.call => Unmoved(d)
      BY <2>1 DEF Only, Unmoved
    <2>3. QED
      BY <2>1, <2>2, WaitingTail DEF RInv
  <1>2. CASE UNCHANGED vars
    BY <1>2 DEF vars, RInv
  <1>3. QED
    BY <1>1, <1>2, StartWaiting, AdvanceWaiting DEF Next, Rest

-----------------------------------------------------------------------------
(* Every call fits the runtime and the state it finds.                     *)
Grows ==
    /\ state.request_revision <= state'.request_revision
    /\ \/ runtime' = runtime /\ state.session.responses <= state'.session.responses
       \/ runtime'.rev = runtime.rev + 1

VoiceStays ==
    \/ state'.pending_voice = NoVoice
    \/ state'.pending_voice = state.pending_voice /\ runtime' = runtime

LEMMA StateIsNext ==
    ASSUME IInv'
    PROVE  /\ state' \in States /\ state'.session \in Sessions /\ runtime' \in Runtimes
           /\ calls' \in [Calls -> CallRecords] /\ CallsOK'
  BY DEF IInv, StateOK, GoodState, GoodSession, RuntimeOK, CallsOK

LEMMA BehavesKept ==
    ASSUME IInv, IInv', Grows, NEW r \in CallRecords, NEW q \in CallRecords,
           Behaves(runtime, state, r), Kept(r, q), (r.api = "take" /\ r.pc = "cloned") => VoiceStays
    PROVE  Behaves(runtime', state', q)
  <1>1. /\ runtime.rev \in Nat /\ runtime'.rev \in Nat /\ r.rt.rev \in Nat /\ r.n \in Nat /\ r.rid \in Nat
        /\ state.request_revision \in Nat /\ state'.request_revision \in Nat
        /\ state.session.responses \in Nat /\ state'.session.responses \in Nat
    BY StateIs, StateIsNext DEF States, Sessions, Runtimes, CallRecords, Clones
  <1>2. q.pc = "idle" => q = IdleCall
    BY DEF Behaves, Kept
  <1>3. q.rt.rev <= runtime'.rev
    BY <1>1 DEF Behaves, Kept, Grows
  <1>4. q.rt.rev = runtime'.rev => q.rt.persona = runtime'.persona /\ q.rid <= state'.session.responses
    BY <1>1 DEF Behaves, Kept, Grows
  <1>5. q.stale => q.api = "send" /\ q.pc \in {"input", "cloned"} /\ q.n < state'.request_revision
    BY <1>1 DEF Behaves, Kept, Grows
  <1>6. (q.api = "send" /\ q.pc \in {"input", "cloned"}) => q.n <= state'.request_revision
    BY <1>1 DEF Behaves, Kept, Grows
  <1>7. ASSUME q.api = "take", q.pc = "cloned"
        PROVE  /\ q.n # 0
               /\ (state'.pending_voice.utterance = q.n /\ state'.pending_voice.rev = q.rt.rev)
                      => q.rt.rev = runtime'.rev
    <2>1. r.api = "take" /\ r.pc = "cloned" /\ q.n = r.n /\ q.rt = r.rt /\ r.n # 0
          /\ ((state.pending_voice.utterance = r.n /\ state.pending_voice.rev = r.rt.rev)
                 => r.rt.rev = runtime.rev)
      BY <1>7 DEF Kept, Behaves
    <2>2. NoVoice.utterance = 0
      BY DEF NoVoice
    <2>3. QED
      BY <2>1, <2>2 DEF VoiceStays
  <1>8. QED
    BY <1>2, <1>3, <1>4, <1>5, <1>6, <1>7 DEF Behaves, Kept

\* A call that goes on, has returned, or begins.
LEMMA BehavesMoved ==
    ASSUME IInv, IInv', Grows, NEW r \in CallRecords, NEW q \in CallRecords,
           Behaves(runtime, state, r), Goes(r, q), q.out # "accepted",
           r.api # "send" \/ r.pc \notin {"input", "cloned"}, q.pc \notin {"idle", "input", "cloned"}
    PROVE  Behaves(runtime', state', q)
  <1>1. /\ runtime.rev \in Nat /\ runtime'.rev \in Nat /\ r.rt.rev \in Nat /\ r.rid \in Nat
        /\ state.session.responses \in Nat /\ state'.session.responses \in Nat
    BY StateIs, StateIsNext DEF Sessions, Runtimes, CallRecords, Clones
  <1>2. q.rt.rev <= runtime'.rev
    BY <1>1 DEF Behaves, Goes, Grows
  <1>3. q.rt.rev = runtime'.rev => q.rt.persona = runtime'.persona /\ q.rid <= state'.session.responses
    BY <1>1 DEF Behaves, Goes, Grows
  <1>4. QED
    BY <1>2, <1>3 DEF Behaves, Goes

LEMMA BehavesReturned ==
    ASSUME IInv', runtime'.rev # 0, NEW r, NEW q \in CallRecords, NEW out, Returned(r, q, out)
    PROVE  Behaves(runtime', state', q)
  <1>1. runtime'.rev \in Nat /\ q.rt.rev = 0
    BY StateIsNext DEF Runtimes, Returned
  <1>2. QED
    BY <1>1 DEF Returned, Behaves

LEMMA BehavesBegun ==
    ASSUME IInv, IInv', runtime.rev # 0, runtime' = runtime, NEW q \in CallRecords,
           q.rid = 0, ~q.stale, q.out # "accepted", q.pc # "idle", q.rt.rev = 0 \/ q.rt = Clone,
           q.api = "send" => q.n = state'.request_revision,
           (q.api = "take" /\ q.pc = "cloned") => q.n # 0 /\ q.rt = Clone
    PROVE  Behaves(runtime', state', q)
  <1>1. runtime.rev \in Nat /\ state'.request_revision \in Nat /\ state'.session.responses \in Nat
    BY StateIs, StateIsNext DEF Runtimes, States, Sessions
  <1>2. Clone.rev = runtime.rev /\ Clone.persona = runtime.persona
    BY DEF Clone
  <1>3. QED
    BY <1>1, <1>2 DEF Behaves

\* Two calls that were apart remain so.
LEMMA ApartLater ==
    ASSUME IInv, IInv', Grows, NEW r \in CallRecords, NEW q \in CallRecords,
           NEW r2 \in CallRecords, NEW q2 \in CallRecords,
           Behaves(runtime, state, r), Behaves(runtime, state, q), Apart(runtime, r, q), Kept(q, q2),
           \/ r2.rid = 0
           \/ r2.rid = r.rid /\ r2.rt = r.rt
           \/ runtime' = runtime /\ r2.rid = state.session.responses + 1,
           (r2.api \in UiApis /\ q.api \in UiApis) => r2.pc \in {"idle", "done"} \/ q.pc \in {"idle", "done"}
    PROVE  Apart(runtime', r2, q2) /\ Apart(runtime', q2, r2)
  <1>1. /\ runtime.rev \in Nat /\ runtime'.rev \in Nat /\ r.rt.rev \in Nat /\ q.rt.rev \in Nat
        /\ r.rid \in Nat /\ q.rid \in Nat /\ state.session.responses \in Nat
    BY StateIs, StateIsNext DEF Sessions, Runtimes, CallRecords, Clones
  <1>2. ASSUME r2.rid # 0, r2.rid = q2.rid PROVE r2.rt.rev # runtime'.rev \/ q2.rt.rev # runtime'.rev
    <2>1. q2.rid = q.rid /\ q2.rt = q.rt
      BY DEF Kept
    <2>2. CASE runtime'.rev = runtime.rev + 1
      <3>1. q.rt.rev <= runtime.rev
        BY DEF Behaves
      <3>2. QED
        BY <1>1, <2>1, <2>2, <3>1
    <2>3. CASE runtime' = runtime /\ r2.rid = r.rid /\ r2.rt = r.rt
      BY <1>2, <2>1, <2>3 DEF Apart
    <2>4. CASE runtime' = runtime /\ r2.rid = state.session.responses + 1
      <3>1. ~(q.rid <= state.session.responses)
        BY <1>1, <1>2, <2>1, <2>4
      <3>2. q.rt.rev # runtime.rev
        BY <3>1 DEF Behaves
      <3>3. QED
        BY <2>1, <2>4, <3>2
    <2>5. QED
      BY <1>2, <2>2, <2>3, <2>4 DEF Grows
  <1>3. q2.api = q.api /\ q2.pc = q.pc
    BY DEF Kept
  <1>4. QED
    BY <1>2, <1>3 DEF Apart

LEMMA RequestsStep ==
    ASSUME RInv, IInv', NEW c \in Calls, Others(c), Grows, runtime'.rev # 0,
           \A d \in Calls \ {c} : (calls[d].api = "take" /\ calls[d].pc = "cloned") => VoiceStays,
           Behaves(runtime', state', calls'[c]),
           \/ calls'[c].rid = 0
           \/ calls'[c].rid = calls[c].rid /\ calls'[c].rt = calls[c].rt
           \/ runtime' = runtime /\ calls'[c].rid = state.session.responses + 1,
           calls'[c].api \in UiApis =>
               \/ calls'[c].pc \in {"idle", "done"} \/ UiFree
               \/ calls'[c].api = calls[c].api /\ calls[c].pc \notin {"idle", "done"},
           Owned(state', calls')
    PROVE  RequestsOK(runtime', state', calls')
  <1>1. IInv /\ calls \in [Calls -> CallRecords] /\ calls' \in [Calls -> CallRecords]
    BY StateIs, StateIsNext DEF RInv
  <1>2. /\ \A d \in Calls : Behaves(runtime, state, calls[d])
        /\ \A d, e \in Calls : d # e => Apart(runtime, calls[d], calls[e])
    BY DEF RInv, RequestsOK
  <1>3. \A d \in Calls \ {c} : Kept(calls[d], calls'[d])
    BY DEF Others
  <1>4. \A d \in Calls : Behaves(runtime', state', calls'[d])
    BY <1>1, <1>2, <1>3, BehavesKept
  <1>5. ASSUME NEW d \in Calls \ {c}
        PROVE  Apart(runtime', calls'[c], calls'[d]) /\ Apart(runtime', calls'[d], calls'[c])
    <2>1. (calls'[c].api \in UiApis /\ calls[d].api \in UiApis)
              => calls'[c].pc \in {"idle", "done"} \/ calls[d].pc \in {"idle", "done"}
      BY <1>2 DEF UiFree, Running, Apart
    <2>2. QED
      BY <1>1, <1>2, <1>3, <2>1, ApartLater
  <1>6. ASSUME NEW d \in Calls \ {c}, NEW e \in Calls \ {c}, d # e
        PROVE  Apart(runtime', calls'[d], calls'[e])
    <2>1. Apart(runtime, calls[d], calls[e]) /\ Kept(calls[d], calls'[d]) /\ Kept(calls[e], calls'[e])
      BY <1>2, <1>3, <1>6
    <2>2. (calls'[d].api \in UiApis /\ calls[e].api \in UiApis)
              => calls'[d].pc \in {"idle", "done"} \/ calls[e].pc \in {"idle", "done"}
      BY <2>1 DEF Apart, Kept
    <2>3. calls'[d].rid = calls[d].rid /\ calls'[d].rt = calls[d].rt
      BY <2>1 DEF Kept
    <2>4. QED
      BY <1>1, <1>2, <2>1, <2>2, <2>3, ApartLater
  <1>7. \A d, e \in Calls : d # e => Apart(runtime', calls'[d], calls'[e])
    BY <1>5, <1>6
  <1>8. QED
    BY <1>4, <1>7 DEF RequestsOK

LEMMA OwnedQuiet == ASSUME state'.active_request = NoRequest PROVE Owned(state', calls')
  BY NoRequestTyped DEF Owned

LEMMA OwnedKept ==
    ASSUME RInv, NEW c \in Calls, Others(c), state'.active_request = state.active_request,
           (state.active_request.rid # 0 /\ state.active_request.call = c /\ Owns(state.active_request, calls[c]))
               => Owns(state.active_request, calls'[c])
    PROVE  Owned(state', calls')
  <1>1. Owned(state, calls)
    BY DEF RInv, RequestsOK
  <1>2. \A d \in Calls \ {c} : Owns(state.active_request, calls[d]) => Owns(state.active_request, calls'[d])
    BY DEF Others, Kept, Owns
  <1>3. QED
    BY <1>1, <1>2 DEF Owned

LEMMA GrowsIs ==
    ASSUME IInv,
           state'.request_revision \in {state.request_revision, state.request_revision + 1},
           \/ runtime' = runtime /\ state'.session.responses \in {state.session.responses, state.session.responses + 1}
           \/ runtime'.rev = runtime.rev + 1
    PROVE  Grows
  <1>1. state.request_revision \in Nat /\ state.session.responses \in Nat
    BY StateIs DEF States, Sessions
  <1>2. QED
    BY <1>1 DEF Grows

LEMMA CountsUp ==
    ASSUME RInv, IInv', runtime' = runtime \/ runtime'.rev = runtime.rev + 1
    PROVE  runtime'.rev # 0 /\ runtime.rev # 0
  <1>1. runtime.rev \in Nat
    BY StateIs DEF RInv, Runtimes
  <1>2. QED
    BY <1>1 DEF RInv, RequestsOK

LEMMA RequestsMoved ==
    ASSUME RInv, IInv', NEW c \in Calls, Others(c), Grows,
           VoiceStays \/ \A d \in Calls \ {c} : ~(calls[d].api = "take" /\ calls[d].pc = "cloned"),
           Goes(calls[c], calls'[c]), calls[c].pc \notin {"idle", "done"}, calls'[c].out # "accepted",
           calls[c].api # "send" \/ calls[c].pc \notin {"input", "cloned"},
           calls'[c].pc \notin {"idle", "input", "cloned"}, Owned(state', calls')
    PROVE  RequestsOK(runtime', state', calls')
  <1>1. IInv /\ Behaves(runtime, state, calls[c]) /\ calls[c] \in CallRecords /\ calls'[c] \in CallRecords
    BY StateIs, StateIsNext DEF RInv, RequestsOK
  <1>2. Behaves(runtime', state', calls'[c])
    BY <1>1, BehavesMoved
  <1>3. runtime'.rev # 0
    BY CountsUp DEF Grows
  <1>4. QED
    BY <1>2, <1>3, RequestsStep DEF Goes

LEMMA RequestsReturned ==
    ASSUME RInv, IInv', NEW c \in Calls, Others(c), Grows, VoiceStays,
           NEW out, Returned(calls[c], calls'[c], out), Owned(state', calls')
    PROVE  RequestsOK(runtime', state', calls')
  <1>1. runtime'.rev # 0 /\ calls'[c] \in CallRecords
    BY CountsUp, StateIsNext DEF Grows
  <1>2. Behaves(runtime', state', calls'[c]) /\ calls'[c].rid = 0 /\ calls'[c].pc = "done"
    BY <1>1, BehavesReturned DEF Returned
  <1>3. QED
    BY <1>1, <1>2, RequestsStep

LEMMA RequestsBegun ==
    ASSUME RInv, IInv', NEW c \in Calls, calls[c] = IdleCall, Others(c), Grows, VoiceStays, runtime' = runtime,
           calls'[c].rid = 0, ~calls'[c].stale, calls'[c].out # "accepted", calls'[c].pc # "idle",
           calls'[c].rt.rev = 0 \/ calls'[c].rt = Clone,
           calls'[c].api = "send" => calls'[c].n = state'.request_revision,
           (calls'[c].api = "take" /\ calls'[c].pc = "cloned") => calls'[c].n # 0 /\ calls'[c].rt = Clone,
           calls'[c].api \in UiApis => UiFree,
           state'.active_request \in {state.active_request, NoRequest}
    PROVE  RequestsOK(runtime', state', calls')
  <1>1. IInv /\ runtime.rev # 0 /\ runtime'.rev # 0 /\ calls'[c] \in CallRecords
    BY CountsUp, StateIsNext DEF RInv, Grows
  <1>2. Behaves(runtime', state', calls'[c])
    BY <1>1, BehavesBegun
  <1>3. Owned(state', calls')
    <2>1. ~Owns(state.active_request, calls[c])
      BY IdleCallIs DEF Owns
    <2>2. QED
      BY <2>1, OwnedQuiet, OwnedKept
  <1>4. QED
    BY <1>1, <1>2, <1>3, RequestsStep

LEMMA DoomedKept ==
    ASSUME NEW r \in CallRecords, r.api = "apply", r.pc \notin {"idle", "done"}
    PROVE  Kept(r, [r EXCEPT !.doomed = TRUE])
  <1> DEFINE q == [r EXCEPT !.doomed = TRUE]
  <1>1. /\ q.api = r.api /\ q.pc = r.pc /\ q.then = r.then /\ q.n = r.n /\ q.persona = r.persona
        /\ q.rt = r.rt /\ q.rid = r.rid /\ q.out = r.out /\ q.doomed /\ q.stale = r.stale
    BY DEF CallRecords
  <1> HIDE DEF q
  <1>2. Kept(r, q)
    BY <1>1 DEF Kept
  <1>3. QED
    BY <1>2 DEF q

LEMMA RefreshOthers ==
    ASSUME IInv, NEW c \in Calls, calls[c] = IdleCall, NEW rev \in 1 .. MaxConfig, Refresh(c, rev)
    PROVE  Others(c)
  <1>1. ASSUME NEW d \in Calls \ {c} PROVE Kept(calls[d], calls'[d])
    <2>1. calls[d] \in CallRecords
      BY StateIs
    <2>2. CASE calls'[d] = calls[d]
      BY <2>2, KeptSame
    <2>3. CASE /\ calls[d].api = "apply" /\ Running(d)
               /\ calls'[d] = [calls[d] EXCEPT !.doomed = TRUE]
      <3>1. Kept(calls[d], [calls[d] EXCEPT !.doomed = TRUE])
        BY <2>1, <2>3, DoomedKept DEF Running
      <3>2. QED
        BY <2>3, <3>1
    <2>4. QED
      BY <2>2, <2>3, RefreshIs
  <1>2. QED
    BY <1>1, RefreshIs DEF Others

LEMMA StartRequests ==
    ASSUME RInv, IInv', NEW c \in Calls, Start(c)
    PROVE  RequestsOK(runtime', state', calls')
  <1>1. IInv /\ calls[c] = IdleCall
    BY StartIdle DEF RInv
  <1>2. ASSUME NEW rev \in 1 .. MaxConfig, Refresh(c, rev) PROVE RequestsOK(runtime', state', calls')
    <2>1. /\ \A d \in Calls \ {c} : calls'[d] = calls[d] \/ (/\ calls[d].api = "apply" /\ Running(d)
                                                             /\ calls'[d] = [calls[d] EXCEPT !.doomed = TRUE])
          /\ Begun(calls'[c], "apply", "spawned") /\ calls'[c].rt.rev = 0
          /\ StateReads(state.session.responses, state.active_request, state.request_revision,
                        NoVoice, state.pending_cfg, state.switching, state.shutting_down)
      BY <1>1, <1>2, RefreshIs
    <2>2. Others(c)
      BY <1>1, <1>2, RefreshOthers
    <2>3. runtime' = runtime
      BY <1>2 DEF Refresh
    <2>4. Grows /\ VoiceStays /\ state'.active_request = state.active_request
      BY <1>1, <2>1, <2>3, GrowsIs DEF StateReads, Reads, VoiceStays
    <2>5. "apply" \notin UiApis
      BY DEF UiApis
    <2>6. QED
      BY <1>1, <2>1, <2>2, <2>3, <2>4, <2>5, RequestsBegun DEF Begun
  <1>3. CASE SendInput(c)
    <2>1. /\ Others(c) /\ Begun(calls'[c], "send", "input") /\ calls'[c].rt.rev = 0
          /\ calls'[c].n = state.request_revision
          /\ StateReads(state.session.responses, state.active_request, state.request_revision,
                        NoVoice, state.pending_cfg, state.switching, state.shutting_down)
          /\ runtime' = runtime
      BY <1>1, <1>3, SendInputIs, OnlyOthers
    <2>2. Grows /\ VoiceStays /\ state'.active_request = state.active_request
          /\ state'.request_revision = state.request_revision
      BY <1>1, <2>1, GrowsIs DEF StateReads, Reads, VoiceStays
    <2>3. "send" \notin UiApis
      BY DEF UiApis
    <2>4. QED
      BY <1>1, <2>1, <2>2, <2>3, RequestsBegun DEF Begun
  <1>4. CASE Cancel(c) \/ Suspend(c)
    <2>1. /\ Others(c) /\ UiFree /\ runtime' = runtime
          /\ \E api \in {"cancel", "suspend"}, pc \in {"persist", "ended"} :
                 Begun(calls'[c], api, pc) /\ calls'[c].rt.rev = 0
          /\ OutdatedReads(state.pending_voice) \/ OutdatedReads(NoVoice)
      BY <1>1, <1>4, SilenceIs
    <2>2. Grows /\ VoiceStays /\ state'.active_request = NoRequest
      BY <1>1, <2>1, GrowsIs DEF OutdatedReads, StateReads, Reads, VoiceStays
    <2>3. QED
      BY <1>1, <2>1, <2>2, RequestsBegun DEF Begun
  <1>5. CASE \/ Resume(c) \/ EditCall(c)
             \/ \E u \in Utterances : VoiceClone(c, "voice", u) \/ VoiceClone(c, "take", u) \/ CancelVoice(c, u)
    <2>1. /\ Only(c) /\ runtime' = runtime
          /\ \E api \in Apis \ {"apply", "send"}, pc \in {"cloned", "ended"} :
                  /\ Begun(calls'[c], api, pc)
                  /\ api \in UiApis => UiFree
                  /\ api = "take" => pc = "cloned" /\ calls'[c].rt = Clone /\ calls'[c].n # 0
          /\ calls'[c].rt.rev = 0 \/ calls'[c].rt = Clone
          /\ VoiceReads(state.pending_voice) \/ VoiceReads(NoVoice)
      BY <1>1, <1>5, OpensIs
    <2>2. Grows /\ VoiceStays /\ state'.active_request = state.active_request
      BY <1>1, <2>1, GrowsIs DEF VoiceReads, StateReads, Reads, VoiceStays
    <2>3. QED
      BY <1>1, <2>1, <2>2, OnlyOthers, RequestsBegun DEF Begun
  <1>6. CASE Shutdown(c)
    <2>1. /\ Only(c) /\ runtime' = runtime /\ calls'[c].api = "shutdown" /\ calls'[c].rid = 0
          /\ calls'[c].rt.rev = 0 /\ ~calls'[c].stale /\ calls'[c].out # "accepted"
          /\ calls'[c].pc \in {"waiting", "done"}
          /\ StateReads(state.session.responses, NoRequest, state.request_revision, NoVoice,
                        state.pending_cfg, state.switching, TRUE)
      BY <1>1, <1>6, ShutdownIs
    <2>2. Grows /\ VoiceStays /\ state'.active_request = NoRequest
      BY <1>1, <2>1, GrowsIs DEF StateReads, Reads, VoiceStays
    <2>3. "shutdown" \notin UiApis
      BY DEF UiApis
    <2>4. QED
      BY <1>1, <2>1, <2>2, <2>3, OnlyOthers, RequestsBegun
  <1>7. QED
    BY <1>2, <1>3, <1>4, <1>5, <1>6 DEF Start, UiCall

\* Steps that leave the state, the runtime and the active request alone.
LEMMA StillReads ==
    ASSUME IInv, SameReads, runtime' = runtime
    PROVE  Grows /\ VoiceStays /\ state'.active_request = state.active_request
  BY GrowsIs DEF SameReads, Reads, VoiceStays

\* A call that is at no place of an owner's does not own the request.
LEMMA OwnerPlaces ==
    ASSUME NEW request, NEW r, Owns(request, r)
    PROVE  r.api = "send" /\ r.pc \in {"streaming", "ending", "persist", "persist_weak"}
  BY DEF Owns

LEMMA OwnerIsMine ==
    ASSUME IInv, NEW c \in Calls, Owns(state.active_request, calls[c])
    PROVE  Mine(c)
  BY StateIs DEF Owns, Mine, IsCurrent

\* What a running call has not accepted.
LEMMA RunningNotAccepted ==
    ASSUME RInv, NEW c \in Calls, calls[c].pc # "done" PROVE calls[c].out # "accepted"
  BY DEF RInv, RequestsOK, Behaves

LEMMA AdvanceRequests ==
    ASSUME RInv, IInv', NEW c \in Calls, Advance(c)
    PROVE  RequestsOK(runtime', state', calls')
  <1>0. IInv /\ Behaves(runtime, state, calls[c]) /\ calls[c] \in CallRecords /\ runtime.rev \in Nat
    BY StateIs DEF RInv, RequestsOK, Runtimes
  <1>1. CASE Persist(c)
    <2>1. /\ Only(c) /\ Goes(calls[c], calls'[c]) /\ calls'[c].out = calls[c].out
          /\ calls[c].pc \in {"persist", "persist_weak"}
          /\ calls'[c].pc = calls[c].then
          /\ SameReads /\ runtime' = runtime
      BY <1>0, <1>1, PersistIs
    <2>2. Owns(state.active_request, calls[c]) => Owns(state.active_request, calls'[c])
      BY <2>1 DEF Owns, Goes
    <2>3. calls'[c].pc \notin {"idle", "input", "cloned"} /\ calls[c].pc \notin {"idle", "done"}
          /\ calls[c].pc \notin {"input", "cloned"}
      <3>1. calls[c].then \in Thens
        BY <1>0 DEF IInv, CallsOK, GoodCall
      <3>2. QED
        BY <2>1, <3>1 DEF Thens
    <2>4. QED
      BY <1>0, <2>1, <2>2, <2>3, StillReads, OnlyOthers, OwnedKept, RunningNotAccepted, RequestsMoved
  <1>2. CASE ApplyReject(c) \/ ApplyDone(c) \/ Finish(c)
    <2>1. /\ Only(c) /\ SameReads /\ runtime' = runtime /\ calls[c].pc \in {"spawned", "applied", "ended"}
          /\ \E out \in Outs : Returned(calls[c], calls'[c], out)
      BY <1>0, <1>2, ApplyReturnsIs DEF Outs
    <2>2. ~Owns(state.active_request, calls[c])
      BY <2>1, OwnerPlaces
    <2>3. QED
      BY <1>0, <2>1, <2>2, StillReads, OnlyOthers, OwnedKept, RequestsReturned
  <1>3. CASE ApplySamePersona(c)
    <2>1. /\ Only(c) /\ Goes(calls[c], calls'[c]) /\ calls'[c].out = calls[c].out
          /\ calls[c].api = "apply" /\ calls[c].pc = "spawned" /\ calls'[c].pc = "persist_weak"
          /\ StateReads(state.session.responses, NoRequest, state.request_revision, NoVoice,
                        calls[c].n, FALSE, state.shutting_down)
          /\ runtime'.rev = runtime.rev + 1
      BY <1>0, <1>3, ApplySamePersonaIs
    <2>2. Grows /\ VoiceStays /\ state'.active_request = NoRequest
      BY <1>0, <2>1, GrowsIs DEF StateReads, Reads, VoiceStays
    <2>3. QED
      BY <1>0, <2>1, <2>2, OwnedQuiet, OnlyOthers, RunningNotAccepted, RequestsMoved
  <1>4. CASE ApplySwitch(c)
    <2>1. /\ Only(c) /\ Goes(calls[c], calls'[c]) /\ calls'[c].out = calls[c].out
          /\ calls[c].api = "apply" /\ calls[c].pc = "spawned" /\ calls'[c].pc \in {"saved", "saving"}
          /\ StateReads(state.session.responses, NoRequest, state.request_revision, NoVoice,
                        calls[c].n, TRUE, state.shutting_down)
          /\ runtime' = runtime
      BY <1>0, <1>4, ApplySwitchIs
    <2>2. Grows /\ VoiceStays /\ state'.active_request = NoRequest
      BY <1>0, <2>1, GrowsIs DEF StateReads, Reads, VoiceStays
    <2>3. QED
      BY <1>0, <2>1, <2>2, OwnedQuiet, OnlyOthers, RunningNotAccepted, RequestsMoved
  <1>5. CASE ApplyLoad(c)
    <2>1. /\ Only(c) /\ Goes(calls[c], calls'[c]) /\ calls'[c].out = calls[c].out
          /\ calls[c].api = "apply" /\ calls[c].pc = "saved" /\ calls'[c].pc = "loading"
          /\ SameReads /\ runtime' = runtime
      BY <1>0, <1>5, ApplyLoadIs
    <2>2. ~Owns(state.active_request, calls[c])
      BY <2>1, OwnerPlaces
    <2>3. QED
      BY <1>0, <2>1, <2>2, StillReads, OnlyOthers, OwnedKept, RunningNotAccepted, RequestsMoved
  <1>6. CASE ApplySaveFailed(c) \/ ApplyDiscard(c)
    <2>1. /\ Only(c) /\ calls[c].api = "apply" /\ runtime' = runtime
          /\ \E out \in Outs : Returned(calls[c], calls'[c], out)
          /\ StateReads(state.session.responses, state.active_request, state.request_revision,
                        state.pending_voice, state.pending_cfg, state'.switching, state.shutting_down)
      BY <1>0, <1>6, ApplyFailsIs DEF Outs
    <2>2. Grows /\ VoiceStays /\ state'.active_request = state.active_request
      BY <1>0, <2>1, GrowsIs DEF StateReads, Reads, VoiceStays
    <2>3. ~Owns(state.active_request, calls[c])
      BY <2>1, OwnerPlaces
    <2>4. QED
      BY <1>0, <2>1, <2>2, <2>3, OnlyOthers, OwnedKept, RequestsReturned
  <1>7. CASE ApplyInstall(c)
    <2>1. /\ Only(c) /\ Returned(calls[c], calls'[c], "applied") /\ runtime'.rev = runtime.rev + 1
          /\ \E responses \in Nat :
                  StateReads(responses, NoRequest, state.request_revision, NoVoice,
                             state.pending_cfg, FALSE, state.shutting_down)
      BY <1>0, <1>7, ApplyInstallIs
    <2>2. Grows /\ VoiceStays /\ state'.active_request = NoRequest
      BY <1>0, <2>1, GrowsIs DEF StateReads, Reads, VoiceStays
    <2>3. QED
      BY <1>0, <2>1, <2>2, OwnedQuiet, OnlyOthers, RequestsReturned
  <1>8. CASE DropApply(c)
    <2>1. /\ Only(c) /\ Returned(calls[c], calls'[c], "dropped") /\ SameReads /\ runtime' = runtime
          /\ calls[c].pc \in {"spawned", "saving", "saved", "loading", "loaded"}
      BY <1>0, <1>8, DropApplyIs
    <2>2. ~Owns(state.active_request, calls[c])
      BY <2>1, OwnerPlaces
    <2>3. QED
      BY <1>0, <2>1, <2>2, StillReads, OnlyOthers, OwnedKept, RequestsReturned
  <1>9. CASE SendClone(c)
    <2> DEFINE r == calls[c]
               q == calls'[c]
    <2>1. /\ Only(c) /\ r.api = "send" /\ r.pc = "input" /\ q.api = r.api /\ q.n = r.n
          /\ q.rid = r.rid /\ q.out = r.out /\ q.stale = r.stale /\ q.pc = "cloned" /\ q.rt = Clone
          /\ SameReads /\ runtime' = runtime
      BY <1>0, <1>9, SendCloneIs
    <2>2. /\ Grows /\ VoiceStays /\ state'.active_request = state.active_request
          /\ state'.request_revision = state.request_revision
      BY <1>0, <2>1, StillReads DEF SameReads, Reads
    <2>3. q \in CallRecords /\ state'.session \in Sessions
      BY StateIsNext
    <2>4. Clone.rev = runtime.rev /\ Clone.persona = runtime.persona
      BY DEF Clone
    <2>5. r.rid = 0
      BY <1>0, <2>1 DEF Behaves
    <2>6. Behaves(runtime', state', q)
      <3> HIDE DEF r, q
      <3>1. Behaves(runtime, state, r)
        BY <1>0 DEF r
      <3>2. q.rt.rev <= runtime'.rev /\ q.rid <= state'.session.responses
        BY <1>0, <2>1, <2>3, <2>4, <2>5 DEF Sessions
      <3>3. QED
        BY <2>1, <2>2, <2>4, <2>5, <3>1, <3>2 DEF Behaves
    <2>7. ~Owns(state.active_request, calls[c]) /\ "send" \notin UiApis
      BY <2>1, OwnerPlaces DEF UiApis
    <2>8. Owned(state', calls')
      BY <2>1, <2>2, <2>7, OnlyOthers, OwnedKept
    <2>9. runtime'.rev # 0
      BY <2>1, CountsUp
    <2>10. QED
      BY <2>1, <2>2, <2>5, <2>6, <2>7, <2>8, <2>9, OnlyOthers, RequestsStep
  <1>10. CASE SendStart(c)
    <2>1. CASE Returned(calls[c], calls'[c], "error") /\ SameReads
      <3>1. Only(c) /\ runtime' = runtime /\ calls[c].pc = "cloned"
        BY <1>0, <1>10, SendStartIs
      <3>2. ~Owns(state.active_request, calls[c])
        BY <3>1, OwnerPlaces
      <3>3. QED
        BY <1>0, <2>1, <3>1, <3>2, StillReads, OnlyOthers, OwnedKept, RequestsReturned
    <2>2. CASE ~(Returned(calls[c], calls'[c], "error") /\ SameReads)
      <3> DEFINE r == calls[c]
                 q == calls'[c]
                 rid == state.session.responses + 1
      <3>1. /\ Only(c) /\ r.api = "send" /\ r.pc = "cloned" /\ MayStart(c)
            /\ q.api = r.api /\ q.n = r.n /\ q.rt = r.rt /\ q.out = r.out /\ q.stale = r.stale
            /\ q.pc = "persist" /\ q.then = "streaming" /\ q.rid = rid
            /\ StateReads(rid, RequestOf(c), state.request_revision,
                          NoVoice, state.pending_cfg, state.switching, state.shutting_down)
            /\ runtime' = runtime
        BY <1>0, <1>10, <2>2, SendStartIs
      <3>2. /\ Grows /\ VoiceStays /\ state'.active_request = RequestOf(c)
            /\ state'.request_revision = state.request_revision /\ state'.session.responses = rid
        BY <1>0, <3>1, GrowsIs DEF StateReads, Reads, VoiceStays
      <3>3. q \in CallRecords /\ rid \in Nat /\ rid # 0
        BY <1>0, StateIs, StateIsNext DEF Sessions
      <3>4. r.n = state.request_revision
        BY <3>1 DEF MayStart
      <3>5. ~r.stale
        BY <1>0, <3>4, StateIs DEF Behaves, States
      <3>6. Behaves(runtime', state', q)
        <4> HIDE DEF r, q, rid
        <4>1. Behaves(runtime, state, r)
          BY <1>0 DEF r
        <4>2. q.rid <= state'.session.responses
          BY <3>1, <3>2, <3>3
        <4>3. QED
          BY <3>1, <3>2, <3>5, <4>1, <4>2 DEF Behaves
      <3>7. Owned(state', calls')
        <4>1. Owns(RequestOf(c), calls'[c]) /\ RequestOf(c).call = c
          BY <3>1 DEF Owns, RequestOf
        <4>2. QED
          BY <3>2, <4>1 DEF Owned
      <3>8. runtime'.rev # 0 /\ "send" \notin UiApis
        BY <3>1, CountsUp DEF UiApis
      <3>9. QED
        BY <3>1, <3>2, <3>6, <3>7, <3>8, OnlyOthers, RequestsStep
    <2>3. QED
      BY <2>1, <2>2
  <1>11. CASE StreamEvent(c) \/ StreamClosed(c)
    <2>1. /\ Only(c) /\ Goes(calls[c], calls'[c]) /\ calls'[c].out = calls[c].out /\ runtime' = runtime
          /\ calls[c].api = "send" /\ calls[c].pc = "streaming"
          /\ \/ calls'[c].pc = "ending" /\ SameReads
             \/ calls'[c].pc = "persist_weak" /\ calls'[c].then = "streaming" /\ SameReads
             \/ calls'[c].pc = "persist" /\ EndReads
      BY <1>0, <1>11, StreamEventIs, StreamClosedIs
    <2>2. Grows /\ VoiceStays
      BY <1>0, <2>1, GrowsIs DEF SameReads, EndReads, StateReads, Reads, VoiceStays
    <2>3. Owned(state', calls')
      <3>1. CASE SameReads /\ (calls'[c].pc = "ending" \/ (calls'[c].pc = "persist_weak" /\ calls'[c].then = "streaming"))
        <4>1. Owns(state.active_request, calls[c]) => Owns(state.active_request, calls'[c])
          BY <2>1, <3>1 DEF Owns, Goes
        <4>2. state'.active_request = state.active_request
          BY <3>1 DEF SameReads, Reads
        <4>3. QED
          BY <2>1, <4>1, <4>2, OnlyOthers, OwnedKept
      <3>2. CASE EndReads
        BY <3>2, OwnedQuiet DEF EndReads, StateReads, Reads
      <3>3. QED
        BY <2>1, <3>1, <3>2
    <2>4. calls'[c].pc \in {"ending", "persist", "persist_weak"}
      BY <2>1
    <2>5. QED
      BY <2>1, <2>2, <2>3, <2>4, OnlyOthers, RunningNotAccepted, RequestsMoved
  <1>12. CASE SendEnd(c)
    <2>1. Only(c) /\ runtime' = runtime /\ calls[c].api = "send" /\ calls[c].pc = "ending"
      BY <1>0, <1>12, SendEndIs
    <2>2. CASE /\ Goes(calls[c], calls'[c]) /\ calls'[c].out = calls[c].out
               /\ calls'[c].pc = "persist" /\ EndReads
      <3>1. Grows /\ VoiceStays /\ state'.active_request = NoRequest
        BY <1>0, <2>1, <2>2, GrowsIs DEF EndReads, StateReads, Reads, VoiceStays
      <3>2. QED
        BY <2>1, <2>2, <3>1, OwnedQuiet, OnlyOthers, RunningNotAccepted, RequestsMoved
    <2>3. CASE /\ ~(Mine(c) /\ state.active_request.call = c)
               /\ Returned(calls[c], calls'[c], "ended") /\ SameReads
      <3>1. ~(state.active_request.call = c /\ Owns(state.active_request, calls[c]))
        BY <1>0, <2>3, OwnerIsMine
      <3>2. Grows /\ VoiceStays /\ state'.active_request = state.active_request
        BY <1>0, <2>1, <2>3, StillReads
      <3>3. QED
        BY <2>1, <2>3, <3>1, <3>2, OnlyOthers, OwnedKept, RequestsReturned
    <2>4. QED
      BY <1>0, <1>12, <2>2, <2>3, SendEndIs
  <1>13. CASE VoiceStarted(c)
    <2>1. /\ Others(c) /\ runtime' = runtime /\ calls[c].api = "voice" /\ calls[c].pc = "cloned"
      BY <1>0, <1>13, VoiceStartedIs
    <2>2. CASE Returned(calls[c], calls'[c], "none") /\ SameReads
      <3>1. ~Owns(state.active_request, calls[c])
        BY <2>1, OwnerPlaces
      <3>2. QED
        BY <1>0, <2>1, <2>2, <3>1, StillReads, OwnedKept, RequestsReturned
    <2>3. CASE /\ Goes(calls[c], calls'[c]) /\ calls'[c].out = calls[c].out
               /\ calls'[c].pc \in {"persist", "ended"}
               /\ \E v \in Voices : OutdatedReads(v)
      <3>1. Grows /\ state'.active_request = NoRequest
        BY <1>0, <2>1, <2>3, GrowsIs DEF OutdatedReads, StateReads, Reads
      <3>2. \A d \in Calls \ {c} : ~(calls[d].api = "take" /\ calls[d].pc = "cloned")
        <4>1. \A d \in Calls \ {c} : Apart(runtime, calls[c], calls[d])
          BY DEF RInv, RequestsOK
        <4>2. QED
          BY <2>1, <4>1 DEF Apart, UiApis
      <3>3. QED
        BY <2>1, <2>3, <3>1, <3>2, OwnedQuiet, RunningNotAccepted, RequestsMoved
    <2>4. QED
      BY <1>0, <1>13, <2>2, <2>3, VoiceStartedIs
  <1>14. CASE TakeTranscript(c)
    <2>1. /\ Only(c) /\ runtime' = runtime /\ calls[c].api = "take"
          /\ \E out \in {"none", "accepted"} : Returned(calls[c], calls'[c], out)
          /\ VoiceReads(state.pending_voice) \/ VoiceReads(NoVoice)
      BY <1>0, <1>14, TakeTranscriptIs
    <2>2. Grows /\ VoiceStays /\ state'.active_request = state.active_request
      BY <1>0, <2>1, GrowsIs DEF VoiceReads, StateReads, Reads, VoiceStays
    <2>3. ~Owns(state.active_request, calls[c])
      BY <2>1, OwnerPlaces
    <2>4. QED
      BY <2>1, <2>2, <2>3, OnlyOthers, OwnedKept, RequestsReturned
  <1>15. CASE EditElsewhere(c)
    <2>1. /\ Only(c) /\ Goes(calls[c], calls'[c]) /\ calls'[c].out = calls[c].out /\ runtime' = runtime
          /\ calls[c].api \in Edits /\ calls[c].pc = "cloned" /\ calls'[c].pc = "waiting" /\ SameReads
      BY <1>0, <1>15, EditElsewhereIs
    <2>2. ~Owns(state.active_request, calls[c]) /\ calls[c].api # "send"
      BY <2>1, OwnerPlaces DEF Edits
    <2>3. QED
      BY <1>0, <2>1, <2>2, StillReads, OnlyOthers, OwnedKept, RunningNotAccepted, RequestsMoved
  <1>16. CASE EditHere(c) \/ ClearHere(c)
    <2>1. /\ Waits(c) /\ runtime' = runtime /\ calls[c].api \in Edits /\ calls[c].pc = "cloned" /\ EndReads
      BY <1>0, <1>16, EditHereIs, ClearHereIs
    <2>2. Grows /\ VoiceStays /\ state'.active_request = NoRequest
      BY <1>0, <2>1, GrowsIs DEF EndReads, StateReads, Reads, VoiceStays
    <2>3. Only(c) /\ calls[c].api # "send"
      BY <2>1 DEF Waits, Edits
    <2>4. CASE Returned(calls[c], calls'[c], "error")
      BY <2>2, <2>3, <2>4, OwnedQuiet, OnlyOthers, RequestsReturned
    <2>5. CASE Goes(calls[c], calls'[c]) /\ calls'[c].out = calls[c].out /\ calls'[c].pc = "waiting"
      BY <2>1, <2>2, <2>3, <2>5, OwnedQuiet, OnlyOthers, RunningNotAccepted, RequestsMoved
    <2>6. QED
      BY <2>1, <2>4, <2>5 DEF Waits
  <1>17. QED
    BY <1>1, <1>2, <1>3, <1>4, <1>5, <1>6, <1>7, <1>8, <1>9, <1>10, <1>11, <1>12, <1>13, <1>14, <1>15, <1>16
       DEF Advance, ApplyStep, SendStep, VoiceStep, EditStep

LEMMA NextRequests ==
    ASSUME RInv, IInv', [Next]_vars
    PROVE  RequestsOK(runtime', state', calls')
  <1>1. IInv
    BY DEF RInv
  <1>2. CASE Serve
    <2>1. /\ Op.call \notin Calls => calls' = calls
          /\ Op.call \in Calls => Served(Op.call)
          /\ state' = state /\ runtime' = runtime
      BY <1>1, <1>2, ServeIs DEF RInv
    <2>2. CASE Op.call \notin Calls
      BY <2>1, <2>2 DEF RInv
    <2>3. CASE Op.call \in Calls
      <3> DEFINE d == Op.call
      <3>1. d \in Calls /\ Served(d)
        BY <2>1, <2>3
      <3> HIDE DEF d
      <3>2. Only(d) /\ calls[d].pc \in WaitPlaces
        BY <3>1, AwaitsPlaces DEF Served
      <3>3. Grows /\ VoiceStays /\ Owned(state', calls')
        <4>1. ~Owns(state.active_request, calls[d])
          BY <3>2, OwnerPlaces DEF WaitPlaces
        <4>2. QED
          BY <1>1, <2>1, <3>1, <3>2, <4>1, SameState, StillReads, OnlyOthers, OwnedKept
      <3>4. CASE Returned(calls[d], calls'[d], "ok") \/ Returned(calls[d], calls'[d], "error")
        BY <3>1, <3>2, <3>3, <3>4, OnlyOthers, RequestsReturned
      <3>5. CASE Goes(calls[d], calls'[d]) /\ calls'[d].pc \in {"saved", "loaded"} /\ calls'[d].out # "accepted"
        BY <3>1, <3>2, <3>3, <3>5, OnlyOthers, RequestsMoved DEF WaitPlaces
      <3>6. QED
        BY <3>1, <3>4, <3>5 DEF Served
    <2>4. QED
      BY <2>2, <2>3
  <1>3. CASE UNCHANGED vars
    BY <1>3 DEF vars, RInv
  <1>4. QED
    BY <1>2, <1>3, StartRequests, AdvanceRequests DEF Next, Rest

-----------------------------------------------------------------------------
(* Who can write a document can have read it.                              *)
LEMMA LoadedKept ==
    ASSUME Documents, NEW c \in Calls, Others(c), calls'[c].pc # "loaded",
           \A p \in Personas : Readable(docs, p) => Readable(docs', p), calls \in [Calls -> CallRecords]
    PROVE  \A d \in Calls : (calls'[d].pc = "loaded" /\ calls'[d].out # "unavailable")
                                => Readable(docs', calls'[d].persona)
  <1>1. \A d \in Calls : calls[d].persona \in Personas
    BY DEF CallRecords
  <1>2. \A d \in Calls \ {c} : /\ calls'[d].pc = calls[d].pc /\ calls'[d].out = calls[d].out
                               /\ calls'[d].persona = calls[d].persona
    BY DEF Others, Kept
  <1>3. ASSUME NEW d \in Calls, calls'[d].pc = "loaded", calls'[d].out # "unavailable"
        PROVE  Readable(docs', calls'[d].persona)
    <2>1. d \in Calls \ {c}
      BY <1>3
    <2> DEFINE p == calls[d].persona
    <2>2. calls'[d].persona = p /\ Readable(docs, p) /\ p \in Personas
      BY <1>1, <1>2, <1>3, <2>1 DEF Documents, DocumentsOK
    <2> HIDE DEF p
    <2>3. Readable(docs', p)
      BY <2>2
    <2>4. docs'[p].kind # "unsupported" /\ calls'[d].persona = p
      BY <2>2, <2>3 DEF Readable
    <2>5. QED
      BY <2>4 DEF Readable
  <1>4. QED
    BY <1>3

LEMMA DocumentsKept ==
    ASSUME RInv, NEW c \in Calls, Others(c), calls'[c].pc # "loaded",
           UNCHANGED <<docs, stores>>,
           \/ queue' = queue
           \/ \E op : queue' = Append(queue, op) /\ (op.op = "save" => Readable(docs, op.persona))
    PROVE  Documents'
  <1>1. IInv /\ Documents /\ calls \in [Calls -> CallRecords] /\ Len(queue) \in Nat
    BY StateIs, QueueLen DEF RInv
  <1>2. /\ \A p \in Personas : docs[p].kind # "ok" => docs[p].turns = {}
        /\ \A i \in 1 .. Len(stores) : stores[i].ok => Readable(docs, stores[i].persona)
        /\ \A i \in 1 .. Len(queue) : queue[i].op = "save" => Readable(docs, queue[i].persona)
    BY <1>1 DEF Documents, DocumentsOK
  <1>3. \A d \in Calls : (calls'[d].pc = "loaded" /\ calls'[d].out # "unavailable")
                                => Readable(docs', calls'[d].persona)
    <2>1. \A p \in Personas : Readable(docs, p) => Readable(docs', p)
      BY DEF Readable
    <2>2. QED
      BY <1>1, <2>1, LoadedKept
  <1>4. \A i \in 1 .. Len(queue') : queue'[i].op = "save" => Readable(docs', queue'[i].persona)
    <2>1. CASE queue' = queue
      BY <1>2, <2>1
    <2>2. CASE \E op : queue' = Append(queue, op) /\ (op.op = "save" => Readable(docs, op.persona))
      <3>1. PICK op : queue' = Append(queue, op) /\ (op.op = "save" => Readable(docs, op.persona))
        BY <2>2
      <3>2. /\ Len(queue') = Len(queue) + 1 /\ queue'[Len(queue) + 1] = op
            /\ \A i \in 1 .. Len(queue) : queue'[i] = queue[i]
        BY <1>1, <3>1, AppendIs
      <3> DEFINE n == Len(queue)
      <3>3. \A i \in 1 .. n + 1 : i \in 1 .. n \/ i = n + 1
        <4> HIDE DEF n
        <4>1. n \in Nat
          BY <1>1 DEF n
        <4>2. QED
          BY <4>1
      <3>4. QED
        BY <1>2, <3>1, <3>2, <3>3
    <2>3. QED
      BY <2>1, <2>2
  <1>5. QED
    BY <1>2, <1>3, <1>4 DEF Documents, DocumentsOK, Readable

LEMMA SaveReadable ==
    ASSUME RInv, StoreOf(state).ok, state'.store = state.store, NEW c
    PROVE  Readable(docs, SaveOf(state', c).persona)
  <1>1. SaveOf(state', c).persona = stores[state.store].persona
    BY DEF SaveOf, StoreOf
  <1>2. state.store \in 1 .. Len(stores) /\ stores[state.store].ok
    BY DEF RInv, IInv, StoresOK, StoreOf
  <1>3. QED
    BY <1>1, <1>2 DEF RInv, Documents, DocumentsOK, Readable

LEMMA StartDocuments ==
    ASSUME RInv, NEW c \in Calls, Start(c)
    PROVE  Documents'
  <1>1. IInv /\ calls[c] = IdleCall
    BY StartIdle DEF RInv
  <1>2. ASSUME NEW rev \in 1 .. MaxConfig, Refresh(c, rev) PROVE Documents'
    <2>1. Others(c) /\ calls'[c].pc = "spawned" /\ UNCHANGED <<docs, stores, queue>>
      BY <1>1, <1>2, RefreshIs, RefreshOthers DEF Begun, Refresh
    <2>2. QED
      BY <2>1, DocumentsKept
  <1>3. CASE SendInput(c)
    BY <1>1, <1>3, SendInputIs, OnlyOthers, DocumentsKept DEF Begun
  <1>4. CASE Cancel(c) \/ Suspend(c)
    BY <1>1, <1>4, SilenceIs, DocumentsKept DEF Begun
  <1>5. CASE \/ Resume(c) \/ EditCall(c)
             \/ \E u \in Utterances : VoiceClone(c, "voice", u) \/ VoiceClone(c, "take", u) \/ CancelVoice(c, u)
    <2>1. Only(c) /\ calls'[c].pc # "loaded" /\ UNCHANGED <<docs, stores, queue>>
      BY <1>1, <1>5, OpensIs DEF Begun
    <2>2. QED
      BY <2>1, OnlyOthers, DocumentsKept
  <1>6. CASE Shutdown(c)
    BY <1>1, <1>6, ShutdownIs, SaveReadable, OnlyOthers, DocumentsKept
  <1>7. QED
    BY <1>2, <1>3, <1>4, <1>5, <1>6 DEF Start, UiCall

\* Install gives a store to whoever could read the document.
LEMMA InstallDocuments ==
    ASSUME RInv, NEW c \in Calls, ApplyInstall(c)
    PROVE  Documents'
  <1>1. /\ IInv /\ Documents /\ calls \in [Calls -> CallRecords] /\ stores \in Seq(Stores)
    BY StateIs DEF RInv, IInv, StoresOK
  <1> DEFINE s == NewStore(calls[c].persona, calls[c].out # "unavailable")
             n == Len(stores)
  <1>2. /\ Others(c) /\ calls'[c].pc = "done" /\ calls[c].pc = "loaded"
        /\ stores' = Append(stores, s) /\ UNCHANGED <<docs, queue>>
    BY <1>1, ApplyInstallIs, OnlyOthers DEF Returned
  <1>3. s \in Stores /\ s.persona = calls[c].persona /\ (s.ok => Readable(docs, calls[c].persona))
    <2>1. calls[c].persona \in Personas /\ (calls[c].out # "unavailable") \in BOOLEAN
      BY <1>1 DEF CallRecords
    <2>2. QED
      BY <1>1, <1>2, <2>1 DEF NewStore, Stores, Documents, DocumentsOK
  <1> HIDE DEF s
  <1>4. /\ n \in Nat /\ Len(stores') = n + 1 /\ stores'[n + 1] = s
        /\ \A i \in 1 .. n : stores'[i] = stores[i]
    BY <1>1, <1>2, <1>3, AppendProperties, LenProperties
  <1> HIDE DEF n
  <1>5. \A i \in 1 .. n + 1 : i \in 1 .. n \/ i = n + 1
    BY <1>4
  <1>6. \A i \in 1 .. Len(stores') : stores'[i].ok => Readable(docs', stores'[i].persona)
    <2>1. \A i \in 1 .. n : stores[i].ok => Readable(docs, stores[i].persona)
      BY <1>1 DEF Documents, DocumentsOK, n
    <2>2. QED
      BY <1>2, <1>3, <1>4, <1>5, <2>1 DEF Readable
  <1>7. \A d \in Calls : (calls'[d].pc = "loaded" /\ calls'[d].out # "unavailable")
                                => Readable(docs', calls'[d].persona)
    <2>1. \A p \in Personas : Readable(docs, p) => Readable(docs', p)
      BY <1>2 DEF Readable
    <2>2. QED
      BY <1>1, <1>2, <2>1, LoadedKept
  <1>8. QED
    BY <1>1, <1>2, <1>6, <1>7 DEF Documents, DocumentsOK, Readable

LEMMA DropDocuments ==
    ASSUME RInv, NEW c \in Calls, DropApply(c)
    PROVE  Documents'
  <1>1. IInv /\ Documents /\ calls \in [Calls -> CallRecords] /\ Len(queue) \in Nat
    BY StateIs, QueueLen DEF RInv
  <1>2. /\ Others(c) /\ calls'[c].pc = "done" /\ UNCHANGED <<docs, stores>> /\ queue' = Withdrawn(c)
    BY <1>1, DropApplyIs, OnlyOthers DEF Returned
  <1>3. \A i \in 1 .. Len(queue') : \E j \in 1 .. Len(queue) : queue'[i] = queue[j]
    <2>1. CASE queue' = queue
      BY <2>1
    <2>2. ASSUME NEW k \in 1 .. Len(queue), Len(queue') = Len(queue) - 1,
                 \A j \in 1 .. Len(queue') : queue'[j] = IF j < k THEN queue[j] ELSE queue[j + 1]
          PROVE  \A i \in 1 .. Len(queue') : \E j \in 1 .. Len(queue) : queue'[i] = queue[j]
      <3> DEFINE n == Len(queue)
                 m == Len(queue')
      <3>1. n \in Nat /\ m = n - 1
        BY <1>1, <2>2
      <3> HIDE DEF n, m
      <3>2. \A i \in 1 .. m : i \in 1 .. n /\ i + 1 \in 1 .. n
        BY <3>1
      <3>3. QED
        BY <2>2, <3>2 DEF n, m
    <2>3. QED
      BY <1>1, <1>2, <2>1, <2>2, WithdrawnIs
  <1>4. \A i \in 1 .. Len(queue') : queue'[i].op = "save" => Readable(docs', queue'[i].persona)
    BY <1>1, <1>2, <1>3 DEF Documents, DocumentsOK, Readable
  <1>5. \A d \in Calls : (calls'[d].pc = "loaded" /\ calls'[d].out # "unavailable")
                                => Readable(docs', calls'[d].persona)
    <2>1. \A p \in Personas : Readable(docs, p) => Readable(docs', p)
      BY <1>2 DEF Readable
    <2>2. QED
      BY <1>1, <1>2, <2>1, LoadedKept
  <1>6. QED
    BY <1>1, <1>2, <1>4, <1>5 DEF Documents, DocumentsOK, Readable

LEMMA AdvanceDocuments ==
    ASSUME RInv, NEW c \in Calls, Advance(c)
    PROVE  Documents'
  <1>0. IInv
    BY DEF RInv
  <1>1. CASE Persist(c)
    <2>1. /\ Others(c) /\ calls'[c].pc = calls[c].then /\ UNCHANGED <<docs, stores>>
          /\ queue' = queue \/ (StoreOf(state).ok /\ queue' = Append(queue, SaveOf(state', Background)))
          /\ state'.store = state.store
      BY <1>0, <1>1, PersistIs, OnlyOthers
    <2>2. calls[c].then # "loaded"
      BY <1>0 DEF IInv, CallsOK, GoodCall, Thens
    <2>3. QED
      BY <2>1, <2>2, SaveReadable, DocumentsKept
  <1>2. CASE ApplyReject(c) \/ ApplyDone(c) \/ Finish(c)
    BY <1>0, <1>2, ApplyReturnsIs, OnlyOthers, DocumentsKept DEF Returned
  <1>3. CASE ApplySamePersona(c)
    BY <1>0, <1>3, ApplySamePersonaIs, OnlyOthers, DocumentsKept
  <1>4. CASE ApplySwitch(c)
    <2>1. /\ Others(c) /\ calls'[c].pc # "loaded" /\ UNCHANGED <<docs, stores>>
          /\ queue' = queue \/ (StoreOf(state).ok /\ queue' = Append(queue, SaveOf(state', c)))
          /\ state'.store = state.store
      BY <1>0, <1>4, ApplySwitchIs, OnlyOthers
    <2>2. QED
      BY <2>1, SaveReadable, DocumentsKept
  <1>5. CASE ApplyLoad(c)
    <2>1. /\ Others(c) /\ calls'[c].pc = "loading" /\ UNCHANGED <<docs, stores>>
          /\ queue' = Append(queue, OpOf("load", c))
      BY <1>0, <1>5, ApplyLoadIs, OnlyOthers
    <2>2. QED
      BY <2>1, OpIs, DocumentsKept
  <1>6. CASE ApplySaveFailed(c) \/ ApplyDiscard(c)
    <2>1. Others(c) /\ calls'[c].pc = "done" /\ UNCHANGED <<docs, stores, queue>>
      BY <1>0, <1>6, ApplyFailsIs, OnlyOthers DEF Returned
    <2>2. QED
      BY <2>1, DocumentsKept
  <1>7. CASE SendClone(c)
    BY <1>0, <1>7, SendCloneIs, OnlyOthers, DocumentsKept
  <1>8. CASE SendStart(c)
    BY <1>0, <1>8, SendStartIs, OnlyOthers, DocumentsKept DEF Returned
  <1>9. CASE StreamEvent(c)
    BY <1>0, <1>9, StreamEventIs, OnlyOthers, DocumentsKept
  <1>10. CASE StreamClosed(c)
    BY <1>0, <1>10, StreamClosedIs, OnlyOthers, DocumentsKept
  <1>11. CASE SendEnd(c)
    BY <1>0, <1>11, SendEndIs, OnlyOthers, DocumentsKept DEF Returned
  <1>12. CASE VoiceStarted(c)
    BY <1>0, <1>12, VoiceStartedIs, DocumentsKept DEF Returned
  <1>13. CASE TakeTranscript(c)
    BY <1>0, <1>13, TakeTranscriptIs, OnlyOthers, DocumentsKept DEF Returned
  <1>14. CASE EditElsewhere(c)
    <2>1. /\ Others(c) /\ calls'[c].pc = "waiting" /\ UNCHANGED <<docs, stores>>
          /\ queue' = Append(queue, OpOf(calls[c].api, c)) /\ calls[c].api \in Edits
      BY <1>0, <1>14, EditElsewhereIs, OnlyOthers
    <2>2. QED
      BY <2>1, OpIs, DocumentsKept DEF Edits
  <1>15. CASE EditHere(c) \/ ClearHere(c)
    <2>1. /\ Others(c) /\ calls'[c].pc # "loaded" /\ UNCHANGED <<docs, stores>>
          /\ queue' = queue \/ (StoreOf(state).ok /\ queue' = Append(queue, SaveOf(state', c)))
          /\ state'.store = state.store
      BY <1>0, <1>15, EditHereIs, ClearHereIs, OnlyOthers DEF Waits, Returned
    <2>2. QED
      BY <2>1, SaveReadable, DocumentsKept
  <1>16. QED
    BY <1>1, <1>2, <1>3, <1>4, <1>5, <1>6, <1>7, <1>8, <1>9, <1>10, <1>11, <1>12, <1>13, <1>14, <1>15,
       InstallDocuments, DropDocuments
       DEF Advance, ApplyStep, SendStep, VoiceStep, EditStep

LEMMA RestoredNothing == ASSUME NEW p \in Personas PROVE Restored(p, {}).turns = {}
  <1> DEFINE s == NoSession(p)
             turns == {IF t.st = "streaming" THEN [t EXCEPT !.st = "interrupted"] ELSE t : t \in {}}
  <1>1. turns = {}
    OBVIOUS
  <1>2. s \in Sessions
    BY NoSessionQuiet DEF QuietSession, GoodSession
  <1>3. Restored(p, {}) = [s EXCEPT !.turns = turns, !.next = 1]
    BY DEF Restored
  <1> HIDE DEF s, turns
  <1>4. QED
    BY <1>1, <1>2, <1>3 DEF Sessions

\* What a served operation writes.
LEMMA ServeWrites ==
    ASSUME RInv, Serve
    PROVE  \/ docs' = docs
           \/ \E doc \in Docs :
                 /\ docs' = [docs EXCEPT ![Op.persona] = doc] /\ Op.persona \in Personas
                 /\ doc.kind = "ok" \/ (doc.kind = "none" /\ doc.turns = {})
                 /\ Readable(docs, Op.persona) \/ Op.op = "clear"
  <1>1. IInv /\ Documents
    BY DEF RInv
  <1>2. /\ queue # <<>> /\ queue' = Tail(queue) /\ Op \in GoodOps /\ Op \in Operations
        /\ Op.persona \in Personas /\ GoodTurns(Op.turns, Op.persona)
    BY ServeIs DEF RInv, GoodOps, Operations
  <1>3. CASE ServeSave
    <2>1. Op.op = "save" /\ Readable(docs, Op.persona)
      <3>1. Op.op = "save" /\ Len(queue) # 0 /\ Op = queue[1] /\ Len(queue) \in Nat
        BY <1>1, <1>2, <1>3, TailIs, QueueLen DEF ServeSave, Serving
      <3>2. 1 \in 1 .. Len(queue)
        BY <3>1
      <3>3. QED
        BY <1>1, <3>1, <3>2 DEF Documents, DocumentsOK
    <2>2. docs' = docs \/ docs' = [docs EXCEPT ![Op.persona] = Document(Op.turns)]
      BY <1>3 DEF ServeSave, Write, Fail
    <2>3. Document(Op.turns) \in Docs /\ Document(Op.turns).kind = "ok"
      BY <1>2, DocumentTyped DEF Document
    <2>4. QED
      BY <1>2, <2>1, <2>2, <2>3
  <1>4. CASE ServeLoad
    BY <1>4 DEF ServeLoad
  <1>5. CASE ServeClear
    <2> DEFINE doc == [kind |-> "none", turns |-> {}]
    <2>1. doc \in Docs
      BY DEF Docs, Kinds
    <2>2. Op.op = "clear" /\ (docs' = docs \/ docs' = [docs EXCEPT ![Op.persona] = doc])
      BY <1>5 DEF ServeClear, Serving, Write, Fail
    <2>3. QED
      BY <1>2, <2>1, <2>2
  <1>6. CASE ServeEdit
    <2> DEFINE p == Op.persona
               before == docs[p].turns
               turns == Restored(p, before).turns
               after == Mutated(Op.op, turns, Op.n)
    <2>1. docs' = docs \/ (docs' = [docs EXCEPT ![p] = Document(after)] /\ Has(turns, Op.n))
      BY <1>6 DEF ServeEdit, Write, Fail
    <2>2. GoodTurns(turns, p) /\ Streaming(turns) = {}
      <3>1. GoodTurns(before, p)
        BY <1>1, <1>2 DEF IInv, DocsOK
      <3>2. QuietSession(Restored(p, before), p)
        BY <1>2, <3>1, RestoredQuiet
      <3>3. QED
        BY <3>2 DEF QuietSession, GoodSession
    <2>3. Document(after) \in Docs /\ Document(after).kind = "ok"
      <3> DEFINE op == Op.op
                 n == Op.n
      <3> HIDE DEF turns, op, n
      <3>1. GoodTurns(after, p)
        BY <2>2, MutatedTurns DEF op, n
      <3>2. QED
        BY <3>1, DocumentTyped DEF Document
    <2>4. Has(turns, Op.n) => Readable(docs, p)
      <3>1. SUFFICES ASSUME ~Readable(docs, p) PROVE turns = {}
        BY DEF Has
      <3>2. before = {}
        BY <1>1, <1>2, <3>1 DEF Documents, DocumentsOK, Readable
      <3>3. Restored(p, {}).turns = {}
        BY <1>2, RestoredNothing
      <3> HIDE DEF before
      <3>4. QED
        BY <3>2, <3>3
    <2>5. QED
      BY <1>2, <2>1, <2>3, <2>4
  <1>7. QED
    BY <1>3, <1>4, <1>5, <1>6 DEF Serve

\* A served save changes nothing of a store but the revisions it has seen.
LEMMA ServeStores ==
    ASSUME IInv, Serve
    PROVE  /\ Len(stores') = Len(stores)
           /\ \A i \in 1 .. Len(stores) :
                 stores'[i].ok = stores[i].ok /\ stores'[i].persona = stores[i].persona
  <1>1. stores \in Seq(Stores)
    BY DEF IInv, StoresOK
  <1> DEFINE n == Len(stores)
  <1>2. n \in Nat /\ DOMAIN stores = 1 .. n /\ \A i \in 1 .. n : stores[i] \in Stores
    BY <1>1, LenProperties, ElementOfSeq
  <1>3. CASE stores' = stores
    BY <1>3
  <1>4. ASSUME NEW k, NEW rev,
               \/ stores' = [stores EXCEPT ![k].latest = rev, ![k].tried = rev]
               \/ stores' = [stores EXCEPT ![k].tried = rev]
        PROVE  /\ Len(stores') = n
               /\ \A i \in 1 .. n : stores'[i].ok = stores[i].ok /\ stores'[i].persona = stores[i].persona
    <2> HIDE DEF n
    <2>1. stores' = [i \in 1 .. n |-> stores'[i]]
      BY <1>2, <1>4
    <2>2. Len(stores') = n
      BY <1>2, <2>1
    <2>3. ASSUME NEW i \in 1 .. n
          PROVE  stores'[i].ok = stores[i].ok /\ stores'[i].persona = stores[i].persona
      <3> DEFINE s == stores[i]
      <3>1. \/ stores'[i] = s
            \/ stores'[i] = [s EXCEPT !.latest = rev, !.tried = rev]
            \/ stores'[i] = [s EXCEPT !.tried = rev]
        BY <1>2, <1>4
      <3>2. s \in Stores
        BY <1>2
      <3> HIDE DEF s
      <3>3. stores'[i].ok = s.ok /\ stores'[i].persona = s.persona
        BY <3>1, <3>2 DEF Stores
      <3>4. QED
        BY <3>3 DEF s
    <2>4. QED
      BY <2>2, <2>3
  <1>5. CASE ServeSave
    <2>1. \/ stores' = stores
          \/ stores' = [stores EXCEPT ![Op.store].latest = Op.n, ![Op.store].tried = Op.n]
          \/ stores' = [stores EXCEPT ![Op.store].tried = Op.n]
      BY <1>5 DEF ServeSave
    <2>2. QED
      BY <1>3, <1>4, <2>1
  <1>6. QED
    BY <1>3, <1>5 DEF Serve, ServeLoad, ServeEdit, ServeClear

LEMMA ServeDocuments ==
    ASSUME RInv, Serve
    PROVE  Documents'
  <1>1. /\ IInv /\ Documents /\ Waiting(queue, calls) /\ docs \in [Personas -> Docs]
        /\ calls \in [Calls -> CallRecords] /\ Len(queue) \in Nat
    BY StateIs, QueueLen DEF RInv, IInv, DocsOK
  <1>2. /\ queue # <<>> /\ queue' = Tail(queue) /\ Op \in GoodOps
        /\ (Op.call \notin Calls => calls' = calls) /\ (Op.call \in Calls => Served(Op.call))
    BY <1>1, ServeIs
  <1>3. /\ \A p \in Personas : Readable(docs, p) => Readable(docs', p)
        /\ \A p \in Personas : docs'[p].kind # "ok" => docs'[p].turns = {}
    <2>1. CASE docs' = docs
      BY <1>1, <2>1 DEF Documents, DocumentsOK
    <2>2. CASE \E doc \in Docs :
                 /\ docs' = [docs EXCEPT ![Op.persona] = doc] /\ Op.persona \in Personas
                 /\ doc.kind = "ok" \/ (doc.kind = "none" /\ doc.turns = {})
                 /\ Readable(docs, Op.persona) \/ Op.op = "clear"
      <3>1. PICK doc \in Docs :
                 /\ docs' = [docs EXCEPT ![Op.persona] = doc]
                 /\ doc.kind = "ok" \/ (doc.kind = "none" /\ doc.turns = {})
        BY <2>2
      <3>2. \A p \in Personas : docs'[p] = docs[p] \/ docs'[p] = doc
        BY <1>1, <3>1
      <3>3. QED
        BY <1>1, <3>1, <3>2 DEF Documents, DocumentsOK, Readable
    <2>3. QED
      BY <2>1, <2>2, ServeWrites
  <1>4. \A i \in 1 .. Len(stores') : stores'[i].ok => Readable(docs', stores'[i].persona)
    <2>1. \A i \in 1 .. Len(stores) : stores[i].persona \in Personas
      <3>1. stores \in Seq(Stores)
        BY <1>1 DEF IInv, StoresOK
      <3>2. \A i \in 1 .. Len(stores) : stores[i] \in Stores
        BY <3>1, ElementOfSeq
      <3>3. QED
        BY <3>2 DEF Stores
    <2>2. /\ Len(stores') = Len(stores)
          /\ \A i \in 1 .. Len(stores) :
                 stores'[i].ok = stores[i].ok /\ stores'[i].persona = stores[i].persona
      BY <1>1, ServeStores
    <2>3. \A i \in 1 .. Len(stores) : stores[i].ok => Readable(docs, stores[i].persona)
      BY <1>1 DEF Documents, DocumentsOK
    <2>4. QED
      BY <1>3, <2>1, <2>2, <2>3
  <1>5. \A i \in 1 .. Len(queue') : queue'[i].op = "save" => Readable(docs', queue'[i].persona)
    <2>1. \A i \in 1 .. Len(queue) : queue[i].persona \in Personas
      BY <1>1, ElementOfSeq DEF IInv, QueueOK, GoodOps, Operations
    <2>2. Len(queue') = Len(queue) - 1 /\ \A i \in 1 .. Len(queue') : queue'[i] = queue[i + 1]
      BY <1>1, <1>2, TailIs
    <2> DEFINE m == Len(queue')
               n == Len(queue)
    <2>3. \A i \in 1 .. m : i + 1 \in 1 .. n
      <3>1. n \in Nat /\ m = n - 1
        BY <1>1, <2>2
      <3> HIDE DEF m, n
      <3>2. QED
        BY <3>1
    <2>4. QED
      BY <1>1, <1>3, <2>1, <2>2, <2>3 DEF Documents, DocumentsOK
  <1>6. ASSUME NEW e \in Calls, calls'[e].pc = "loaded", calls'[e].out # "unavailable"
        PROVE  Readable(docs', calls'[e].persona)
    <2>1. CASE calls'[e] = calls[e]
      <3>1. calls[e].persona \in Personas
        BY <1>1 DEF CallRecords
      <3>2. QED
        BY <1>1, <1>3, <1>6, <2>1, <3>1 DEF Documents, DocumentsOK
    <2>2. CASE Op.call \in Calls /\ e = Op.call
      <3>1. Served(e)
        BY <1>2, <2>2
      <3>2. /\ Readable(docs, calls[e].persona) /\ docs' = docs /\ calls'[e].persona = calls[e].persona
        BY <1>6, <3>1 DEF Served, Returned, Goes
      <3>3. QED
        BY <3>2
    <2>3. QED
      BY <1>2, <2>1, <2>2 DEF Served, Only
  <1>7. QED
    BY <1>3, <1>4, <1>5, <1>6 DEF Documents, DocumentsOK

LEMMA NextDocuments == ASSUME RInv, [Next]_vars PROVE Documents'
  <1>1. CASE UNCHANGED vars
    BY <1>1 DEF vars, RInv, Documents
  <1>2. QED
    BY <1>1, ServeDocuments, StartDocuments, AdvanceDocuments DEF Next, Rest

-----------------------------------------------------------------------------
LEMMA InitRInv == ASSUME Init PROVE RInv
  <1>1. IInv
    BY InitIInv
  <1>2. queue = <<>> /\ Len(queue) = 0 /\ calls = [c \in Calls |-> IdleCall]
    BY EmptySeq DEF Init
  <1>3. Waiting(queue, calls)
    BY <1>2 DEF Waiting
  <1>4. RequestsOK(runtime, state, calls)
    <2>1. runtime.rev = 1 /\ state.active_request.rid = 0 /\ 0 <= runtime.rev
      BY DEF Init, NoRequest
    <2>2. \A c \in Calls : Behaves(runtime, state, calls[c])
      BY <1>2, <2>1, IdleCallIs DEF Behaves
    <2>3. \A c, d \in Calls : Apart(runtime, calls[c], calls[d])
      BY <1>2, IdleCallIs DEF Apart
    <2>4. Owned(state, calls)
      BY <2>1 DEF Owned
    <2>5. QED
      BY <2>1, <2>2, <2>3, <2>4 DEF RequestsOK
  <1>5. Documents
    <2>1. PICK kinds \in FirstDocs :
           docs = [p \in Personas |->
                [kind |-> kinds[p],
                 turns |-> IF kinds[p] = "ok" THEN {[id |-> 1, home |-> p, st |-> "complete"]} ELSE {}]]
      BY DEF Init
    <2>2. \A p \in Personas : docs[p].kind # "ok" => docs[p].turns = {}
      BY <2>1
    <2>3. Len(stores) = 1 /\ (stores[1].ok => Readable(docs, stores[1].persona))
      <3>1. stores = << NewStore(FirstPersona, Writable(docs[FirstPersona])) >>
        BY DEF Init
      <3>2. QED
        BY <3>1 DEF NewStore, Writable, Readable
    <2>4. \A c \in Calls : calls[c].pc # "loaded"
      BY <1>2, IdleCallIs
    <2>5. QED
      BY <1>2, <2>2, <2>3, <2>4 DEF Documents, DocumentsOK
  <1>6. QED
    BY <1>1, <1>3, <1>4, <1>5 DEF RInv

LEMMA NextRInv == ASSUME RInv, [Next]_vars PROVE RInv'
  <1>1. IInv'
    BY NextIInv DEF RInv
  <1>2. QED
    BY <1>1, NextWaiting, NextRequests, NextDocuments DEF RInv

\* In every state a queued operation finds its call waiting for it, every call
\* fits the runtime and the state it meets and is told apart from the others,
\* and whoever may write a document could read it.
THEOREM RequestsInvariant == Spec => []RInv
  BY InitRInv, NextRInv, PTL DEF Spec

-----------------------------------------------------------------------------
\* Whatever order sends, cancellations, utterances and switches run in, an
\* event that send still takes comes from the request it started itself, and
\* an input that was overtaken before its send ran never starts an answer
\* (request_is_current, request_revision).
THEOREM AnswersTheorem == Spec => []AnswersAreWanted
  <1>1. RInv => RepliesReachTheirOwnRequest
    <2> SUFFICES ASSUME RInv, NEW c \in Calls, At(c, "send", "streaming"), calls[c].rid # 0, Mine(c),
                        state.active_request.rev = runtime.rev
                 PROVE  state.active_request.call = c
      BY DEF RepliesReachTheirOwnRequest
    <2> DEFINE d == state.active_request.call
    <2>1. calls[c].rid = state.active_request.rid /\ calls[c].rt.rev = runtime.rev
      BY DEF Mine, IsCurrent
    <2>2. d \in Calls /\ calls[d].rid = calls[c].rid /\ calls[d].rt.rev = runtime.rev
      BY <2>1 DEF RInv, RequestsOK, Owned, Owns
    <2> HIDE DEF d
    <2>3. c = d
      BY <2>1, <2>2 DEF RInv, RequestsOK, Apart
    <2>4. QED
      BY <2>3 DEF d
  <1>2. RInv => StaleInputNeverStarts
    BY DEF RInv, RequestsOK, Behaves, StaleInputNeverStarts
  <1>3. QED
    BY <1>1, <1>2, RequestsInvariant, PTL DEF AnswersAreWanted

\* A call that does not move keeps its result.
LEMMA StartOthers == ASSUME RInv, NEW c \in Calls, Start(c) PROVE Others(c)
  <1>1. IInv /\ calls[c] = IdleCall
    BY StartIdle DEF RInv
  <1>2. ASSUME NEW rev \in 1 .. MaxConfig, Refresh(c, rev) PROVE Others(c)
    BY <1>1, <1>2, RefreshIs, RefreshOthers
  <1>3. CASE SendInput(c)
    BY <1>1, <1>3, SendInputIs, OnlyOthers
  <1>4. CASE Cancel(c) \/ Suspend(c)
    BY <1>1, <1>4, SilenceIs
  <1>5. CASE \/ Resume(c) \/ EditCall(c)
             \/ \E u \in Utterances : VoiceClone(c, "voice", u) \/ VoiceClone(c, "take", u) \/ CancelVoice(c, u)
    BY <1>1, <1>5, OpensIs, OnlyOthers
  <1>6. CASE Shutdown(c)
    BY <1>1, <1>6, ShutdownIs, OnlyOthers
  <1>7. QED
    BY <1>2, <1>3, <1>4, <1>5, <1>6 DEF Start, UiCall

LEMMA AdvanceOthers == ASSUME RInv, NEW c \in Calls, Advance(c) PROVE Others(c)
  <1>0. IInv
    BY DEF RInv
  <1>1. CASE Persist(c) \/ Finish(c)
    BY <1>0, <1>1, PersistIs, ApplyReturnsIs, OnlyOthers
  <1>2. CASE ApplyStep(c)
    BY <1>0, <1>2, ApplyReturnsIs, ApplySamePersonaIs, ApplySwitchIs, ApplyLoadIs, ApplyFailsIs,
       ApplyInstallIs, DropApplyIs, OnlyOthers DEF ApplyStep
  <1>3. CASE SendStep(c)
    BY <1>0, <1>3, SendCloneIs, SendStartIs, StreamEventIs, StreamClosedIs, SendEndIs, OnlyOthers DEF SendStep
  <1>4. CASE VoiceStep(c)
    BY <1>0, <1>4, VoiceStartedIs, TakeTranscriptIs, OnlyOthers DEF VoiceStep
  <1>5. CASE EditStep(c)
    BY <1>0, <1>5, EditElsewhereIs, EditHereIs, ClearHereIs, OnlyOthers DEF EditStep, Waits
  <1>6. QED
    BY <1>1, <1>2, <1>3, <1>4, <1>5 DEF Advance

\* Nothing but take_voice_transcript itself accepts a transcript, and it finds
\* the runtime as it is now.
LEMMA AcceptedIsFresh ==
    ASSUME RInv, [Next]_vars, NEW c \in Calls, At(c, "take", "cloned"), calls'[c].out = "accepted"
    PROVE  /\ state.pending_voice.rev = runtime.rev
           /\ state.pending_voice.persona = state.session.home
           /\ ~state.switching
  <1>1. IInv /\ calls[c].pc = "cloned" /\ calls[c].api = "take" /\ calls[c].out # "accepted"
    BY RunningNotAccepted DEF RInv, At
  <1>2. CASE Serve
    <2>1. /\ Op.call \notin Calls => calls' = calls
          /\ Op.call \in Calls => Awaits(Op.op, calls[Op.call]) /\ Only(Op.call)
      BY <1>1, <1>2, ServeIs DEF RInv, Served
    <2>2. Op.call # c
      BY <1>1, <2>1 DEF Awaits
    <2>3. QED
      BY <1>1, <2>1, <2>2 DEF Only
  <1>3. CASE UNCHANGED vars
    BY <1>1, <1>3 DEF vars
  <1>4. ASSUME NEW d \in Calls, d # c, Others(d) PROVE FALSE
    BY <1>1, <1>4 DEF Others, Kept
  <1>5. ASSUME NEW d \in Calls, Start(d) PROVE FALSE
    BY <1>1, <1>4, <1>5, StartIdle, StartOthers
  <1>6. ASSUME NEW d \in Calls, d # c, Advance(d) PROVE FALSE
    BY <1>4, <1>6, AdvanceOthers
  <1>7. CASE Advance(c)
    <2>1. TakeTranscript(c)
      BY <1>1, <1>7 DEF Advance, Persist, Finish, ApplyStep, SendStep, VoiceStep, EditStep, At, Accepted,
         ApplyReject, ApplySamePersona, ApplyDone, ApplySwitch, ApplyLoad, ApplySaveFailed, ApplyInstall,
         ApplyDiscard, DropApply, SendClone, SendStart, StreamEvent, StreamClosed, SendEnd, VoiceStarted,
         EditElsewhere, EditHere, ClearHere, Edits
    <2>2. VoiceFresh(c) /\ state.pending_voice.utterance = calls[c].n
      BY <1>1, <2>1, TakeTranscriptIs DEF Returned
    <2>3. calls[c].rt.rev = runtime.rev /\ calls[c].rt.persona = runtime.persona
      BY <1>1, <2>2 DEF RInv, RequestsOK, Behaves, VoiceFresh
    <2>4. QED
      BY <1>1, <2>2, <2>3, StateIs DEF VoiceFresh
  <1>8. QED
    BY <1>2, <1>3, <1>5, <1>6, <1>7 DEF Next, Rest

\* A transcript is accepted only under the runtime and the persona that are in
\* force at that moment, though the call compares it with a runtime it cloned
\* before it locked the state (take_voice_transcript).
THEOREM TranscriptTheorem == Spec => TranscriptIsFresh
  <1> DEFINE Fresh == \A c \in Calls : (At(c, "take", "cloned") /\ calls'[c].out = "accepted")
                         => /\ state.pending_voice.rev = runtime.rev
                            /\ state.pending_voice.persona = state.session.home
                            /\ ~state.switching
  <1>1. RInv /\ [Next]_vars => Fresh
    BY AcceptedIsFresh
  <1>2. QED
    BY <1>1, RequestsInvariant, PTL DEF Spec, TranscriptIsFresh

\* A document that could not be read is only ever removed by the clearing the
\* user asked for: no save and no edit of a session that started empty in its
\* place overwrites it (load_persona_session, save_reserved).
THEOREM UnreadableTheorem == Spec => UnsupportedDocumentIsKept
  <1> DEFINE Stays == \A p \in Personas : (docs[p].kind = "unsupported" /\ docs'[p] # docs[p])
                         => queue # <<>> /\ Op.op = "clear" /\ Op.persona = p
  <1>1. ASSUME RInv, [Next]_vars PROVE Stays
    <2>1. CASE Serve
      <3>1. queue # <<>> /\ docs \in [Personas -> Docs]
        BY <1>1, <2>1, ServeIs DEF RInv, IInv, DocsOK
      <3>2. SUFFICES ASSUME NEW p \in Personas, docs[p].kind = "unsupported", docs'[p] # docs[p]
                     PROVE  Op.op = "clear" /\ Op.persona = p
        BY <3>1
      <3>3. PICK doc \in Docs : /\ docs' = [docs EXCEPT ![Op.persona] = doc]
                                /\ Readable(docs, Op.persona) \/ Op.op = "clear"
        BY <1>1, <2>1, <3>2, ServeWrites
      <3>4. Op.persona = p
        BY <3>1, <3>2, <3>3
      <3>5. QED
        BY <3>2, <3>3, <3>4 DEF Readable
    <2>2. CASE UNCHANGED vars
      BY <2>2 DEF vars
    <2>3. ASSUME NEW c \in Calls, Start(c) \/ Advance(c) PROVE docs' = docs
      BY <2>3 DEF Start, Advance, Persist, Finish, ApplyStep, SendStep, VoiceStep, EditStep, UiCall, EditCall,
         EditClone, Refresh, SendInput, Shutdown, Cancel, Suspend, Resume, VoiceClone, CancelVoice, UiStep,
         ApplyReject, ApplySamePersona, ApplyDone, ApplySwitch, ApplyLoad, ApplySaveFailed, ApplyInstall,
         ApplyDiscard, DropApply, SendClone, SendStart, StreamEvent, StreamClosed, SendEnd, VoiceStarted,
         TakeTranscript, EditElsewhere, EditHere, ClearHere
    <2>4. QED
      BY <1>1, <2>1, <2>2, <2>3 DEF Next, Rest
  <1>2. QED
    BY <1>1, RequestsInvariant, PTL DEF Spec, UnsupportedDocumentIsKept

-----------------------------------------------------------------------------
(***************************************************************************)
(* However refreshes of the configuration are spawned, replaced and        *)
(* dropped, the newest one runs in the end and no switch of personas is    *)
(* left without a call that ends it.                                       *)
(*                                                                         *)
(* The invariant relates the calls of apply_configuration to each other:   *)
(* the one that is running and not replaced has the newest revision, two   *)
(* running ones have different revisions, one that was dropped was         *)
(* replaced by a newer one that was not, and the pending revision belongs  *)
(* to a call that is where the state says it is.                           *)
(***************************************************************************)

\* The places of a call of apply_configuration while it switches personas.
Switching == {"saving", "saved", "loading", "loaded"}
IsApply(r) == r.api = "apply"
Runs(r) == r.api = "apply" /\ r.pc \notin {"idle", "done"}
Lost(r) == r.doomed \/ (r.pc = "done" /\ r.out = "dropped")
Replaced(cs, r) == \E d \in Calls : IsApply(cs[d]) /\ cs[d].n > r.n /\ ~Lost(cs[d])

\* Where a call of apply_configuration is, and what that says of the revisions.
Applies(tgt, rt, s, cs, f, r) ==
    /\ r.pc \in Switching \cup {"spawned", "persist_weak", "applied", "done"}
    /\ r.persona = tgt[r.n]
    /\ r.pc = "persist_weak" => r.then = "applied"
    /\ r.pc = "spawned" => r.out = "none"
    /\ r.pc = "done" => r.out \in {"applied", "rejected", "error", "dropped"}
    /\ (r.pc = "saved" /\ r.out = "error") => f # 0
    /\ r.pc \in Switching => r.n <= s.pending_cfg
    /\ r.pc \in {"persist_weak", "applied"} => r.n <= rt.cfg
    /\ (r.pc = "done" /\ r.out = "applied") => r.n <= rt.cfg
    /\ (r.pc = "done" /\ r.out = "rejected") => r.n <= s.pending_cfg
    /\ (r.pc = "done" /\ r.out = "error") => s.shutting_down \/ (f # 0 /\ r.n <= s.pending_cfg)
    /\ Lost(r) => Replaced(cs, r)
    /\ (r.pc \in Switching /\ s.pending_cfg = r.n /\ ~s.shutting_down) => s.switching /\ r.n > rt.cfg

Newest(cs, n) == \A d \in Calls : IsApply(cs[d]) => cs[d].n <= n

\* The revision that runs and the one that is pending.
Configured(tgt, rt, s, cs) ==
    /\ rt.cfg # 0 => rt.persona = tgt[rt.cfg]
    /\ rt.cfg <= s.pending_cfg
    /\ s.pending_cfg # 0 => \E e \in Calls : IsApply(cs[e]) /\ cs[e].n = s.pending_cfg

\* What the calls that still run are to each other.
Ordered(cs) ==
    /\ \A c \in Calls : cs[c].doomed => Runs(cs[c])
    /\ \A c \in Calls : (Runs(cs[c]) /\ ~cs[c].doomed) => Newest(cs, cs[c].n)
    /\ \A c, d \in Calls : (Runs(cs[c]) /\ Runs(cs[d]) /\ cs[c].n = cs[d].n) => c = d

\* A switch is at the call whose revision is pending, or was dropped with it.
Switcher(s, cs) ==
    (s.switching /\ ~s.shutting_down) =>
        \E e \in Calls : /\ IsApply(cs[e]) /\ cs[e].n = s.pending_cfg
                         /\ cs[e].pc \in Switching \/ (cs[e].pc = "done" /\ cs[e].out = "dropped")

\* A revision that does not run yet has a call that is still to apply it.
Pursued(rt, s, cs, f) ==
    (f = 0 /\ ~s.shutting_down) =>
        \A c \in Calls : IsApply(cs[c]) =>
            \/ cs[c].n <= rt.cfg
            \/ \E d \in Calls : Runs(cs[d]) /\ ~cs[d].doomed /\ cs[d].n >= cs[c].n

Switches(tgt, rt, s, cs, f) ==
    /\ f \in Nat
    /\ Configured(tgt, rt, s, cs)
    /\ \A c \in Calls : IsApply(cs[c]) => Applies(tgt, rt, s, cs, f, cs[c])
    /\ Ordered(cs)
    /\ Switcher(s, cs)
    /\ Pursued(rt, s, cs, f)

SInv == RInv /\ Switches(target, runtime, state, calls, faults)

-----------------------------------------------------------------------------
(* Steps that are not about apply_configuration.                           *)

\* What the invariant sees of a call.
Same(r, q) ==
    /\ q.api = r.api /\ q.pc = r.pc /\ q.then = r.then /\ q.out = r.out
    /\ q.n = r.n /\ q.persona = r.persona /\ q.doomed = r.doomed
Alike(r, q) == IF IsApply(r) THEN Same(r, q) ELSE ~IsApply(q) /\ ~q.doomed

\* The revisions stay, and a shutdown or a fault is not taken back.
Later ==
    /\ target' = target /\ faults' \in Nat
    /\ runtime.cfg <= runtime'.cfg /\ state.pending_cfg <= state'.pending_cfg
    /\ state.shutting_down => state'.shutting_down
    /\ faults # 0 => faults' # 0
Calm ==
    /\ target' = target /\ runtime' = runtime /\ (faults' = faults \/ faults' = faults + 1)
    /\ state'.pending_cfg = state.pending_cfg /\ state'.switching = state.switching
    /\ state.shutting_down => state'.shutting_down

LEMMA Numbers ==
    ASSUME IInv
    PROVE  /\ runtime.cfg \in Nat /\ state.pending_cfg \in Nat
           /\ \A c \in Calls : calls[c].n \in Nat /\ (IsApply(calls[c]) => calls[c].n # 0)
  <1>1. runtime.cfg \in Nat
    BY AgentAssumption DEF IInv, RuntimeOK, Runtimes, Configs, AgentAssumption
  <1>2. \A c \in Calls : calls[c].n \in Nat /\ (IsApply(calls[c]) => calls[c].n # 0)
    BY DEF IInv, CallsOK, GoodCall, CallRecords, IsApply
  <1>3. QED
    BY <1>1, <1>2, StateIs DEF States

LEMMA NumbersNext ==
    ASSUME IInv'
    PROVE  /\ runtime'.cfg \in Nat /\ state'.pending_cfg \in Nat
           /\ \A c \in Calls : calls'[c].n \in Nat
  <1>1. runtime'.cfg \in Nat
    BY AgentAssumption DEF IInv, RuntimeOK, Runtimes, Configs, AgentAssumption
  <1>2. QED
    BY <1>1, StateIsNext DEF States, CallRecords

\* A call that stands still keeps what is said of it, unless the pending
\* revision becomes its own.
LEMMA AppliesKept ==
    ASSUME IInv, IInv', Later, NEW d \in Calls, Same(calls[d], calls'[d]), IsApply(calls[d]),
           Applies(target, runtime, state, calls, faults, calls[d]),
           Replaced(calls, calls[d]) => Replaced(calls', calls'[d]),
           (/\ calls[d].pc \in Switching /\ state'.pending_cfg = calls[d].n /\ ~state'.shutting_down)
                => state'.switching /\ calls[d].n > runtime'.cfg
    PROVE  Applies(target', runtime', state', calls', faults', calls'[d])
  <1> DEFINE n == calls[d].n
  <1>1. /\ n \in Nat /\ runtime.cfg \in Nat /\ runtime'.cfg \in Nat
        /\ state.pending_cfg \in Nat /\ state'.pending_cfg \in Nat
    BY Numbers, NumbersNext
  <1>2. /\ n <= state.pending_cfg => n <= state'.pending_cfg
        /\ n <= runtime.cfg => n <= runtime'.cfg
    <2> HIDE DEF n
    <2>1. QED
      BY <1>1 DEF Later
  <1>3. Lost(calls'[d]) <=> Lost(calls[d])
    BY DEF Same, Lost
  <1>4. /\ calls'[d].pc = calls[d].pc /\ calls'[d].then = calls[d].then /\ calls'[d].out = calls[d].out
        /\ calls'[d].n = n /\ calls'[d].persona = calls[d].persona
    BY DEF Same
  <1>5. target' = target /\ (state.shutting_down => state'.shutting_down) /\ (faults # 0 => faults' # 0)
    BY DEF Later
  <1>6. /\ calls[d].pc \in Switching => n <= state'.pending_cfg
        /\ calls[d].pc \in {"persist_weak", "applied"} => n <= runtime'.cfg
        /\ (calls[d].pc = "done" /\ calls[d].out = "applied") => n <= runtime'.cfg
        /\ (calls[d].pc = "done" /\ calls[d].out = "rejected") => n <= state'.pending_cfg
        /\ (calls[d].pc = "done" /\ calls[d].out = "error")
               => state'.shutting_down \/ (faults' # 0 /\ n <= state'.pending_cfg)
    BY <1>2, <1>5 DEF Applies
  <1>7. Lost(calls[d]) => Replaced(calls', calls'[d])
    BY DEF Applies
  <1> HIDE DEF n
  <1>8. /\ calls[d].pc \in Switching \cup {"spawned", "persist_weak", "applied", "done"}
        /\ calls[d].persona = target[n]
        /\ calls[d].pc = "persist_weak" => calls[d].then = "applied"
        /\ calls[d].pc = "spawned" => calls[d].out = "none"
        /\ calls[d].pc = "done" => calls[d].out \in {"applied", "rejected", "error", "dropped"}
        /\ (calls[d].pc = "saved" /\ calls[d].out = "error") => faults' # 0
    BY <1>5 DEF Applies, n
  <1>9. (calls[d].pc \in Switching /\ state'.pending_cfg = n /\ ~state'.shutting_down)
            => state'.switching /\ n > runtime'.cfg
    BY DEF n
  <1>10. QED
    BY <1>3, <1>4, <1>5, <1>6, <1>7, <1>8, <1>9 DEF Applies

\* Nothing is said of the calls of other kinds.
LEMMA AlikeIs ==
    ASSUME NEW r, NEW q, Alike(r, q), r.doomed => Runs(r)
    PROVE  /\ IsApply(q) <=> IsApply(r)
           /\ IsApply(r) => Same(r, q)
           /\ q.doomed <=> r.doomed
           /\ Runs(q) <=> Runs(r)
           /\ IsApply(r) => (q.n = r.n /\ (Lost(q) <=> Lost(r)))
           /\ q.doomed => Runs(q)
  <1>1. r.doomed => IsApply(r)
    BY DEF Runs, IsApply
  <1>2. CASE IsApply(r)
    BY <1>2 DEF Alike, Same, Runs, IsApply, Lost
  <1>3. CASE ~IsApply(r)
    BY <1>1, <1>3 DEF Alike, Runs, IsApply, Lost
  <1>4. QED
    BY <1>2, <1>3

LEMMA SwitchesCalm ==
    ASSUME SInv, IInv', Calm, \A d \in Calls : Alike(calls[d], calls'[d])
    PROVE  Switches(target', runtime', state', calls', faults')
  <1>1. /\ IInv /\ Switches(target, runtime, state, calls, faults)
        /\ Configured(target, runtime, state, calls) /\ Ordered(calls) /\ Switcher(state, calls)
        /\ Pursued(runtime, state, calls, faults) /\ faults \in Nat
    BY DEF SInv, RInv, Switches
  <1>2. \A d \in Calls :
           /\ IsApply(calls'[d]) <=> IsApply(calls[d])
           /\ IsApply(calls[d]) => Same(calls[d], calls'[d])
           /\ calls'[d].doomed <=> calls[d].doomed
           /\ Runs(calls'[d]) <=> Runs(calls[d])
           /\ IsApply(calls[d]) => (calls'[d].n = calls[d].n /\ (Lost(calls'[d]) <=> Lost(calls[d])))
           /\ calls'[d].doomed => Runs(calls'[d])
    BY <1>1, AlikeIs DEF Ordered
  <1>3. Later /\ (faults' = 0 => faults = 0)
    <2>1. faults' \in Nat /\ (faults' = 0 => faults = 0) /\ (faults # 0 => faults' # 0)
      BY <1>1 DEF Calm
    <2>2. QED
      BY <1>1, <2>1, Numbers DEF Calm, Later
  <1>4. \A d \in Calls : Runs(calls[d]) => IsApply(calls[d])
    BY DEF Runs, IsApply
  <1>5. Configured(target', runtime', state', calls')
    BY <1>1, <1>2 DEF Configured, Calm
  <1>6. ASSUME NEW d \in Calls, IsApply(calls'[d])
        PROVE  Applies(target', runtime', state', calls', faults', calls'[d])
    <2>1. Replaced(calls, calls[d]) => Replaced(calls', calls'[d])
      BY <1>2, <1>6 DEF Replaced
    <2>2. IsApply(calls[d]) /\ Applies(target, runtime, state, calls, faults, calls[d])
      BY <1>1, <1>2, <1>6 DEF Switches
    <2>3. (/\ calls[d].pc \in Switching /\ state'.pending_cfg = calls[d].n /\ ~state'.shutting_down)
                => state'.switching /\ calls[d].n > runtime'.cfg
      BY <2>2 DEF Applies, Calm
    <2>4. QED
      BY <1>1, <1>2, <1>3, <2>1, <2>2, <2>3, AppliesKept
  <1>7. Ordered(calls')
    <2>1. ASSUME NEW c \in Calls, Runs(calls'[c]), ~calls'[c].doomed PROVE Newest(calls', calls'[c].n)
      <3>1. Newest(calls, calls[c].n) /\ calls'[c].n = calls[c].n
        BY <1>1, <1>2, <1>4, <2>1 DEF Ordered
      <3>2. QED
        BY <1>2, <3>1 DEF Newest
    <2>2. ASSUME NEW c \in Calls, NEW d \in Calls, Runs(calls'[c]), Runs(calls'[d]), calls'[c].n = calls'[d].n
          PROVE  c = d
      BY <1>1, <1>2, <1>4, <2>2 DEF Ordered
    <2>3. QED
      BY <1>2, <2>1, <2>2 DEF Ordered
  <1>8. Switcher(state', calls')
    <2>1. \A d \in Calls : IsApply(calls[d]) => calls'[d].pc = calls[d].pc /\ calls'[d].out = calls[d].out
      BY <1>2 DEF Same
    <2>2. QED
      BY <1>1, <1>2, <2>1 DEF Switcher, Calm
  <1>9. Pursued(runtime', state', calls', faults')
    BY <1>1, <1>2, <1>3, <1>4 DEF Pursued, Calm
  <1>10. QED
    BY <1>3, <1>5, <1>6, <1>7, <1>8, <1>9 DEF Switches, Later

\* A step of a call that is not apply_configuration's.
LEMMA OtherCalls ==
    ASSUME SInv, NEW c \in Calls, Others(c), SameDoom(c),
           ~IsApply(calls'[c]) /\ ~calls'[c].doomed, ~IsApply(calls[c])
    PROVE  \A d \in Calls : Alike(calls[d], calls'[d])
  <1> SUFFICES ASSUME NEW d \in Calls PROVE Alike(calls[d], calls'[d])
    OBVIOUS
  <1>1. CASE d = c
    BY <1>1 DEF Alike
  <1>2. CASE d # c
    <2>1. Kept(calls[d], calls'[d]) /\ calls'[d].doomed = calls[d].doomed
      BY <1>2 DEF Others, SameDoom
    <2>2. calls[d].doomed => IsApply(calls[d])
      BY DEF SInv, Switches, Ordered, Runs, IsApply
    <2>3. QED
      BY <2>1, <2>2 DEF Kept, Alike, Same, IsApply
  <1>3. QED
    BY <1>1, <1>2

LEMMA OnlySame == ASSUME NEW c \in Calls, Only(c) PROVE Others(c) /\ SameDoom(c)
  BY OnlyOthers DEF Only, SameDoom

\* It goes on or returns, or it begins.
LEMMA OtherMoves ==
    ASSUME SInv, NEW c \in Calls, Others(c), SameDoom(c), calls[c].api # "apply",
           Goes(calls[c], calls'[c]) \/ \E out : Returned(calls[c], calls'[c], out)
    PROVE  \A d \in Calls : Alike(calls[d], calls'[d])
  <1>1. ~calls[c].doomed
    BY DEF SInv, Switches, Ordered, Runs
  <1>2. QED
    BY <1>1, OtherCalls DEF Goes, Returned, IsApply

LEMMA OtherBegins ==
    ASSUME SInv, NEW c \in Calls, Others(c), SameDoom(c), calls[c] = IdleCall,
           calls'[c].api # "apply" /\ ~calls'[c].doomed
    PROVE  \A d \in Calls : Alike(calls[d], calls'[d])
  BY OtherCalls, IdleCallIs DEF IsApply

\* The fields of the state that a step of another kind leaves alone.
CalmReads ==
    /\ state'.pending_cfg = state.pending_cfg /\ state'.switching = state.switching
    /\ state'.shutting_down = state.shutting_down

LEMMA CalmReadsIs ==
    ASSUME \/ SameReads \/ EndReads
           \/ \E v : OutdatedReads(v) \/ VoiceReads(v)
           \/ \E r, q, n, v : StateReads(r, q, n, v, state.pending_cfg, state.switching, state.shutting_down)
    PROVE  CalmReads
  BY DEF SameReads, EndReads, OutdatedReads, VoiceReads, StateReads, Reads, CalmReads

LEMMA CalmIs ==
    ASSUME CalmReads, UNCHANGED <<target, runtime, faults>> PROVE Calm
  BY DEF CalmReads, Calm

LEMMA ServeSwitchesOther ==
    ASSUME SInv, Serve, \A d \in Calls : Op.call = d => ~IsApply(calls[d])
    PROVE  \A d \in Calls : Alike(calls[d], calls'[d])
  <1>1. /\ Op.call \notin Calls => calls' = calls
        /\ Op.call \in Calls => Served(Op.call)
    BY ServeIs DEF SInv, RInv
  <1>2. CASE Op.call \notin Calls
    <2>1. calls' = calls /\ \A d \in Calls : calls[d].doomed => IsApply(calls[d])
      BY <1>1, <1>2 DEF SInv, Switches, Ordered, Runs, IsApply
    <2>2. QED
      BY <2>1 DEF Alike, Same
  <1>3. CASE Op.call \in Calls
    <2> DEFINE d == Op.call
    <2>1. d \in Calls /\ Served(d) /\ calls[d].api # "apply"
      BY <1>1, <1>3 DEF IsApply
    <2> HIDE DEF d
    <2>2. QED
      BY <2>1, OnlySame, OtherMoves DEF Served
  <1>4. QED
    BY <1>2, <1>3

LEMMA CalmStart ==
    ASSUME SInv, IInv', NEW c \in Calls,
           SendInput(c) \/ Cancel(c) \/ Suspend(c) \/ Resume(c) \/ EditCall(c) \/ Shutdown(c)
           \/ \E u \in Utterances : VoiceClone(c, "voice", u) \/ VoiceClone(c, "take", u) \/ CancelVoice(c, u)
    PROVE  Switches(target', runtime', state', calls', faults')
  <1>1. IInv /\ calls[c] = IdleCall
    <2>1. Start(c)
      BY DEF Start, UiCall
    <2>2. QED
      BY <2>1, StartIdle DEF SInv, RInv
  <1>2. CASE SendInput(c)
    <2>1. Only(c) /\ Begun(calls'[c], "send", "input") /\ Calm
      BY <1>1, <1>2, SendInputIs, CalmReadsIs, CalmIs
    <2>2. QED
      BY <1>1, <2>1, OnlySame, OtherBegins, SwitchesCalm DEF Begun
  <1>3. CASE Cancel(c) \/ Suspend(c)
    <2>1. /\ Others(c) /\ SameDoom(c) /\ Calm
          /\ \E api \in {"cancel", "suspend"}, pc \in {"persist", "ended"} : Begun(calls'[c], api, pc)
      BY <1>1, <1>3, SilenceIs, CalmReadsIs, CalmIs
    <2>2. QED
      BY <1>1, <2>1, OtherBegins, SwitchesCalm DEF Begun
  <1>4. CASE \/ Resume(c) \/ EditCall(c)
             \/ \E u \in Utterances : VoiceClone(c, "voice", u) \/ VoiceClone(c, "take", u) \/ CancelVoice(c, u)
    <2>1. /\ Only(c) /\ Calm
          /\ \E api \in Apis \ {"apply", "send"}, pc \in {"cloned", "ended"} : Begun(calls'[c], api, pc)
      BY <1>1, <1>4, OpensIs, CalmReadsIs, CalmIs
    <2>2. QED
      BY <1>1, <2>1, OnlySame, OtherBegins, SwitchesCalm DEF Begun
  <1>5. CASE Shutdown(c)
    <2>1. Only(c) /\ calls'[c].api = "shutdown" /\ ~calls'[c].doomed /\ Calm
      BY <1>1, <1>5, ShutdownIs DEF Calm, StateReads, Reads
    <2>2. QED
      BY <1>1, <2>1, OnlySame, OtherBegins, SwitchesCalm
  <1>6. QED
    BY <1>2, <1>3, <1>4, <1>5

LEMMA CalmAdvance ==
    ASSUME SInv, IInv', NEW c \in Calls, SendStep(c) \/ VoiceStep(c) \/ EditStep(c) \/ Finish(c)
    PROVE  Switches(target', runtime', state', calls', faults')
  <1>1. IInv
    BY DEF SInv, RInv
  <1>2. CASE SendClone(c)
    <2>1. /\ Only(c) /\ calls[c].api = "send" /\ calls'[c].api = "send"
          /\ calls'[c].doomed = calls[c].doomed /\ Calm
      BY <1>1, <1>2, SendCloneIs, CalmReadsIs, CalmIs
    <2>2. ~calls[c].doomed
      BY <2>1 DEF SInv, Switches, Ordered, Runs
    <2>3. QED
      BY <2>1, <2>2, OnlySame, OtherCalls, SwitchesCalm DEF IsApply
  <1>3. CASE SendStart(c)
    <2>1. /\ Only(c) /\ calls[c].api = "send" /\ calls'[c].api = "send" /\ Calm
          /\ (calls'[c].doomed => calls[c].doomed)
      <3>1. CASE SameReads /\ Returned(calls[c], calls'[c], "error")
        BY <1>1, <1>3, <3>1, SendStartIs, CalmReadsIs, CalmIs DEF Returned
      <3>2. CASE ~(SameReads /\ Returned(calls[c], calls'[c], "error"))
        BY <1>1, <1>3, <3>2, SendStartIs, CalmReadsIs, CalmIs
      <3>3. QED
        BY <3>1, <3>2
    <2>2. ~calls[c].doomed
      BY <2>1 DEF SInv, Switches, Ordered, Runs
    <2>3. QED
      BY <2>1, <2>2, OnlySame, OtherCalls, SwitchesCalm DEF IsApply
  <1>4. CASE StreamEvent(c) \/ StreamClosed(c) \/ SendEnd(c)
    <2>1. /\ Only(c) /\ calls[c].api # "apply" /\ Calm
          /\ Goes(calls[c], calls'[c]) \/ \E out : Returned(calls[c], calls'[c], out)
      BY <1>1, <1>4, StreamEventIs, StreamClosedIs, SendEndIs, CalmReadsIs, CalmIs
    <2>2. QED
      BY <2>1, OnlySame, OtherMoves, SwitchesCalm
  <1>5. CASE VoiceStep(c)
    <2>1. /\ Others(c) /\ SameDoom(c) /\ calls[c].api # "apply" /\ Calm
          /\ Goes(calls[c], calls'[c]) \/ \E out : Returned(calls[c], calls'[c], out)
      BY <1>1, <1>5, VoiceStartedIs, TakeTranscriptIs, OnlySame, CalmReadsIs, CalmIs DEF VoiceStep
    <2>2. QED
      BY <2>1, OtherMoves, SwitchesCalm
  <1>6. CASE EditStep(c)
    <2>1. /\ Only(c) /\ calls[c].api # "apply" /\ Calm
          /\ Goes(calls[c], calls'[c]) \/ \E out : Returned(calls[c], calls'[c], out)
      BY <1>1, <1>6, EditElsewhereIs, EditHereIs, ClearHereIs, CalmReadsIs, CalmIs DEF EditStep, Waits, Edits
    <2>2. QED
      BY <2>1, OnlySame, OtherMoves, SwitchesCalm
  <1>7. CASE Finish(c)
    <2>1. /\ Only(c) /\ calls[c].pc = "ended" /\ Calm /\ \E out : Returned(calls[c], calls'[c], out)
      <3>1. calls[c].pc = "ended"
        BY <1>7 DEF Finish
      <3>2. QED
        BY <1>1, <1>7, <3>1, ApplyReturnsIs, CalmReadsIs, CalmIs
    <2>2. calls[c].api # "apply"
      BY <2>1 DEF SInv, Switches, Applies, Switching, IsApply
    <2>3. QED
      BY <2>1, <2>2, OnlySame, OtherMoves, SwitchesCalm
  <1>8. QED
    BY <1>2, <1>3, <1>4, <1>5, <1>6, <1>7 DEF SendStep

-----------------------------------------------------------------------------
(* A step of one call of apply_configuration.                              *)

\* The call c of apply_configuration goes on or returns, with its revision.
Moves(c) ==
    /\ Only(c) /\ Runs(calls[c]) /\ IsApply(calls'[c])
    /\ calls'[c].n = calls[c].n /\ calls'[c].persona = calls[c].persona
    /\ Lost(calls'[c]) => Lost(calls[c])
    /\ \/ Runs(calls'[c]) /\ calls'[c].doomed = calls[c].doomed
       \/ calls'[c].pc = "done" /\ ~calls'[c].doomed

LEMMA MovesIs ==
    ASSUME SInv, NEW c \in Calls, Moves(c)
    PROVE  /\ \A d \in Calls : IsApply(calls'[d]) <=> IsApply(calls[d])
           /\ \A d \in Calls : calls'[d].n = calls[d].n
           /\ \A d \in Calls : Runs(calls'[d]) => Runs(calls[d]) /\ calls'[d].doomed = calls[d].doomed
           /\ \A d \in Calls : Lost(calls'[d]) => Lost(calls[d])
           /\ \A d \in Calls : Replaced(calls, calls[d]) => Replaced(calls', calls'[d])
           /\ Ordered(calls')
           /\ \A d \in Calls \ {c} : Same(calls[d], calls'[d])
  <1>1. /\ \A d \in Calls \ {c} : calls'[d] = calls[d]
        /\ IsApply(calls[c])
    BY DEF Moves, Only, Runs, IsApply
  <1>2. \A d \in Calls : IsApply(calls'[d]) <=> IsApply(calls[d])
    BY <1>1 DEF Moves
  <1>3. \A d \in Calls : calls'[d].n = calls[d].n
    BY <1>1 DEF Moves
  <1>4. \A d \in Calls : Runs(calls'[d]) => Runs(calls[d]) /\ calls'[d].doomed = calls[d].doomed
    BY <1>1 DEF Moves, Runs
  <1>5. \A d \in Calls : Lost(calls'[d]) => Lost(calls[d])
    BY <1>1 DEF Moves
  <1>6. \A d \in Calls : Replaced(calls, calls[d]) => Replaced(calls', calls'[d])
    BY <1>2, <1>3, <1>5 DEF Replaced
  <1>7. Ordered(calls)
    BY DEF SInv, Switches
  <1>8. Ordered(calls')
    <2>1. \A d \in Calls : calls'[d].doomed => Runs(calls'[d])
      BY <1>1, <1>7 DEF Moves, Ordered
    <2>2. \A d \in Calls : Newest(calls, calls[d].n) => Newest(calls', calls'[d].n)
      BY <1>2, <1>3 DEF Newest
    <2>3. \A d \in Calls : (Runs(calls'[d]) /\ ~calls'[d].doomed) => Newest(calls', calls'[d].n)
      BY <1>4, <1>7, <2>2 DEF Ordered
    <2>4. \A d, e \in Calls : (Runs(calls'[d]) /\ Runs(calls'[e]) /\ calls'[d].n = calls'[e].n) => d = e
      BY <1>3, <1>4, <1>7 DEF Ordered
    <2>5. QED
      BY <2>1, <2>3, <2>4 DEF Ordered
  <1>9. \A d \in Calls \ {c} : Same(calls[d], calls'[d])
    BY <1>1 DEF Same
  <1>10. QED
    BY <1>2, <1>3, <1>4, <1>5, <1>6, <1>8, <1>9

\* What has to be shown of a step of one call.
LEMMA MovesSwitches ==
    ASSUME SInv, IInv', NEW c \in Calls, Moves(c), Later,
           Configured(target', runtime', state', calls'),
           Applies(target', runtime', state', calls', faults', calls'[c]),
           \A d \in Calls \ {c} :
               (/\ IsApply(calls[d]) /\ calls[d].pc \in Switching
                /\ state'.pending_cfg = calls[d].n /\ ~state'.shutting_down)
                    => state'.switching /\ calls[d].n > runtime'.cfg,
           Switcher(state', calls'), Pursued(runtime', state', calls', faults')
    PROVE  Switches(target', runtime', state', calls', faults')
  <1>1. IInv /\ Switches(target, runtime, state, calls, faults)
    BY DEF SInv, RInv
  <1>2. ASSUME NEW d \in Calls, IsApply(calls'[d])
        PROVE  Applies(target', runtime', state', calls', faults', calls'[d])
    <2>1. CASE d = c
      BY <2>1
    <2>2. CASE d # c
      <3>1. /\ Same(calls[d], calls'[d]) /\ IsApply(calls[d])
            /\ Replaced(calls, calls[d]) => Replaced(calls', calls'[d])
        BY <1>2, <2>2, MovesIs
      <3>2. Applies(target, runtime, state, calls, faults, calls[d])
        BY <1>1, <3>1 DEF Switches
      <3>3. (calls[d].pc \in Switching /\ state'.pending_cfg = calls[d].n /\ ~state'.shutting_down)
                => state'.switching /\ calls[d].n > runtime'.cfg
        BY <2>2, <3>1
      <3>4. QED
        BY <1>1, <3>1, <3>2, <3>3, AppliesKept
    <2>3. QED
      BY <2>1, <2>2
  <1>3. Ordered(calls') /\ faults' \in Nat
    BY MovesIs DEF Later
  <1>4. QED
    BY <1>2, <1>3 DEF Switches

\* The revision of a call that no longer pursues it runs, or a newer one does.
LEMMA PursuedKept ==
    ASSUME SInv, IInv', NEW c \in Calls, Moves(c), runtime.cfg <= runtime'.cfg,
           faults' = 0 => faults = 0, state.shutting_down => state'.shutting_down,
           (~calls[c].doomed /\ faults' = 0 /\ ~state'.shutting_down)
               => Runs(calls'[c]) \/ calls[c].n <= runtime'.cfg
    PROVE  Pursued(runtime', state', calls', faults')
  <1>1. /\ IInv /\ Pursued(runtime, state, calls, faults)
        /\ \A d \in Calls : calls[d].n \in Nat
        /\ runtime.cfg \in Nat /\ runtime'.cfg \in Nat
    BY Numbers, NumbersNext DEF SInv, RInv, Switches
  <1> SUFFICES ASSUME faults' = 0, ~state'.shutting_down, NEW x \in Calls, IsApply(calls'[x])
               PROVE  \/ calls'[x].n <= runtime'.cfg
                      \/ \E d \in Calls : Runs(calls'[d]) /\ ~calls'[d].doomed /\ calls'[d].n >= calls'[x].n
    BY DEF Pursued
  <1> DEFINE n == calls[x].n
             cfg == runtime.cfg
             new == runtime'.cfg
  <1>2. calls'[x].n = n /\ IsApply(calls[x]) /\ n \in Nat /\ cfg \in Nat /\ new \in Nat /\ cfg <= new
    BY <1>1, MovesIs
  <1>3. \/ n <= cfg
        \/ \E d \in Calls : Runs(calls[d]) /\ ~calls[d].doomed /\ calls[d].n >= n
    BY <1>1, <1>2 DEF Pursued
  <1> HIDE DEF n, cfg, new
  <1>4. CASE n <= cfg
    BY <1>2, <1>4 DEF new
  <1>5. ASSUME NEW d \in Calls, Runs(calls[d]), ~calls[d].doomed, calls[d].n >= n
        PROVE  n <= new \/ (Runs(calls'[d]) /\ ~calls'[d].doomed /\ calls'[d].n >= n)
    <2> DEFINE m == calls[d].n
    <2>1. CASE Runs(calls'[d])
      BY <1>5, <2>1, MovesIs
    <2>2. CASE ~Runs(calls'[d])
      <3>1. d = c
        BY <1>5, <2>2 DEF Moves, Only
      <3>2. m <= new /\ m \in Nat /\ m >= n
        BY <1>1, <1>5, <2>2, <3>1 DEF new
      <3> HIDE DEF m
      <3>3. QED
        BY <1>2, <3>2
    <2>3. QED
      BY <2>1, <2>2
  <1>6. QED
    BY <1>2, <1>3, <1>4, <1>5 DEF new

\* Steps that change neither the revision that runs nor the pending one.
LEMMA SteadySwitches ==
    ASSUME SInv, IInv', NEW c \in Calls, Moves(c), target' = target, runtime' = runtime,
           state'.pending_cfg = state.pending_cfg, state'.shutting_down = state.shutting_down,
           faults' = faults \/ faults' = faults + 1,
           state'.switching = state.switching
               \/ (~state'.switching /\ (state.pending_cfg = calls[c].n \/ state.shutting_down)),
           Applies(target', runtime', state', calls', faults', calls'[c]),
           (/\ calls[c].n = state.pending_cfg /\ state'.switching /\ ~state.shutting_down
            /\ calls[c].pc \in Switching)
               => calls'[c].pc \in Switching \/ (calls'[c].pc = "done" /\ calls'[c].out = "dropped"),
           (~calls[c].doomed /\ faults' = 0 /\ ~state.shutting_down)
               => Runs(calls'[c]) \/ calls[c].n <= runtime.cfg
    PROVE  Switches(target', runtime', state', calls', faults')
  <1>1. /\ IInv /\ Switches(target, runtime, state, calls, faults) /\ Switcher(state, calls)
        /\ Configured(target, runtime, state, calls) /\ faults \in Nat /\ Ordered(calls)
    BY DEF SInv, RInv, Switches
  <1>2. /\ faults' \in Nat
        /\ faults' = 0 => faults = 0
        /\ faults # 0 => faults' # 0
    BY <1>1
  <1>3. runtime.cfg \in Nat /\ state.pending_cfg \in Nat
    BY <1>1, Numbers
  <1>4. Later
    <2>1. \A n \in Nat : n <= n
      OBVIOUS
    <2>2. runtime.cfg <= runtime'.cfg
      BY <1>3, <2>1
    <2>3. state.pending_cfg <= state'.pending_cfg
      BY <1>3, <2>1
    <2>4. QED
      BY <1>2, <2>2, <2>3 DEF Later
  <1>5. Configured(target', runtime', state', calls')
    BY <1>1, MovesIs DEF Configured
  <1>6. ASSUME NEW d \in Calls \ {c}, IsApply(calls[d]), calls[d].pc \in Switching,
               state'.pending_cfg = calls[d].n, ~state'.shutting_down
        PROVE  state'.switching /\ calls[d].n > runtime'.cfg
    <2>1. state.switching /\ calls[d].n > runtime.cfg
      BY <1>1, <1>6 DEF Switches, Applies
    <2>2. CASE state'.switching = state.switching
      BY <2>1, <2>2
    <2>3. CASE state.pending_cfg = calls[c].n
      <3>1. Runs(calls[c]) /\ Runs(calls[d]) /\ calls[c].n = calls[d].n
        BY <1>6, <2>3 DEF Moves, Runs, IsApply, Switching
      <3>2. QED
        BY <1>1, <1>6, <3>1 DEF Ordered
    <2>4. QED
      BY <1>6, <2>2, <2>3
  <1>7. Switcher(state', calls')
    <2> SUFFICES ASSUME state'.switching, ~state'.shutting_down
                 PROVE  \E e \in Calls :
                            /\ IsApply(calls'[e]) /\ calls'[e].n = state'.pending_cfg
                            /\ calls'[e].pc \in Switching \/ (calls'[e].pc = "done" /\ calls'[e].out = "dropped")
      BY DEF Switcher
    <2>1. PICK e \in Calls : /\ IsApply(calls[e]) /\ calls[e].n = state.pending_cfg
                             /\ calls[e].pc \in Switching \/ (calls[e].pc = "done" /\ calls[e].out = "dropped")
      BY <1>1 DEF Switcher
    <2>2. IsApply(calls'[e]) /\ calls'[e].n = state'.pending_cfg
      BY <2>1, MovesIs
    <2>3. CASE e = c
      <3>1. calls[c].pc \in Switching
        BY <2>1, <2>3 DEF Moves, Runs
      <3>2. QED
        BY <2>1, <2>2, <2>3, <3>1
    <2>4. CASE e # c
      BY <2>1, <2>2, <2>4 DEF Moves, Only
    <2>5. QED
      BY <2>3, <2>4
  <1>8. Pursued(runtime', state', calls', faults')
    <2>1. runtime.cfg <= runtime'.cfg
      BY <1>3
    <2>2. QED
      BY <1>2, <2>1, PursuedKept
  <1>9. QED
    BY <1>4, <1>5, <1>6, <1>7, <1>8, MovesSwitches

LEMMA GoesMoves ==
    ASSUME SInv, NEW c \in Calls, Only(c), Goes(calls[c], calls'[c]), calls[c].api = "apply",
           calls[c].pc \notin {"idle", "done"}, calls'[c].pc \notin {"idle", "done"}
    PROVE  Moves(c) /\ Runs(calls'[c]) /\ calls[c].n \in Nat /\ IsApply(calls[c])
           /\ Applies(target, runtime, state, calls, faults, calls[c])
           /\ (Lost(calls'[c]) => Replaced(calls', calls'[c]))
  <1>1. Moves(c) /\ Runs(calls'[c]) /\ IsApply(calls[c])
    BY DEF Moves, Goes, Runs, IsApply, Lost
  <1>2. Applies(target, runtime, state, calls, faults, calls[c]) /\ calls[c].n \in Nat
    BY <1>1, Numbers DEF SInv, RInv, Switches
  <1>3. Lost(calls'[c]) => Replaced(calls', calls'[c])
    BY <1>1, <1>2, MovesIs DEF Applies
  <1>4. QED
    BY <1>1, <1>2, <1>3

LEMMA ReturnMoves ==
    ASSUME SInv, NEW c \in Calls, NEW out, Only(c), Returned(calls[c], calls'[c], out), calls[c].api = "apply",
           calls[c].pc \notin {"idle", "done"}, out = "dropped" => calls[c].doomed
    PROVE  Moves(c) /\ ~Runs(calls'[c]) /\ calls[c].n \in Nat /\ IsApply(calls[c])
           /\ Applies(target, runtime, state, calls, faults, calls[c])
           /\ (Lost(calls'[c]) => Replaced(calls', calls'[c]))
  <1>1. Moves(c) /\ ~Runs(calls'[c]) /\ IsApply(calls[c])
    BY DEF Moves, Returned, Runs, IsApply, Lost
  <1>2. Applies(target, runtime, state, calls, faults, calls[c]) /\ calls[c].n \in Nat
    BY <1>1, Numbers DEF SInv, RInv, Switches
  <1>3. Lost(calls'[c]) => Replaced(calls', calls'[c])
    BY <1>1, <1>2, MovesIs DEF Applies
  <1>4. QED
    BY <1>1, <1>2, <1>3

\* What is said of a call that has returned.
LEMMA AppliesDone ==
    ASSUME NEW tgt, NEW rt, NEW s, NEW cs, NEW f, NEW r, NEW q, NEW out \in {"applied", "rejected", "error", "dropped"},
           Returned(r, q, out), q.persona = tgt[q.n],
           Lost(q) => Replaced(cs, q),
           out = "applied" => q.n <= rt.cfg,
           out = "rejected" => q.n <= s.pending_cfg,
           out = "error" => s.shutting_down \/ (f # 0 /\ q.n <= s.pending_cfg)
    PROVE  Applies(tgt, rt, s, cs, f, q)
  BY DEF Returned, Applies, Switching

\* The newest call that is still wanted is not behind the pending revision.
LEMMA WantedIsNewest ==
    ASSUME SInv, NEW c \in Calls, Runs(calls[c]), ~calls[c].doomed
    PROVE  /\ state.pending_cfg <= calls[c].n
           /\ \A d \in Calls : IsApply(calls[d]) => calls[d].n <= calls[c].n
  <1>1. /\ IInv /\ Ordered(calls) /\ Configured(target, runtime, state, calls)
        /\ calls[c].n \in Nat /\ state.pending_cfg \in Nat
    BY Numbers DEF SInv, RInv, Switches
  <1>2. \A d \in Calls : IsApply(calls[d]) => calls[d].n <= calls[c].n
    BY <1>1 DEF Ordered, Newest
  <1>3. state.pending_cfg <= calls[c].n
    <2>1. CASE state.pending_cfg = 0
      BY <1>1, <2>1
    <2>2. CASE state.pending_cfg # 0
      BY <1>1, <1>2, <2>2 DEF Configured
    <2>3. QED
      BY <2>1, <2>2
  <1>4. QED
    BY <1>2, <1>3

LEMMA ReplacedIsOlder ==
    ASSUME SInv, NEW c \in Calls, Replaced(calls, calls[c])
    PROVE  \E d \in Calls : IsApply(calls[d]) /\ calls[d].n > calls[c].n
  BY DEF Replaced

\* A rejected call is not the one that pursues its revision.
LEMMA RejectSwitches ==
    ASSUME SInv, IInv', NEW c \in Calls, ApplyReject(c)
    PROVE  Switches(target', runtime', state', calls', faults')
  <1> DEFINE n == calls[c].n
             cfg == runtime.cfg
             pending == state.pending_cfg
  <1>1. IInv /\ Switches(target, runtime, state, calls, faults)
    BY DEF SInv, RInv
  <1>2. calls[c].api = "apply" /\ calls[c].pc = "spawned" /\ Runs(calls[c])
    BY DEF ApplyReject, At, Runs
  <1>3. PICK out \in {"rejected", "error"} :
           /\ Only(c) /\ Returned(calls[c], calls'[c], out)
           /\ out = "rejected" => Outdated(n)
           /\ out = "error" => state.shutting_down
    BY <1>1, <1>2, ApplyReturnsIs
  <1>4. UNCHANGED <<target, runtime, state, faults>>
    BY DEF ApplyReject
  <1>5. /\ Moves(c) /\ ~Runs(calls'[c]) /\ IsApply(calls[c])
        /\ Applies(target, runtime, state, calls, faults, calls[c])
        /\ (Lost(calls'[c]) => Replaced(calls', calls'[c]))
    BY <1>2, <1>3, ReturnMoves
  <1>6. n \in Nat /\ cfg \in Nat /\ pending \in Nat /\ cfg <= pending
    BY <1>1, Numbers DEF Switches, Configured
  <1>7. Outdated(n) => n <= pending
    <2>1. Outdated(n) => n <= cfg \/ n < pending \/ n = pending
      BY DEF Outdated
    <2> HIDE DEF n, cfg, pending
    <2>2. QED
      BY <1>6, <2>1
  <1>8. Applies(target', runtime', state', calls', faults', calls'[c])
    <2>1. calls'[c].n = n /\ calls'[c].persona = target'[calls'[c].n]
      BY <1>3, <1>4, <1>5 DEF Returned, Applies
    <2>2. QED
      BY <1>3, <1>4, <1>5, <1>7, <2>1, AppliesDone
  <1>9. ASSUME ~calls[c].doomed, ~state.shutting_down
        PROVE  n <= cfg
    <2>1. Outdated(n)
      BY <1>3, <1>9
    <2>2. CASE n <= cfg
      BY <2>2
    <2>3. CASE n < pending
      <3>1. pending <= n
        BY <1>2, <1>9, WantedIsNewest
      <3> HIDE DEF n, pending, cfg
      <3>2. QED
        BY <1>6, <2>3, <3>1
    <2>4. CASE n = pending /\ state.switching
      <3>1. PICK e \in Calls : /\ IsApply(calls[e]) /\ calls[e].n = n
                               /\ calls[e].pc \in Switching \/ (calls[e].pc = "done" /\ calls[e].out = "dropped")
        BY <1>1, <1>9, <2>4 DEF Switches, Switcher
      <3>2. CASE calls[e].pc \in Switching
        <4>1. Runs(calls[e])
          BY <3>1, <3>2 DEF Runs, IsApply, Switching
        <4>2. e = c
          BY <1>1, <1>2, <3>1, <4>1 DEF Switches, Ordered
        <4>3. QED
          BY <1>2, <3>2, <4>2 DEF Switching
      <3>3. CASE calls[e].pc = "done" /\ calls[e].out = "dropped"
        <4>1. Replaced(calls, calls[e])
          BY <1>1, <3>1, <3>3 DEF Switches, Applies, Lost
        <4>2. PICK d \in Calls : IsApply(calls[d]) /\ calls[d].n > n
          BY <3>1, <4>1, ReplacedIsOlder
        <4>3. calls[d].n <= n /\ calls[d].n \in Nat
          BY <1>1, <1>2, <1>9, <4>2, WantedIsNewest, Numbers
        <4> HIDE DEF n
        <4>4. QED
          BY <1>6, <4>2, <4>3
      <3>4. QED
        BY <3>1, <3>2, <3>3
    <2>5. QED
      BY <2>1, <2>2, <2>3, <2>4 DEF Outdated
  <1>10. calls[c].pc \notin Switching
    BY <1>2 DEF Switching
  <1>11. QED
    BY <1>4, <1>5, <1>8, <1>9, <1>10, SteadySwitches

LEMMA DoneSwitches ==
    ASSUME SInv, IInv', NEW c \in Calls, ApplyDone(c)
    PROVE  Switches(target', runtime', state', calls', faults')
  <1>1. IInv
    BY DEF SInv, RInv
  <1>2. /\ calls[c].api = "apply" /\ calls[c].pc = "applied" /\ UNCHANGED <<target, runtime, state, faults>>
    BY DEF ApplyDone, At
  <1>3. Only(c) /\ Returned(calls[c], calls'[c], "applied")
    BY <1>1, <1>2, ApplyReturnsIs
  <1>4. /\ Moves(c) /\ ~Runs(calls'[c]) /\ Applies(target, runtime, state, calls, faults, calls[c])
        /\ (Lost(calls'[c]) => Replaced(calls', calls'[c]))
    BY <1>2, <1>3, ReturnMoves
  <1>5. calls[c].n <= runtime.cfg
    BY <1>2, <1>4 DEF Applies
  <1>6. Applies(target', runtime', state', calls', faults', calls'[c])
    <2>1. calls'[c].n = calls[c].n /\ calls'[c].persona = target'[calls'[c].n]
      BY <1>2, <1>3, <1>4 DEF Returned, Applies
    <2>2. QED
      BY <1>2, <1>3, <1>4, <1>5, <2>1, AppliesDone
  <1>7. calls[c].pc \notin Switching
    BY <1>2 DEF Switching
  <1>8. QED
    BY <1>2, <1>4, <1>5, <1>6, <1>7, SteadySwitches

\* persist() of a replaced configuration, and the load of the new session.
LEMMA PersistSwitches ==
    ASSUME SInv, IInv', NEW c \in Calls, Persist(c)
    PROVE  Switches(target', runtime', state', calls', faults')
  <1>1. IInv
    BY DEF SInv, RInv
  <1>2. /\ Only(c) /\ Goes(calls[c], calls'[c]) /\ calls[c].pc \in {"persist", "persist_weak"}
        /\ calls'[c].pc = calls[c].then /\ calls'[c].out = calls[c].out
        /\ CalmReads /\ UNCHANGED <<target, runtime, faults>>
    BY <1>1, PersistIs, CalmReadsIs
  <1>3. CASE calls[c].api # "apply"
    BY <1>2, <1>3, OnlySame, OtherMoves, CalmIs, SwitchesCalm
  <1>4. CASE calls[c].api = "apply"
    <2>1. Applies(target, runtime, state, calls, faults, calls[c])
      BY <1>4 DEF SInv, Switches, IsApply
    <2>2. calls[c].pc = "persist_weak" /\ calls'[c].pc = "applied" /\ calls[c].n <= runtime.cfg
      BY <1>2, <2>1 DEF Applies, Switching
    <2>3. Moves(c) /\ Runs(calls'[c]) /\ (Lost(calls'[c]) => Replaced(calls', calls'[c]))
      BY <1>2, <1>4, <2>2, GoesMoves
    <2>4. Applies(target', runtime', state', calls', faults', calls'[c])
      BY <1>2, <2>1, <2>2, <2>3 DEF Applies, Goes, Switching
    <2>5. calls[c].pc \notin Switching
      BY <2>2 DEF Switching
    <2>6. QED
      BY <1>2, <2>3, <2>4, <2>5, SteadySwitches DEF CalmReads
  <1>5. QED
    BY <1>3, <1>4

LEMMA LoadSwitches ==
    ASSUME SInv, IInv', NEW c \in Calls, ApplyLoad(c)
    PROVE  Switches(target', runtime', state', calls', faults')
  <1>1. IInv
    BY DEF SInv, RInv
  <1>2. /\ Only(c) /\ Goes(calls[c], calls'[c]) /\ calls'[c].out = calls[c].out
        /\ calls[c].api = "apply" /\ calls[c].pc = "saved" /\ calls'[c].pc = "loading"
        /\ UNCHANGED <<target, runtime, state, faults>>
    BY <1>1, ApplyLoadIs
  <1>3. /\ Moves(c) /\ Runs(calls'[c]) /\ Applies(target, runtime, state, calls, faults, calls[c])
        /\ (Lost(calls'[c]) => Replaced(calls', calls'[c]))
    BY <1>2, GoesMoves
  <1>4. Applies(target', runtime', state', calls', faults', calls'[c])
    BY <1>2, <1>3 DEF Applies, Goes, Switching
  <1>5. QED
    BY <1>2, <1>3, <1>4, SteadySwitches DEF Switching

\* A switch that comes to nothing gives the switching state up only if its
\* revision is the pending one.
LEMMA FailsSwitches ==
    ASSUME SInv, IInv', NEW c \in Calls, ApplySaveFailed(c) \/ ApplyDiscard(c)
    PROVE  Switches(target', runtime', state', calls', faults')
  <1> DEFINE n == calls[c].n
  <1>1. IInv /\ faults \in Nat
    BY DEF SInv, RInv, Switches
  <1>2. /\ Only(c) /\ calls[c].api = "apply" /\ calls[c].pc \in {"saved", "loaded"}
        /\ UNCHANGED <<target, runtime, faults>>
        /\ state'.pending_cfg = state.pending_cfg /\ state'.shutting_down = state.shutting_down
        /\ state'.switching \in {state.switching, FALSE}
    BY <1>1, ApplyFailsIs DEF StateReads, Reads
  <1>3. PICK out \in {"rejected", "error"} : Returned(calls[c], calls'[c], out)
    BY <1>1, ApplyFailsIs
  <1>4. /\ Moves(c) /\ ~Runs(calls'[c]) /\ Applies(target, runtime, state, calls, faults, calls[c])
        /\ (Lost(calls'[c]) => Replaced(calls', calls'[c])) /\ Runs(calls[c])
    BY <1>2, <1>3, ReturnMoves DEF Runs
  <1>5. calls[c].pc \in Switching /\ n <= state.pending_cfg
    BY <1>2, <1>4 DEF Applies, Switching
  <1>6. (n = state.pending_cfg /\ ~state.shutting_down) => state.switching /\ n > runtime.cfg
    BY <1>4, <1>5 DEF Applies
  <1>7. /\ out = "error" => state.shutting_down \/ faults # 0
        /\ (n = state.pending_cfg /\ ~state.shutting_down) => ~state'.switching
        /\ state'.switching = state.switching
               \/ (~state'.switching /\ (state.pending_cfg = n \/ state.shutting_down))
        /\ faults = 0 /\ ~state.shutting_down => n # state.pending_cfg
    <2>1. CASE ApplySaveFailed(c)
      <3>1. calls[c].pc = "saved" /\ calls[c].out = "error" /\ faults # 0
        BY <1>4, <2>1 DEF ApplySaveFailed, At, Applies
      <3>2. IF state.pending_cfg = n /\ runtime.cfg < n THEN ~state'.switching ELSE state' = state
        BY <1>1, <2>1, <3>1, ApplyFailsIs
      <3>3. n \in Nat /\ runtime.cfg \in Nat
        BY <1>1, Numbers
      <3>4. n > runtime.cfg <=> runtime.cfg < n
        BY <3>3
      <3> HIDE DEF n
      <3>5. state'.switching = state.switching \/ (~state'.switching /\ state.pending_cfg = n)
        BY <1>2, <3>2
      <3>6. (n = state.pending_cfg /\ ~state.shutting_down) => ~state'.switching
        BY <1>6, <3>2, <3>4
      <3>7. QED
        BY <3>1, <3>5, <3>6
    <2>2. CASE ApplyDiscard(c)
      <3>1. calls[c].pc = "loaded"
        BY <2>2 DEF ApplyDiscard, At
      <3>2. \/ ~StillPending(n) /\ state' = state /\ Returned(calls[c], calls'[c], "rejected")
            \/ state.shutting_down /\ Returned(calls[c], calls'[c], "error")
        BY <1>1, <2>2, <3>1, ApplyFailsIs
      <3>3. (n = state.pending_cfg /\ ~state.shutting_down) => StillPending(n)
        BY <1>6 DEF StillPending
      <3>4. out = "error" => state.shutting_down
        BY <1>3, <3>2 DEF Returned
      <3>5. state'.switching = state.switching \/ (~state'.switching /\ state.shutting_down)
        BY <1>2, <3>2
      <3> HIDE DEF n
      <3>6. QED
        BY <3>2, <3>3, <3>4, <3>5
    <2>3. QED
      BY <2>1, <2>2
  <1>8. Applies(target', runtime', state', calls', faults', calls'[c])
    <2>1. calls'[c].n = n /\ calls'[c].persona = target'[calls'[c].n]
      BY <1>2, <1>3, <1>4 DEF Returned, Applies
    <2>2. QED
      BY <1>2, <1>3, <1>4, <1>5, <1>7, <2>1, AppliesDone
  <1>9. ASSUME ~calls[c].doomed, faults' = 0, ~state.shutting_down PROVE FALSE
    <2>1. state.pending_cfg <= n /\ n # state.pending_cfg
      BY <1>2, <1>4, <1>7, <1>9, WantedIsNewest
    <2>2. n \in Nat /\ state.pending_cfg \in Nat
      BY <1>1, Numbers
    <2> HIDE DEF n
    <2>3. QED
      BY <1>5, <2>1, <2>2
  <1>10. QED
    BY <1>1, <1>2, <1>4, <1>7, <1>8, <1>9, SteadySwitches

\* A task that is dropped had been replaced.
LEMMA DropSwitches ==
    ASSUME SInv, IInv', NEW c \in Calls, DropApply(c)
    PROVE  Switches(target', runtime', state', calls', faults')
  <1>1. IInv
    BY DEF SInv, RInv
  <1>2. /\ Only(c) /\ Returned(calls[c], calls'[c], "dropped") /\ calls[c].doomed
        /\ UNCHANGED <<target, runtime, state, faults>>
    BY <1>1, DropApplyIs
  <1>3. Runs(calls[c])
    BY <1>2 DEF SInv, Switches, Ordered
  <1>4. /\ Moves(c) /\ Applies(target, runtime, state, calls, faults, calls[c])
        /\ (Lost(calls'[c]) => Replaced(calls', calls'[c]))
    BY <1>2, <1>3, ReturnMoves DEF Runs
  <1>5. Applies(target', runtime', state', calls', faults', calls'[c])
    <2>1. calls'[c].n = calls[c].n /\ calls'[c].persona = target'[calls'[c].n]
      BY <1>2, <1>4 DEF Returned, Applies
    <2>2. QED
      BY <1>2, <1>4, <2>1, AppliesDone
  <1>6. QED
    BY <1>2, <1>4, <1>5, SteadySwitches DEF Returned

\* The save of the old session, or the load of the new one, has been served.
LEMMA ServeSwitches ==
    ASSUME SInv, IInv', Serve
    PROVE  Switches(target', runtime', state', calls', faults')
  <1> DEFINE c == Op.call
  <1>1. /\ IInv /\ UNCHANGED <<target, runtime, state>> /\ faults \in Nat
        /\ faults' = faults \/ faults' = faults + 1
        /\ (c \in Calls => Served(c))
    BY ServeIs DEF SInv, RInv, Switches
  <1>2. CASE c \in Calls /\ IsApply(calls[c])
    <2> HIDE DEF c
    <2>1. /\ Only(c) /\ Goes(calls[c], calls'[c]) /\ calls[c].api = "apply"
          /\ calls[c].pc \in {"saving", "loading"} /\ calls'[c].pc \in {"saved", "loaded"}
          /\ (calls'[c].pc = "saved" /\ calls'[c].out = "error") => faults' = faults + 1
      BY <1>1, <1>2 DEF Served, IsApply
    <2>2. /\ Moves(c) /\ Runs(calls'[c]) /\ Applies(target, runtime, state, calls, faults, calls[c])
          /\ (Lost(calls'[c]) => Replaced(calls', calls'[c]))
      BY <1>2, <2>1, GoesMoves
    <2>3. (calls'[c].pc = "saved" /\ calls'[c].out = "error") => faults' # 0
      BY <1>1, <2>1
    <2>4. Applies(target', runtime', state', calls', faults', calls'[c])
      BY <1>1, <2>1, <2>2, <2>3 DEF Applies, Goes, Switching
    <2>5. QED
      BY <1>1, <1>2, <2>1, <2>2, <2>4, SteadySwitches DEF Switching
  <1>3. CASE ~(c \in Calls /\ IsApply(calls[c]))
    <2>1. \A d \in Calls : Alike(calls[d], calls'[d])
      BY <1>3, ServeSwitchesOther
    <2>2. Calm
      BY <1>1 DEF Calm
    <2>3. QED
      BY <2>1, <2>2, SwitchesCalm
  <1>4. QED
    BY <1>2, <1>3

\* The configuration that was accepted becomes the one that runs or the one
\* that is pending: nothing is newer, and no other call has its revision.
LEMMA TakeOver ==
    ASSUME SInv, NEW c \in Calls, Accepted(c)
    PROVE  /\ Runs(calls[c]) /\ calls[c].pc = "spawned" /\ calls[c].api = "apply" /\ calls[c].out = "none"
           /\ runtime.cfg <= calls[c].n /\ state.pending_cfg <= calls[c].n
           /\ calls[c].n > runtime.cfg /\ calls[c].n # 0
           /\ \A d \in Calls \ {c} : (IsApply(calls[d]) /\ calls[d].pc \in Switching) => calls[d].n # calls[c].n
           /\ Applies(target, runtime, state, calls, faults, calls[c])
  <1> DEFINE n == calls[c].n
             cfg == runtime.cfg
             pending == state.pending_cfg
  <1>1. /\ IInv /\ Switches(target, runtime, state, calls, faults)
        /\ calls[c].api = "apply" /\ calls[c].pc = "spawned" /\ Runs(calls[c]) /\ IsApply(calls[c])
    BY DEF SInv, RInv, Accepted, At, Runs, IsApply
  <1>2. Applies(target, runtime, state, calls, faults, calls[c]) /\ calls[c].out = "none"
    BY <1>1 DEF Switches, Applies
  <1>3. n \in Nat /\ cfg \in Nat /\ pending \in Nat /\ n # 0
    BY <1>1, Numbers
  <1>4. ~(n <= cfg) /\ ~(n < pending)
    BY DEF Accepted, Outdated
  <1>5. ASSUME NEW d \in Calls \ {c}, IsApply(calls[d]), calls[d].pc \in Switching, calls[d].n = n
        PROVE  FALSE
    <2>1. Runs(calls[d])
      BY <1>5 DEF Runs, IsApply, Switching
    <2>2. QED
      BY <1>1, <1>5, <2>1 DEF Switches, Ordered
  <1>6. cfg <= n /\ pending <= n /\ n > cfg
    <2> HIDE DEF n, cfg, pending
    <2>1. QED
      BY <1>3, <1>4
  <1>7. QED
    BY <1>1, <1>2, <1>3, <1>5, <1>6

LEMMA SamePersonaSwitches ==
    ASSUME SInv, IInv', NEW c \in Calls, ApplySamePersona(c)
    PROVE  Switches(target', runtime', state', calls', faults')
  <1> DEFINE n == calls[c].n
  <1>1. /\ IInv /\ faults \in Nat
    BY DEF SInv, RInv, Switches
  <1>2. /\ Only(c) /\ Goes(calls[c], calls'[c]) /\ calls'[c].out = calls[c].out /\ Accepted(c)
        /\ calls[c].persona = runtime.persona /\ calls'[c].pc = "persist_weak" /\ calls'[c].then = "applied"
        /\ state'.pending_cfg = n /\ ~state'.switching /\ state'.shutting_down = state.shutting_down
        /\ runtime'.cfg = n /\ runtime'.persona = runtime.persona
        /\ UNCHANGED <<target, faults>>
    BY <1>1, ApplySamePersonaIs DEF StateReads, Reads
  <1>3. /\ Runs(calls[c]) /\ calls[c].pc = "spawned" /\ calls[c].api = "apply" /\ n # 0
        /\ runtime.cfg <= n /\ state.pending_cfg <= n /\ n > runtime.cfg
        /\ \A d \in Calls \ {c} : (IsApply(calls[d]) /\ calls[d].pc \in Switching) => calls[d].n # n
        /\ Applies(target, runtime, state, calls, faults, calls[c])
    BY <1>2, TakeOver
  <1>4. Moves(c) /\ Runs(calls'[c]) /\ n \in Nat /\ (Lost(calls'[c]) => Replaced(calls', calls'[c]))
    BY <1>2, <1>3, GoesMoves
  <1>5. calls'[c].n = n /\ IsApply(calls'[c]) /\ calls'[c].persona = target[n] /\ n <= n
    BY <1>2, <1>3, <1>4 DEF Goes, Applies, IsApply
  <1> HIDE DEF n
  <1>6. Later
    BY <1>1, <1>2, <1>3 DEF Later
  <1>7. Configured(target', runtime', state', calls')
    <2>1. runtime'.persona = target'[runtime'.cfg]
      BY <1>2, <1>3 DEF Applies, n
    <2>2. QED
      BY <1>2, <1>5, <2>1 DEF Configured
  <1>8. Applies(target', runtime', state', calls', faults', calls'[c])
    BY <1>2, <1>4, <1>5 DEF Applies, Switching
  <1>9. Switcher(state', calls')
    BY <1>2 DEF Switcher
  <1>10. Pursued(runtime', state', calls', faults')
    BY <1>2, <1>3, <1>4, PursuedKept
  <1>11. QED
    BY <1>2, <1>3, <1>4, <1>6, <1>7, <1>8, <1>9, <1>10, MovesSwitches

LEMMA SwitchSwitches ==
    ASSUME SInv, IInv', NEW c \in Calls, ApplySwitch(c)
    PROVE  Switches(target', runtime', state', calls', faults')
  <1> DEFINE n == calls[c].n
  <1>1. /\ IInv /\ faults \in Nat /\ Configured(target, runtime, state, calls) /\ runtime.cfg \in Nat
    BY Numbers DEF SInv, RInv, Switches
  <1>2. /\ Only(c) /\ Goes(calls[c], calls'[c]) /\ calls'[c].out = calls[c].out /\ Accepted(c)
        /\ calls'[c].pc \in {"saving", "saved"}
        /\ state'.pending_cfg = n /\ state'.switching /\ state'.shutting_down = state.shutting_down
        /\ UNCHANGED <<target, runtime, faults>>
    BY <1>1, ApplySwitchIs DEF StateReads, Reads
  <1>3. /\ Runs(calls[c]) /\ calls[c].pc = "spawned" /\ calls[c].api = "apply" /\ n # 0 /\ calls[c].out = "none"
        /\ runtime.cfg <= n /\ state.pending_cfg <= n /\ n > runtime.cfg
        /\ \A d \in Calls \ {c} : (IsApply(calls[d]) /\ calls[d].pc \in Switching) => calls[d].n # n
        /\ Applies(target, runtime, state, calls, faults, calls[c])
    BY <1>2, TakeOver
  <1>4. Moves(c) /\ Runs(calls'[c]) /\ n \in Nat /\ (Lost(calls'[c]) => Replaced(calls', calls'[c]))
    BY <1>2, <1>3, GoesMoves
  <1>5. calls'[c].n = n /\ IsApply(calls'[c]) /\ calls'[c].persona = target[n] /\ n <= n
        /\ calls'[c].pc \in Switching
    BY <1>2, <1>3, <1>4 DEF Goes, Applies, IsApply, Switching
  <1> HIDE DEF n
  <1>6. runtime.cfg <= runtime'.cfg
    <2>1. \A m \in Nat : m <= m
      OBVIOUS
    <2>2. QED
      BY <1>1, <1>2, <2>1
  <1>7. Later
    BY <1>1, <1>2, <1>3, <1>6 DEF Later
  <1>8. Configured(target', runtime', state', calls')
    BY <1>1, <1>2, <1>3, <1>5 DEF Configured
  <1>9. Applies(target', runtime', state', calls', faults', calls'[c])
    BY <1>2, <1>3, <1>4, <1>5 DEF Applies, Switching
  <1>10. Switcher(state', calls')
    BY <1>2, <1>5 DEF Switcher
  <1>11. Pursued(runtime', state', calls', faults')
    BY <1>2, <1>4, <1>6, PursuedKept
  <1>12. QED
    BY <1>2, <1>3, <1>4, <1>7, <1>8, <1>9, <1>10, <1>11, MovesSwitches

LEMMA InstallSwitches ==
    ASSUME SInv, IInv', NEW c \in Calls, ApplyInstall(c)
    PROVE  Switches(target', runtime', state', calls', faults')
  <1> DEFINE n == calls[c].n
  <1>1. IInv /\ faults \in Nat /\ Configured(target, runtime, state, calls) /\ Ordered(calls)
    BY DEF SInv, RInv, Switches
  <1>2. /\ Only(c) /\ Returned(calls[c], calls'[c], "applied") /\ calls[c].api = "apply" /\ calls[c].pc = "loaded"
        /\ StillPending(n) /\ ~state.shutting_down
        /\ state'.pending_cfg = state.pending_cfg /\ ~state'.switching
        /\ state'.shutting_down = state.shutting_down
        /\ runtime'.cfg = n /\ runtime'.persona = calls[c].persona /\ UNCHANGED <<target, faults>>
    BY <1>1, ApplyInstallIs DEF StateReads, Reads
  <1>3. /\ Moves(c) /\ n \in Nat /\ IsApply(calls[c]) /\ (Lost(calls'[c]) => Replaced(calls', calls'[c]))
        /\ Applies(target, runtime, state, calls, faults, calls[c]) /\ Runs(calls[c])
    BY <1>2, ReturnMoves DEF Runs
  <1>4. state.pending_cfg = n /\ n > runtime.cfg /\ calls'[c].n = n /\ calls'[c].persona = target[n]
        /\ IsApply(calls'[c])
    BY <1>2, <1>3 DEF StillPending, Returned, Applies, IsApply
  <1>5. runtime.cfg \in Nat
    BY <1>1, Numbers
  <1>6. \A d \in Calls \ {c} : (IsApply(calls[d]) /\ calls[d].pc \in Switching) => calls[d].n # n
    <2>1. \A d \in Calls : (IsApply(calls[d]) /\ calls[d].pc \in Switching) => Runs(calls[d])
      BY DEF Runs, IsApply, Switching
    <2>2. QED
      BY <1>1, <1>3, <2>1 DEF Ordered
  <1>7. calls[c].persona = target[n]
    BY <1>3 DEF Applies
  <1> HIDE DEF n
  <1>8. n <= n /\ runtime.cfg <= n
    BY <1>3, <1>4, <1>5
  <1>9. Later
    BY <1>1, <1>2, <1>3, <1>4, <1>8 DEF Later
  <1>10. Configured(target', runtime', state', calls')
    BY <1>2, <1>4, <1>7, <1>8 DEF Configured
  <1>11. Applies(target', runtime', state', calls', faults', calls'[c])
    BY <1>2, <1>3, <1>4, <1>8, AppliesDone
  <1>12. Switcher(state', calls')
    BY <1>2 DEF Switcher
  <1>13. Pursued(runtime', state', calls', faults')
    BY <1>2, <1>3, <1>8, PursuedKept DEF n
  <1>14. QED
    BY <1>2, <1>3, <1>4, <1>6, <1>9, <1>10, <1>11, <1>12, <1>13, MovesSwitches

-----------------------------------------------------------------------------
(* A refresh begins a call with a newer revision and replaces the others.  *)
LEMMA RefreshSwitches ==
    ASSUME SInv, IInv', NEW c \in Calls, NEW rev \in 1 .. MaxConfig, Refresh(c, rev)
    PROVE  Switches(target', runtime', state', calls', faults')
  <1>1. /\ IInv /\ Switches(target, runtime, state, calls, faults)
        /\ Configured(target, runtime, state, calls) /\ Ordered(calls) /\ Switcher(state, calls)
        /\ Pursued(runtime, state, calls, faults) /\ faults \in Nat
        /\ calls[c] = IdleCall /\ ~IsApply(calls[c]) /\ rev \in Nat
    <2>1. Start(c)
      BY DEF Start
    <2>2. calls[c] = IdleCall
      BY <2>1, StartIdle DEF SInv, RInv
    <2>3. QED
      BY <2>2, IdleCallIs DEF SInv, RInv, Switches, IsApply
  <1>2. /\ Begun(calls'[c], "apply", "spawned") /\ calls'[c].n = rev
        /\ calls'[c].persona = target[rev] /\ CalmReads /\ Spawnable(rev)
        /\ UNCHANGED <<target, runtime, faults>>
    BY <1>1, RefreshIs, CalmReadsIs DEF Refresh
  <1>3. \A d \in Calls \ {c} :
            \/ calls'[d] = calls[d] /\ (calls[d].api = "apply" => ~Running(d))
            \/ /\ calls[d].api = "apply" /\ Running(d) /\ calls'[d].doomed
               /\ calls'[d] = [calls[d] EXCEPT !.doomed = TRUE]
    BY <1>1, RefreshIs
  <1>4. \A d \in Calls \ {c} :
            /\ calls'[d].api = calls[d].api /\ calls'[d].pc = calls[d].pc /\ calls'[d].out = calls[d].out
            /\ calls'[d].n = calls[d].n /\ calls'[d].persona = calls[d].persona
            /\ calls'[d].then = calls[d].then
            /\ calls'[d].doomed <=> Runs(calls[d])
    <2> SUFFICES ASSUME NEW d \in Calls \ {c}
                 PROVE /\ calls'[d].api = calls[d].api /\ calls'[d].pc = calls[d].pc
                       /\ calls'[d].out = calls[d].out /\ calls'[d].n = calls[d].n
                       /\ calls'[d].persona = calls[d].persona /\ calls'[d].then = calls[d].then
                       /\ calls'[d].doomed <=> Runs(calls[d])
      OBVIOUS
    <2>1. calls[d] \in CallRecords
      BY <1>1, StateIs
    <2>2. CASE calls'[d] = calls[d] /\ (calls[d].api = "apply" => ~Running(d))
      BY <1>1, <2>2 DEF Ordered, Runs, Running
    <2>3. CASE /\ calls[d].api = "apply" /\ Running(d) /\ calls'[d].doomed
               /\ calls'[d] = [calls[d] EXCEPT !.doomed = TRUE]
      BY <2>1, <2>3 DEF CallRecords, Runs, Running
    <2>4. QED
      BY <1>3, <2>2, <2>3
  <1>5. \A d \in Calls \ {c} : IsApply(calls[d]) =>
            /\ calls[d].n \in Nat /\ calls[d].n <= rev
            /\ (Runs(calls[d]) \/ calls[d].out = "applied") => calls[d].n < rev
    <2>1. \A d \in Calls : calls[d].n \in Nat
      BY <1>1, Numbers
    <2>2. ASSUME NEW d \in Calls \ {c}, IsApply(calls[d])
          PROVE  /\ calls[d].n \in Nat /\ calls[d].n <= rev
                 /\ (Runs(calls[d]) \/ calls[d].out = "applied") => calls[d].n < rev
      <3> DEFINE n == calls[d].n
      <3>1. IF Runs(calls[d]) \/ calls[d].out = "applied" THEN n < rev ELSE n <= rev
        BY <1>2, <2>2 DEF Spawnable, Running, Runs, IsApply
      <3>2. n \in Nat /\ rev \in Nat
        BY <1>1, <2>1
      <3> HIDE DEF n
      <3>3. n <= rev /\ ((Runs(calls[d]) \/ calls[d].out = "applied") => n < rev)
        BY <3>1, <3>2
      <3>4. QED
        BY <3>2, <3>3 DEF n
    <2>3. QED
      BY <2>2
  <1>6. /\ IsApply(calls'[c]) /\ Runs(calls'[c]) /\ ~Lost(calls'[c]) /\ ~calls'[c].doomed
        /\ rev <= rev /\ calls'[c].pc = "spawned" /\ calls'[c].out = "none"
    BY <1>1, <1>2 DEF Begun, IsApply, Runs, Lost
  <1>7. \A d \in Calls \ {c} : /\ IsApply(calls'[d]) <=> IsApply(calls[d])
                               /\ Runs(calls'[d]) <=> Runs(calls[d])
    BY <1>4 DEF IsApply, Runs
  <1>8. Configured(target', runtime', state', calls')
    <2>1. state.pending_cfg # 0 => \E e \in Calls \ {c} : IsApply(calls[e]) /\ calls[e].n = state.pending_cfg
      BY <1>1 DEF Configured
    <2>2. QED
      BY <1>1, <1>2, <1>4, <1>7, <2>1 DEF Configured, CalmReads
  <1>9. ASSUME NEW d \in Calls, IsApply(calls'[d]), Lost(calls'[d]) PROVE Replaced(calls', calls'[d])
    <2>1. d # c
      BY <1>6, <1>9
    <2>2. CASE Runs(calls[d])
      <3>1. calls[d].n < rev /\ calls[d].n \in Nat
        BY <1>5, <1>7, <1>9, <2>1, <2>2
      <3>2. calls'[c].n > calls'[d].n
        BY <1>1, <1>2, <1>4, <2>1, <3>1
      <3>3. QED
        BY <1>6, <3>2 DEF Replaced
    <2>3. CASE ~Runs(calls[d])
      <3>1. IsApply(calls[d]) /\ Lost(calls[d]) /\ calls'[d].n = calls[d].n
        BY <1>4, <1>7, <1>9, <2>1, <2>3 DEF Lost
      <3>2. PICK w \in Calls \ {c} : IsApply(calls[w]) /\ calls[w].n > calls[d].n /\ ~Lost(calls[w])
        BY <1>1, <3>1 DEF Switches, Applies, Replaced
      <3>3. CASE Runs(calls[w])
        <4>1. calls[w].n < rev /\ calls[w].n \in Nat /\ calls[d].n \in Nat
          BY <1>5, <2>1, <3>1, <3>2, <3>3
        <4> DEFINE m == calls[w].n
                   n == calls[d].n
        <4>2. rev > n
          <5>1. m < rev /\ m \in Nat /\ n \in Nat /\ m > n
            BY <3>2, <4>1
          <5> HIDE DEF m, n
          <5>2. QED
            BY <1>1, <5>1
        <4>3. QED
          BY <1>2, <1>6, <3>1, <4>2 DEF Replaced
      <3>4. CASE ~Runs(calls[w])
        <4>1. IsApply(calls'[w]) /\ calls'[w].n > calls'[d].n /\ ~Lost(calls'[w])
          BY <1>4, <1>7, <3>1, <3>2, <3>4 DEF Lost
        <4>2. QED
          BY <4>1 DEF Replaced
      <3>5. QED
        BY <3>3, <3>4
    <2>4. QED
      BY <2>2, <2>3
  <1>10. ASSUME NEW d \in Calls, IsApply(calls'[d])
         PROVE  Applies(target', runtime', state', calls', faults', calls'[d])
    <2>1. CASE d = c
      BY <1>2, <1>6, <2>1 DEF Applies, Switching
    <2>2. CASE d # c
      <3>1. Applies(target, runtime, state, calls, faults, calls[d])
        BY <1>1, <1>7, <1>10, <2>2 DEF Switches
      <3> DEFINE r == calls[d]
                 q == calls'[d]
      <3>2. /\ q.pc = r.pc /\ q.out = r.out /\ q.n = r.n /\ q.persona = r.persona /\ q.then = r.then
            /\ Lost(q) => Replaced(calls', q)
        BY <1>4, <1>9, <1>10, <2>2
      <3> HIDE DEF r, q
      <3>3. Applies(target, runtime, state', calls', faults, q)
        BY <1>2, <3>1, <3>2 DEF Applies, CalmReads, r
      <3>4. QED
        BY <1>2, <3>3 DEF q
    <2>3. QED
      BY <2>1, <2>2
  <1>11. Ordered(calls')
    <2>1. \A d \in Calls : calls'[d].doomed => Runs(calls'[d])
      BY <1>4, <1>6, <1>7
    <2>2. Newest(calls', rev)
      BY <1>2, <1>4, <1>5, <1>6, <1>7 DEF Newest
    <2>3. \A d \in Calls : (Runs(calls'[d]) /\ ~calls'[d].doomed) => d = c
      BY <1>4, <1>7
    <2>4. ASSUME NEW d \in Calls, NEW e \in Calls, Runs(calls'[d]), Runs(calls'[e]), calls'[d].n = calls'[e].n
          PROVE  d = e
      <3>1. \A x \in Calls \ {c} : Runs(calls'[x]) => calls'[x].n # rev /\ Runs(calls[x])
        <4>1. \A x \in Calls : Runs(calls[x]) => IsApply(calls[x])
          BY DEF Runs, IsApply
        <4>2. \A n \in Nat : n < rev => n # rev
          BY <1>1
        <4>3. QED
          BY <1>4, <1>5, <1>7, <4>1, <4>2
      <3>2. QED
        BY <1>1, <1>2, <1>4, <2>4, <3>1 DEF Ordered
    <2>5. QED
      BY <1>2, <2>1, <2>2, <2>3, <2>4 DEF Ordered
  <1>12. Switcher(state', calls')
    <2> SUFFICES ASSUME state.switching, ~state.shutting_down
                 PROVE  \E e \in Calls :
                            /\ IsApply(calls'[e]) /\ calls'[e].n = state.pending_cfg
                            /\ calls'[e].pc \in Switching \/ (calls'[e].pc = "done" /\ calls'[e].out = "dropped")
      BY <1>2 DEF Switcher, CalmReads
    <2>1. PICK e \in Calls \ {c} :
             /\ IsApply(calls[e]) /\ calls[e].n = state.pending_cfg
             /\ calls[e].pc \in Switching \/ (calls[e].pc = "done" /\ calls[e].out = "dropped")
      BY <1>1 DEF Switcher
    <2>2. QED
      BY <1>4, <1>7, <2>1
  <1>13. Pursued(runtime', state', calls', faults')
    <2>1. \A d \in Calls : IsApply(calls'[d]) => rev >= calls'[d].n
      <3>1. \A d \in Calls \ {c} : IsApply(calls[d]) => rev >= calls[d].n
        BY <1>1, <1>5
      <3>2. QED
        BY <1>1, <1>2, <1>4, <1>7, <3>1
    <2>2. QED
      BY <1>2, <1>6, <2>1 DEF Pursued
  <1>14. QED
    BY <1>1, <1>2, <1>8, <1>10, <1>11, <1>12, <1>13 DEF Switches

-----------------------------------------------------------------------------
LEMMA InitSInv == ASSUME Init PROVE SInv
  <1>1. RInv
    BY InitRInv
  <1>2. \A c \in Calls : ~IsApply(calls[c]) /\ ~calls[c].doomed
    BY IdleCallIs DEF Init, IsApply
  <1>3. runtime.cfg = 0 /\ state.pending_cfg = 0 /\ ~state.switching /\ faults = 0 /\ 0 <= 0
    BY DEF Init
  <1>4. QED
    BY <1>1, <1>2, <1>3 DEF SInv, Switches, Configured, Ordered, Switcher, Pursued, Runs, IsApply

LEMMA NextSInv == ASSUME SInv, [Next]_vars PROVE SInv'
  <1>1. RInv' /\ IInv'
    BY NextRInv DEF SInv, RInv
  <1>2. CASE Serve
    BY <1>1, <1>2, ServeSwitches DEF SInv
  <1>3. CASE UNCHANGED vars
    BY <1>1, <1>3 DEF vars, SInv
  <1>4. ASSUME NEW c \in Calls, Start(c) PROVE SInv'
    <2>1. CASE \E rev \in 1 .. MaxConfig : Refresh(c, rev)
      BY <1>1, <2>1, RefreshSwitches DEF SInv
    <2>2. CASE \/ SendInput(c) \/ UiCall(c) \/ EditCall(c) \/ Shutdown(c)
      BY <1>1, <2>2, CalmStart DEF SInv, UiCall
    <2>3. QED
      BY <1>4, <2>1, <2>2 DEF Start
  <1>5. ASSUME NEW c \in Calls, Advance(c) PROVE SInv'
    <2>1. CASE ApplyStep(c)
      BY <1>1, <2>1, RejectSwitches, SamePersonaSwitches, DoneSwitches, SwitchSwitches, LoadSwitches,
         FailsSwitches, InstallSwitches, DropSwitches DEF SInv, ApplyStep
    <2>2. CASE Persist(c)
      BY <1>1, <2>2, PersistSwitches DEF SInv
    <2>3. CASE SendStep(c) \/ VoiceStep(c) \/ EditStep(c) \/ Finish(c)
      BY <1>1, <2>3, CalmAdvance DEF SInv
    <2>4. QED
      BY <1>5, <2>1, <2>2, <2>3 DEF Advance
  <1>6. QED
    BY <1>2, <1>3, <1>4, <1>5 DEF Next, Rest

\* In every state the revisions that run, are pending and are pursued by calls
\* of apply_configuration fit together.
THEOREM SwitchesInvariant == Spec => []SInv
  BY InitSInv, NextSInv, PTL DEF Spec

\* An agent that is switching and not shut down has a call that will end it.
LEMMA OwnerExists == ASSUME SInv PROVE SwitchHasAnOwner
  <1> SUFFICES ASSUME state.switching, ~state.shutting_down
               PROVE  \E c \in Calls : calls[c].api = "apply" /\ Running(c)
    BY DEF SwitchHasAnOwner
  <1>1. IInv /\ Switches(target, runtime, state, calls, faults)
    BY DEF SInv, RInv
  <1>2. PICK e \in Calls : /\ IsApply(calls[e]) /\ calls[e].n = state.pending_cfg
                           /\ calls[e].pc \in Switching \/ (calls[e].pc = "done" /\ calls[e].out = "dropped")
    BY <1>1 DEF Switches, Switcher
  <1>3. CASE calls[e].pc \in Switching
    BY <1>2, <1>3 DEF IsApply, Running, Switching
  <1>4. CASE calls[e].pc = "done" /\ calls[e].out = "dropped"
    <2>1. PICK d \in Calls : IsApply(calls[d]) /\ calls[d].n > state.pending_cfg /\ ~Lost(calls[d])
      BY <1>1, <1>2, <1>4 DEF Switches, Applies, Lost, Replaced
    <2>2. Applies(target, runtime, state, calls, faults, calls[d])
      BY <1>1, <2>1 DEF Switches
    <2> DEFINE n == calls[d].n
               pending == state.pending_cfg
               cfg == runtime.cfg
    <2>3. ~(n <= pending) /\ ~(n <= cfg)
      <3>1. n \in Nat /\ pending \in Nat /\ cfg \in Nat /\ cfg <= pending /\ n > pending
        BY <1>1, <2>1, Numbers DEF Switches, Configured
      <3> HIDE DEF n, pending, cfg
      <3>2. QED
        BY <3>1
    <2>4. calls[d].pc # "done"
      BY <2>1, <2>2, <2>3 DEF Applies, Lost
    <2>5. calls[d].pc # "idle"
      BY <2>2 DEF Applies, Switching
    <2>6. QED
      BY <2>1, <2>4, <2>5 DEF IsApply, Running
  <1>5. QED
    BY <1>2, <1>3, <1>4

\* When all calls have returned, none pursues a revision that does not run.
LEMMA NewestRuns == ASSUME SInv PROVE NewestConfigurationWins
  <1> SUFFICES ASSUME Quiet, faults = 0, ~state.shutting_down, NEW c \in Calls, calls[c].api = "apply"
               PROVE  /\ calls[c].n <= runtime.cfg
                      /\ runtime.persona = target[runtime.cfg]
                      /\ ~state.switching
    BY DEF NewestConfigurationWins
  <1>1. IInv /\ Switches(target, runtime, state, calls, faults)
    BY DEF SInv, RInv
  <1>2. \A d \in Calls : ~Running(d) /\ ~Runs(calls[d])
    BY DEF Quiet, Running, Runs
  <1>3. calls[c].n <= runtime.cfg
    BY <1>1, <1>2 DEF Switches, Pursued, IsApply
  <1>4. runtime.persona = target[runtime.cfg]
    <2>1. calls[c].n \in Nat /\ calls[c].n # 0 /\ runtime.cfg \in Nat
      BY <1>1, Numbers DEF IsApply
    <2>2. runtime.cfg # 0
      BY <1>3, <2>1
    <2>3. QED
      BY <1>1, <2>2 DEF Switches, Configured
  <1>5. ~state.switching
    BY <1>2, OwnerExists DEF SwitchHasAnOwner
  <1>6. QED
    BY <1>3, <1>4, <1>5

\* However refreshes of the configuration are spawned, replaced, dropped and
\* interleaved with saves, loads and other calls, the newest configuration
\* runs when all calls have returned, and a switch of personas that is under
\* way always has a call that will end it (apply_configuration).
THEOREM SwitchesTheorem == Spec => []SwitchesSettle
  BY OwnerExists, NewestRuns, SwitchesInvariant, PTL DEF SwitchesSettle

-----------------------------------------------------------------------------
(***************************************************************************)
(* As long as one persona is selected, what is in memory reaches the       *)
(* document: the session is durable at rest and after a shutdown, and an   *)
(* acknowledged deletion lasts.                                            *)
(*                                                                         *)
(* There is then one store, and its saves wait in the queue in the order   *)
(* in which they were reserved (Lined).  Unless a save failed, the last of *)
(* them, or the document when none waits, is to a restart what the session *)
(* is, or a call is about to reserve the next one (Durable).  A turn that  *)
(* was deleted is in neither, and its id is not given again (Deleted).     *)
(* What a step of one call does to all this is its Footprint.              *)
(***************************************************************************)

\* Every configuration revision selects the persona the agent started with.
OnePersona == \A rev \in 1 .. MaxConfig : target[rev] = FirstPersona

\* Where a call can be when nothing ever switches.
Placed(s, r) ==
    /\ r.out = "ok" => r.pc = "done"
    /\ r.api = "apply" => /\ r.persona = FirstPersona
                          /\ r.pc \in {"spawned", "persist_weak", "applied", "done"}
                          /\ r.pc = "persist_weak" => r.then = "applied"
    /\ r.api \in Edits => /\ r.pc \in {"cloned", "waiting", "done"}
                          /\ r.pc = "cloned" => r.rt.persona = FirstPersona
    /\ r.api = "shutdown" => s.shutting_down /\ r.pc \in {"waiting", "done"}

Settled(tgt, rt, ss, s, cs) ==
    /\ \A rev \in 1 .. MaxConfig : tgt[rev] = FirstPersona
    /\ rt.persona = FirstPersona
    /\ Len(ss) = 1 /\ s.store = 1 /\ ss[1].persona = FirstPersona
    /\ ~s.switching
    /\ \A c \in Calls : Placed(s, cs[c])

IsSave(op) == op.op = "save"

\* A save that waits is the session's and was not tried yet; another operation
\* changes the document of another persona.
Queued(op, s, store, cs) ==
    IF IsSave(op)
    THEN /\ op.persona = FirstPersona /\ op.store = 1 /\ store.ok
         /\ store.tried < op.n /\ op.n <= s.persist_revision
         /\ \A t \in op.turns : t.id < s.session.next
         /\ (op.call \in Calls /\ cs[op.call].api \in Edits) => cs[op.call].persona = FirstPersona
    ELSE /\ op.call \in Calls /\ op.op \in Edits
         /\ op.op = cs[op.call].api /\ op.n = cs[op.call].n
         /\ op.persona = cs[op.call].persona /\ op.persona # FirstPersona

Lined(q, s, store, cs) ==
    /\ store.latest <= store.tried /\ store.tried <= s.persist_revision
    /\ \A i \in 1 .. Len(q) : Queued(q[i], s, store, cs)
    /\ \A i, j \in 1 .. Len(q) : (i < j /\ IsSave(q[i]) /\ IsSave(q[j])) => q[i].n < q[j].n

\* What a restart makes of turns.
Settle(turns) == Closed(turns, "interrupted")

\* What the document will hold when the queue is empty, if nothing fails, is
\* what a restart makes of these turns.
NoSaves(q, n) == \A i \in n .. Len(q) : ~IsSave(q[i])
CaughtUp(q, doc, turns) ==
    /\ NoSaves(q, 1) => Settle(doc.turns) = Settle(turns)
    /\ \A i \in 1 .. Len(q) : (IsSave(q[i]) /\ NoSaves(q, i + 1)) => Settle(q[i].turns) = Settle(turns)

Owed(cs) == \E c \in Calls : cs[c].pc = "persist"

Durable(q, doc, s, store, cs, f) ==
    /\ f \in Nat
    /\ (f = 0 /\ store.ok) => Owed(cs) \/ CaughtUp(q, doc, s.session.turns)

\* An acknowledged deletion: in the session's document the turn cannot come
\* back, because ids are not used again.
DeletedHere(s, store, r) == store.ok /\ r.n < s.session.next /\ ~Has(s.session.turns, r.n)
Deleted(ds, s, store, cs) ==
    /\ \A t \in ds[FirstPersona].turns : t.id < s.session.next
    /\ \A c \in Calls : cs[c].api = "delete" =>
          /\ (cs[c].persona = FirstPersona /\ (cs[c].pc = "waiting" \/ (cs[c].pc = "done" /\ cs[c].out = "ok")))
                => DeletedHere(s, store, cs[c])
          /\ (cs[c].persona # FirstPersona /\ cs[c].pc = "done" /\ cs[c].out = "ok")
                => ~Has(ds[cs[c].persona].turns, cs[c].n)

DInv ==
    /\ RInv
    /\ Settled(target, runtime, stores, state, calls)
    /\ Lined(queue, state, stores[1], calls)
    /\ Durable(queue, docs[FirstPersona], state, stores[1], calls, faults)
    /\ Deleted(docs, state, stores[1], calls)

\* After a shutdown every save from its own on carries the final session.
Final(q, n, turns) == \A j \in n .. Len(q) : IsSave(q[j]) => q[j].turns = turns
Sealed(q, doc, s, store, cs) ==
    \A c \in Calls : cs[c].api = "shutdown" =>
        /\ \A i \in 1 .. Len(q) : q[i].call = c => Final(q, i, s.session.turns)
        /\ (cs[c].pc = "done" /\ cs[c].out = "ok" /\ store.ok)
              => doc.turns = s.session.turns /\ Final(q, 1, s.session.turns)

\* The calls made belong to one workload.
Offered(cs) ==
    \/ \A c \in Calls : cs[c].api = "none"
    \/ \E offer \in Offers : \A c \in Calls : cs[c].api \in offer[c] \cup {"none"}

ZInv == DInv /\ Sealed(queue, docs[FirstPersona], state, stores[1], calls) /\ Offered(calls)

-----------------------------------------------------------------------------
(* What every action does to the turns of the session and to the revision. *)

\* The session and the revision after the step.
Effect(q, n) == state'.session = q /\ state'.persist_revision = n /\ state'.store = state.store
Untouched == Effect(state.session, state.persist_revision)

\* Two sets of turns that a restart makes the same of, with the same ids.
LEMMA SettleClosed ==
    ASSUME NEW turns, turns \in SUBSET Turns
    PROVE  Settle(Closed(turns, "interrupted")) = Settle(turns)
  <1> DEFINE f(t) == IF t.st = "streaming" THEN [t EXCEPT !.st = "interrupted"] ELSE t
             g(S) == {f(t) : t \in S}
  <1>1. \A t \in turns : f(f(t)) = f(t)
    BY DEF Turns
  <1>2. \A S : Closed(S, "interrupted") = g(S)
    BY DEF Closed
  <1>3. g(g(turns)) = g(turns)
    <2> HIDE DEF f
    <2>1. QED
      BY <1>1
  <1> HIDE DEF g
  <1>4. QED
    BY <1>2, <1>3 DEF Settle

LEMMA ClosedQuiet ==
    ASSUME NEW turns, Streaming(turns) = {}, NEW st
    PROVE  Closed(turns, st) = turns
  BY DEF Closed, Streaming

\* How the turns of a session change: ids are not used again, and a session
\* that nothing streams in is left as it is.
Ages(s, q) ==
    /\ q \in Sessions /\ s.next <= q.next
    /\ \A t \in q.turns : Has(s.turns, t.id) \/ s.next <= t.id

LEMMA AgesSame == ASSUME NEW s, GoodSession(s) PROVE Ages(s, s)
  BY DEF Ages, GoodSession, Sessions, Has

LEMMA EndedAges ==
    ASSUME NEW s, GoodSession(s), NEW st \in Terminal
    PROVE  /\ Ages(s, Ended(s, st)) /\ Ended(s, st).next = s.next
           /\ s.active = 0 => Ended(s, st).turns = s.turns
           /\ Ended(s, st).turns = Closed(s.turns, st)
  <1> DEFINE closed == Closed(s.turns, st)
             q == Ended(s, st)
  <1>1. closed \in SUBSET Turns /\ \A t \in closed : \E u \in s.turns : t.id = u.id
    BY ClosedTurns DEF GoodSession, GoodTurns
  <1>2. q = [s EXCEPT !.turns = closed, !.active = 0]
    BY DEF Ended, Closed
  <1>3. s.active = 0 => closed = s.turns
    BY ClosedQuiet DEF GoodSession
  <1>4. s \in Sessions
    BY DEF GoodSession
  <1> HIDE DEF closed, q
  <1>5. q \in Sessions /\ q.turns = closed /\ q.next = s.next
    BY <1>1, <1>2, <1>4 DEF Sessions
  <1>6. Ages(s, q)
    BY <1>1, <1>4, <1>5 DEF Ages, Has, Sessions
  <1>7. QED
    BY <1>3, <1>5, <1>6 DEF q, closed

LEMMA DiscardedAges ==
    ASSUME NEW s, GoodSession(s)
    PROVE  /\ Ages(s, Discarded(s)) /\ Discarded(s).next = s.next
           /\ s.active = 0 => Discarded(s).turns = s.turns
  <1> DEFINE kept == {t \in s.turns : t.st # "streaming"}
             q == Discarded(s)
  <1>1. kept \in SUBSET Turns /\ kept \subseteq s.turns
    BY DEF GoodSession, GoodTurns
  <1>2. q = [s EXCEPT !.turns = kept, !.active = 0]
    BY DEF Discarded
  <1>3. s.active = 0 => kept = s.turns
    BY DEF GoodSession, Streaming
  <1>4. s \in Sessions
    BY DEF GoodSession
  <1> HIDE DEF kept, q
  <1>5. q \in Sessions /\ q.turns = kept /\ q.next = s.next
    BY <1>1, <1>2, <1>4 DEF Sessions
  <1>6. Ages(s, q)
    BY <1>1, <1>4, <1>5 DEF Ages, Has, Sessions
  <1>7. QED
    BY <1>3, <1>5, <1>6 DEF q

LEMMA StartedAges ==
    ASSUME NEW s, GoodSession(s), s.active = 0
    PROVE  Ages(s, Started(s))
  <1> DEFINE new == [id |-> s.next, home |-> s.home, st |-> "streaming"]
             turns == s.turns \cup {new}
             q == Started(s)
             active == s.responses + 1
             next == s.next + 1
  <1>1. q \in Sessions
    BY StartedGood DEF GoodSession
  <1>2. s \in Sessions /\ active \in Nat /\ next \in Nat /\ s.next <= next
    BY DEF GoodSession, Sessions
  <1>3. q = [s EXCEPT !.turns = turns, !.active = active, !.responses = active, !.next = next]
    BY DEF Started
  <1>4. \A t \in turns : t \in s.turns \/ t.id = s.next
    OBVIOUS
  <1> HIDE DEF new, turns, q, active, next
  <1>5. q.turns = turns /\ q.next = next
    BY <1>2, <1>3 DEF Sessions
  <1>6. Ages(s, q)
    BY <1>1, <1>2, <1>4, <1>5 DEF Ages, Has, Sessions
  <1>7. QED
    BY <1>6 DEF q

\* The records that actions build from the state.
LEMMA StateEffect ==
    ASSUME IInv, NEW q \in Sessions, NEW v \in Voices, NEW cfg \in Nat, NEW r \in Requests
    PROVE  /\ state' = [Aborted(state) EXCEPT !.session = q] => Effect(q, state.persist_revision)
           /\ state' = [NewRequests(Aborted(state)) EXCEPT !.session = q]
                  => Effect(q, state.persist_revision)
           /\ state' = [NewRequests(Aborted(state)) EXCEPT
                           !.suspended = TRUE, !.pending_voice = v, !.session = q]
                  => Effect(q, state.persist_revision)
           /\ state' = [NewRequests(Aborted(state)) EXCEPT !.pending_voice = v, !.session = q]
                  => Effect(q, state.persist_revision)
           /\ state' = [Aborted(state) EXCEPT
                           !.session = q, !.pending_voice = v, !.pending_cfg = cfg, !.switching = FALSE]
                  => Effect(q, state.persist_revision)
           /\ state' = [state EXCEPT !.session = q, !.pending_voice = v, !.active_request = r]
                  => Effect(q, state.persist_revision)
           /\ state' = [state EXCEPT !.pending_voice = v] => Untouched
           /\ state' = [state EXCEPT !.suspended = FALSE] => Untouched
           /\ state' = state => Untouched
  <1> DEFINE a == Aborted(state)
             b == NewRequests(a)
             n == state.persist_revision
  <1>1. /\ a \in States /\ a.session = state.session /\ a.store = state.store
        /\ a.persist_revision = n
    <2>1. state \in States
      BY StateIs
    <2>2. QED
      BY <2>1, StateIs, AbortedReads, AbortedState, NoRequestTyped DEF Aborted, States
  <1>2. /\ b \in States /\ b.session = state.session /\ b.store = state.store
        /\ b.persist_revision = n
    <2> DEFINE m == a.request_revision + 1
    <2> HIDE DEF a
    <2>1. b \in States
      BY <1>1, NewRequestsReads
    <2>2. b = [a EXCEPT !.request_revision = m]
      BY DEF NewRequests
    <2> HIDE DEF m
    <2>3. b.session = a.session /\ b.store = a.store /\ b.persist_revision = a.persist_revision
      BY <1>1, <2>2 DEF States
    <2> HIDE DEF b
    <2>4. QED
      BY <1>1, <2>1, <2>3
  <1> HIDE DEF a, b, n
  <1>3. state \in States /\ n = state.persist_revision
    BY StateIs DEF n
  <1>4. QED
    BY <1>1, <1>2, <1>3 DEF a, b, Effect, Untouched, States

\* The state with another session, under a new revision.
LEMMA BumpedEffect ==
    ASSUME IInv, NEW q \in Sessions
    PROVE  /\ state' = Bumped(state) => Effect(state.session, state.persist_revision + 1)
           /\ state' = Bumped([Aborted(state) EXCEPT !.session = q])
                  => Effect(q, state.persist_revision + 1)
           /\ state' = [Bumped(Aborted(state)) EXCEPT
                           !.session = q, !.shutting_down = TRUE, !.pending_voice = NoVoice]
                  => Effect(q, state.persist_revision + 1)
  <1> DEFINE n == state.persist_revision
             k == n + 1
             a == Aborted(state)
             e == [a EXCEPT !.session = q]
  <1>1. state \in States /\ k \in Nat
    BY StateIs DEF States
  <1>2. a \in States /\ a.store = state.store /\ a.persist_revision = n
    <2>1. QED
      BY <1>1, AbortedReads, AbortedState, NoRequestTyped DEF Aborted, States
  <1> HIDE DEF a
  <1>3. e \in States /\ e.store = state.store /\ e.persist_revision = n /\ e.session = q
    BY <1>2 DEF States
  <1> HIDE DEF e
  <1>4. Bumped(state) = [state EXCEPT !.persist_revision = k]
    BY DEF Bumped
  <1>5. Bumped(e) = [e EXCEPT !.persist_revision = k] /\ Bumped(a) = [a EXCEPT !.persist_revision = k]
    BY <1>2, <1>3 DEF Bumped
  <1> HIDE DEF k, n
  <1>6. /\ state' = Bumped(state) => Effect(state.session, k)
        /\ state' = Bumped(e) => Effect(q, k)
        /\ state' = [Bumped(a) EXCEPT !.session = q, !.shutting_down = TRUE, !.pending_voice = NoVoice]
               => Effect(q, k)
    BY <1>1, <1>2, <1>3, <1>4, <1>5, NoVoiceTyped DEF Effect, States
  <1>7. QED
    BY <1>6 DEF a, e, k, n

-----------------------------------------------------------------------------
(* The footprint of a step of one call: what it changes of what the        *)
(* invariant is about.                                                     *)
Store == stores[1]

\* What becomes of the call.
Record(c) ==
    LET q == calls'[c]
    IN  /\ calls[c].pc \notin {"waiting", "done"} /\ Placed(state', q)
        /\ calls[c].api \in {q.api, "none"}
        /\ (q.api = "delete" /\ q.persona = FirstPersona /\ q.pc = "waiting") => DeletedHere(state', Store, q)
        /\ (q.pc = "done" /\ q.out = "ok") => q.api = "shutdown" /\ ~Store.ok

\* The queue stays: what is in memory is what it was to a restart, or a call
\* is about to save it.
Quietly ==
    /\ queue' = queue /\ state.persist_revision <= state'.persist_revision
    /\ Store.ok => \/ Owed(calls')
                   \/ /\ Settle(state'.session.turns) = Settle(state.session.turns)
                      /\ Owed(calls) => Owed(calls')

\* The session is reserved to be saved as it is after the step.
Saves(c) ==
    /\ Store.ok /\ state'.persist_revision = state.persist_revision + 1
    /\ \E a \in {c, Background} : queue' = Append(queue, SaveOf(state', a))
    /\ calls'[c].api \in Edits => calls'[c].persona = FirstPersona

\* Or a change of another persona's document is.
Elsewhere(c) ==
    /\ queue' = Append(queue, OpOf(calls[c].api, c)) /\ state' = state
    /\ calls[c].api \in Edits /\ calls[c].persona # FirstPersona
    /\ calls[c].pc # "persist" /\ Goes(calls[c], calls'[c])

Footprint(c) ==
    /\ UNCHANGED <<target, stores, docs, faults>> /\ runtime'.persona = FirstPersona
    /\ state'.store = 1 /\ ~state'.switching /\ (state.shutting_down => state'.shutting_down)
    /\ Ages(state.session, state'.session)
    /\ (state.shutting_down /\ calls[c].api \notin Edits) => state'.session.turns = state.session.turns
    /\ Others(c) /\ Record(c)
    /\ Quietly \/ Saves(c) \/ Elsewhere(c)

LEMMA DInvIs ==
    ASSUME DInv
    PROVE  /\ RInv /\ IInv /\ state \in States /\ GoodSession(state.session)
           /\ state.session.turns \in SUBSET Turns /\ state.persist_revision \in Nat
           /\ runtime.persona = FirstPersona /\ state.store = 1 /\ ~state.switching
           /\ StoreOf(state) = Store
           /\ state.shutting_down => state.session.active = 0
           /\ \A c \in Calls : Placed(state, calls[c]) /\ calls[c] \in CallRecords
  <1>1. RInv /\ IInv /\ state \in States /\ GoodSession(state.session)
    BY StateIs DEF DInv, RInv
  <1>2. state.session.turns \in SUBSET Turns /\ state.persist_revision \in Nat
    BY <1>1 DEF States, GoodSession, GoodTurns
  <1>3. /\ runtime.persona = FirstPersona /\ state.store = 1 /\ ~state.switching
        /\ \A c \in Calls : Placed(state, calls[c])
    BY DEF DInv, Settled
  <1>4. state.shutting_down => state.session.active = 0
    BY <1>1 DEF IInv, StateOK, GoodState
  <1>5. \A c \in Calls : calls[c] \in CallRecords
    BY <1>1, StateIs
  <1>6. QED
    BY <1>1, <1>2, <1>3, <1>4, <1>5 DEF StoreOf, Store

\* A call that owes a save keeps owing it while others move.
LEMMA OwedKept ==
    ASSUME NEW c \in Calls, Others(c), calls[c].pc # "persist", Owed(calls)
    PROVE  Owed(calls')
  BY DEF Owed, Others, Kept

\* A session that is as before.
LEMMA UntouchedIs ==
    ASSUME DInv, Untouched
    PROVE  /\ state'.store = 1 /\ Ages(state.session, state'.session)
           /\ state'.session.turns = state.session.turns
           /\ state.persist_revision <= state'.persist_revision
  BY DInvIs, AgesSame DEF Untouched, Effect

\* A step that leaves the session alone.
LEMMA RestFootprint ==
    ASSUME DInv, NEW c \in Calls, Others(c), Record(c), Untouched,
           calls[c].pc # "persist", UNCHANGED <<target, runtime, stores, docs, queue, faults>>,
           state'.switching = state.switching, state'.shutting_down = state.shutting_down
    PROVE  Footprint(c)
  BY DInvIs, UntouchedIs, OwedKept DEF Footprint, Quietly

\* A step that changes the session and is followed by persist().
LEMMA OwingFootprint ==
    ASSUME DInv, NEW c \in Calls, Others(c), Record(c), NEW q, Effect(q, state.persist_revision),
           Ages(state.session, q), state.shutting_down => q.turns = state.session.turns,
           UNCHANGED <<target, runtime, stores, docs, queue, faults>>,
           calls[c].pc # "persist", calls'[c].pc # "persist" => q.turns = state.session.turns,
           state'.switching = state.switching, state'.shutting_down = state.shutting_down
    PROVE  Footprint(c)
  <1>1. Quietly
    <2>1. CASE calls'[c].pc = "persist"
      BY <2>1, DInvIs DEF Quietly, Owed, Effect
    <2>2. CASE calls'[c].pc # "persist"
      BY <2>2, DInvIs, OwedKept DEF Quietly, Effect
    <2>3. QED
      BY <2>1, <2>2
  <1>2. QED
    BY <1>1, DInvIs DEF Footprint, Effect

\* What Placed says nothing of.
Free == UiApis \cup {"send"}
LEMMA FreePlaced ==
    ASSUME NEW s, NEW r, r.api \in Free, r.out # "ok" PROVE Placed(s, r) /\ r.api \notin Edits /\ r.api \notin {"delete", "shutdown", "apply"}
  BY DEF Free, UiApis, Placed, Edits

LEMMA FreeRecord ==
    ASSUME NEW c \in Calls, calls'[c].api \in Free, calls[c].api \in {calls'[c].api, "none"},
           calls[c].pc \notin {"waiting", "done"}, calls'[c].out # "ok"
    PROVE  Record(c)
  BY FreePlaced DEF Record

-----------------------------------------------------------------------------
(* The footprint of every action.                                          *)

\* A call that starts an answer, ends one or leaves it alone is of Free.
LEMMA StartFootprint ==
    ASSUME DInv, NEW c \in Calls, Start(c)
    PROVE  Footprint(c)
  <1>1. IInv /\ calls[c] = IdleCall /\ calls[c].api = "none" /\ calls[c].pc = "idle"
    BY DInvIs, StartIdle, IdleCallIs
  <1>2. ASSUME NEW rev \in 1 .. MaxConfig, Refresh(c, rev) PROVE Footprint(c)
    <2>1. Others(c) /\ calls'[c].api = "apply" /\ calls'[c].out = "none" /\ calls'[c].pc = "spawned" /\ calls'[c].persona = target[rev]
          /\ state'.switching = state.switching /\ state'.shutting_down = state.shutting_down
      BY <1>1, <1>2, RefreshIs, RefreshOthers DEF Begun, StateReads, Reads
    <2>2. Untouched
      <3>1. state' = [state EXCEPT !.pending_voice = NoVoice]
        BY <1>2 DEF Refresh
      <3>2. QED
        BY <1>1, <3>1, StateIs, NoVoiceTyped DEF States, Untouched, Effect
    <2>3. target[rev] = FirstPersona
      BY DEF DInv, Settled
    <2>4. Record(c)
      BY <1>1, <2>1, <2>3 DEF Record, Placed, Edits
    <2>5. QED
      BY <1>1, <1>2, <2>1, <2>2, <2>4, RestFootprint DEF Refresh
  <1>3. CASE SendInput(c)
    <2>1. Others(c) /\ calls'[c].api = "send" /\ calls'[c].pc = "input" /\ calls'[c].out = "none"
          /\ state'.switching = state.switching /\ state'.shutting_down = state.shutting_down
      BY <1>1, <1>3, SendInputIs, OnlyOthers DEF Begun, StateReads, Reads
    <2>2. Untouched
      <3>1. state' = [state EXCEPT !.pending_voice = NoVoice]
        BY <1>3 DEF SendInput
      <3>2. QED
        BY <1>1, <3>1, StateIs, NoVoiceTyped DEF States, Untouched, Effect
    <2>3. Record(c)
      BY <1>1, <2>1, FreeRecord DEF Free
    <2>4. QED
      BY <1>1, <1>3, <2>1, <2>2, <2>3, RestFootprint DEF SendInput
  <1>4. CASE Cancel(c) \/ Suspend(c)
    <2> DEFINE s == state.session
               pc == IF s.active # 0 THEN "persist" ELSE "ended"
    <2>1. /\ Others(c) /\ calls'[c].pc \in {"persist", "ended"} /\ calls'[c].api \in Free /\ calls'[c].out = "none"
          /\ state'.switching = state.switching /\ state'.shutting_down = state.shutting_down
          /\ UNCHANGED <<target, runtime, stores, docs, queue, faults>>
      BY <1>1, <1>4, SilenceIs DEF Begun, OutdatedReads, StateReads, Reads, Free, UiApis
    <2>2. calls'[c].pc = "persist" \/ s.active = 0
      <3>1. /\ Opened(c, "cancel", "persist") \in CallRecords /\ Opened(c, "cancel", "persist").pc = "persist"
            /\ Opened(c, "suspend", "persist") \in CallRecords /\ Opened(c, "suspend", "persist").pc = "persist"
        BY <1>1, StateIs, OpenedIs DEF ApiNames, Apis, Places, Begun
      <3>2. SUFFICES ASSUME s.active # 0 PROVE calls'[c].pc = "persist"
        OBVIOUS
      <3>3. PICK r : /\ r \in {[Opened(c, "cancel", "persist") EXCEPT !.then = "ended"],
                               [Opened(c, "suspend", "persist") EXCEPT !.then = "ended"]}
                     /\ calls' = [Outdate(calls) EXCEPT ![c] = r]
        BY <1>4, <3>2 DEF Cancel, Suspend
      <3>4. r.pc = "persist"
        BY <3>1, <3>3 DEF CallRecords
      <3>5. calls'[c] = r
        BY <3>3 DEF Outdate
      <3>6. QED
        BY <3>4, <3>5
    <2>3. PICK q : Effect(q, state.persist_revision) /\ Ages(s, q) /\ (s.active = 0 => q.turns = s.turns)
      <3>1. NewRequests(Aborted(state)).session = s
        BY <1>1, NewRequestsIs
      <3>2. CASE Cancel(c)
        <4> DEFINE q == Ended(s, "cancelled")
        <4>1. Ages(s, q) /\ q \in Sessions /\ (s.active = 0 => q.turns = s.turns)
          BY DInvIs, EndedAges DEF Terminal, Ages
        <4>2. state' = [NewRequests(Aborted(state)) EXCEPT !.session = q]
          BY <3>1, <3>2 DEF Cancel
        <4> HIDE DEF q
        <4>3. Effect(q, state.persist_revision)
          BY <1>1, <4>1, <4>2, NoVoiceTyped, NoRequestTyped, StateEffect
        <4>4. QED
          BY <4>1, <4>3
      <3>3. CASE Suspend(c)
        <4> DEFINE q == Discarded(s)
        <4>1. Ages(s, q) /\ q \in Sessions /\ (s.active = 0 => q.turns = s.turns)
          BY DInvIs, DiscardedAges DEF Ages
        <4>2. state' = [NewRequests(Aborted(state)) EXCEPT
                           !.suspended = TRUE, !.pending_voice = NoVoice, !.session = q]
          BY <3>1, <3>3 DEF Suspend
        <4> HIDE DEF q
        <4>3. Effect(q, state.persist_revision)
          BY <1>1, <4>1, <4>2, NoVoiceTyped, NoRequestTyped, StateEffect
        <4>4. QED
          BY <4>1, <4>3
      <3>4. QED
        BY <1>4, <3>2, <3>3
    <2>4. Record(c)
      BY <1>1, <2>1, FreeRecord
    <2>5. QED
      BY <1>1, <2>1, <2>2, <2>3, <2>4, DInvIs, OwingFootprint
  <1>5. CASE \/ Resume(c) \/ EditCall(c)
             \/ \E u \in Utterances : VoiceClone(c, "voice", u) \/ VoiceClone(c, "take", u) \/ CancelVoice(c, u)
    <2>1. /\ Others(c) /\ UNCHANGED <<target, runtime, stores, docs, queue, faults>>
          /\ state'.switching = state.switching /\ state'.shutting_down = state.shutting_down
          /\ calls'[c].pc \in {"cloned", "ended"} /\ calls'[c].out = "none"
          /\ \/ calls'[c].api \in Free
             \/ calls'[c].api \in Edits /\ calls'[c].pc = "cloned" /\ calls'[c].rt = Clone
      <3>1. Only(c) /\ UNCHANGED <<target, runtime, stores, docs, queue, faults>>
        BY <1>1, <1>5, OpensIs
      <3>2. PICK api \in Apis \ {"apply", "send"}, pc \in {"cloned", "ended"} :
                /\ Begun(calls'[c], api, pc)
                /\ api \in UiApis \/ (api \in Edits /\ pc = "cloned" /\ calls'[c].rt = Clone)
        BY <1>1, <1>5, OpensIs
      <3>3. VoiceReads(state.pending_voice) \/ VoiceReads(NoVoice)
        BY <1>1, <1>5, OpensIs
      <3>4. QED
        BY <3>1, <3>2, <3>3, OnlyOthers DEF Begun, VoiceReads, StateReads, Reads, Free
    <2>2. Untouched
      <3>1. \/ state' = state \/ state' = [state EXCEPT !.suspended = FALSE]
            \/ state' = [state EXCEPT !.pending_voice = NoVoice]
        BY <1>5 DEF Resume, EditCall, EditClone, VoiceClone, CancelVoice
      <3>2. QED
        BY <1>1, <3>1, StateIs, NoVoiceTyped DEF States, Untouched, Effect
    <2>3. Record(c)
      <3>1. CASE calls'[c].api \in Free
        BY <1>1, <2>1, <3>1, FreeRecord
      <3>2. CASE calls'[c].api \in Edits /\ calls'[c].pc = "cloned" /\ calls'[c].rt = Clone
        <4>1. calls'[c].rt.persona = FirstPersona
          BY <3>2, DInvIs DEF Clone
        <4>2. QED
          BY <1>1, <2>1, <3>2, <4>1 DEF Record, Placed, Edits
      <3>3. QED
        BY <2>1, <3>1, <3>2
    <2>4. QED
      BY <1>1, <2>1, <2>2, <2>3, RestFootprint
  <1>6. CASE Shutdown(c)
    <2> DEFINE s == state.session
               q == Ended(s, "interrupted")
    <2>1. /\ Others(c) /\ calls'[c].api = "shutdown" /\ UNCHANGED <<target, runtime, stores, docs, faults>>
          /\ \/ Store.ok /\ queue' = Append(queue, SaveOf(state', c)) /\ calls'[c].pc = "waiting"
             \/ queue' = queue /\ calls'[c].pc = "done"
          /\ state'.switching = state.switching /\ state'.shutting_down
      BY <1>1, <1>6, ShutdownIs, OnlyOthers, DInvIs DEF StateReads, Reads
    <2>2. Ages(s, q) /\ q \in Sessions /\ (s.active = 0 => q.turns = s.turns)
      BY DInvIs, EndedAges DEF Terminal, Ages
    <2>3. Effect(q, state.persist_revision + 1)
      <3>1. Bumped(Aborted(state)).session = s
        BY DInvIs, AbortedState, BumpedState
      <3>2. state' = [Bumped(Aborted(state)) EXCEPT
                         !.session = q, !.shutting_down = TRUE, !.pending_voice = NoVoice]
        BY <1>6, <3>1 DEF Shutdown
      <3> HIDE DEF q
      <3>3. QED
        BY <1>1, <2>2, <3>2, BumpedEffect
    <2>4. Store.ok => /\ queue' = Append(queue, SaveOf(state', c)) /\ calls'[c].pc = "waiting"
                      /\ calls'[c].out = "none"
      <3>1. SUFFICES ASSUME Store.ok PROVE calls'[c].pc # "done" /\ calls'[c].out = "none"
        BY <2>1
      <3>2. calls' = [calls EXCEPT ![c] = Opened(c, "shutdown", "waiting")]
        BY <1>6, <3>1, DInvIs DEF Shutdown
      <3>3. /\ Opened(c, "shutdown", "waiting").pc = "waiting" /\ Opened(c, "shutdown", "waiting").out = "none"
            /\ calls'[c] = Opened(c, "shutdown", "waiting")
        BY <1>1, <3>2, StateIs, OpenedIs DEF ApiNames, Apis, Places, Begun
      <3>4. QED
        BY <3>3
    <2>5. Record(c)
      <3> DEFINE r == calls'[c]
      <3>1. /\ r.api = "shutdown" /\ state'.shutting_down
            /\ (r.pc = "waiting" /\ r.out = "none") \/ (r.pc = "done" /\ ~Store.ok)
        BY <2>1, <2>4
      <3> HIDE DEF r
      <3>2. Placed(state', r)
        BY <3>1 DEF Placed, Edits
      <3>3. QED
        BY <1>1, <3>1, <3>2 DEF Record, r
    <2> HIDE DEF q
    <2>6. Quietly \/ Saves(c)
      BY <2>1, <2>3, <2>4, DInvIs DEF Quietly, Saves, Effect, Edits
    <2>7. QED
      BY <2>1, <2>2, <2>3, <2>5, <2>6, DInvIs DEF Footprint, Effect
  <1>7. QED
    BY <1>2, <1>3, <1>4, <1>5, <1>6 DEF Start, UiCall

\* A call that stays, returns or goes on.
LEMMA ReturnedRecord ==
    ASSUME DInv, NEW c \in Calls, calls[c].pc \notin {"waiting", "done"}, NEW out, out # "ok",
           Returned(calls[c], calls'[c], out), calls[c].api # "shutdown"
    PROVE  Record(c)
  <1> DEFINE q == calls'[c]
  <1>1. /\ q.pc = "done" /\ q.out # "ok" /\ q.api = calls[c].api /\ q.persona = calls[c].persona
        /\ calls[c].api # "shutdown"
    BY DEF Returned
  <1>2. q.api = "apply" => q.persona = FirstPersona
    BY <1>1, DInvIs DEF Placed
  <1> HIDE DEF q
  <1>3. Placed(state', q)
    BY <1>1, <1>2 DEF Placed, Edits
  <1>4. QED
    BY <1>1, <1>3 DEF Record, q

LEMMA PersistFootprint ==
    ASSUME DInv, NEW c \in Calls, Persist(c)
    PROVE  Footprint(c)
  <1>1. /\ IInv /\ Only(c) /\ Goes(calls[c], calls'[c]) /\ calls[c].pc \in {"persist", "persist_weak"}
        /\ calls'[c].pc = calls[c].then /\ calls'[c].then = calls[c].then
        /\ SameReads /\ UNCHANGED <<target, runtime, stores, docs, faults>>
        /\ state'.store = state.store /\ state'.session = state.session /\ Others(c)
        /\ calls'[c].out = calls[c].out
    BY DInvIs, PersistIs, OnlyOthers
  <1>2. /\ Placed(state, calls[c]) /\ calls[c].api \notin Edits \cup {"shutdown"}
    BY <1>1, DInvIs DEF Placed, Edits
  <1>3. Record(c)
    BY <1>1, <1>2, DInvIs DEF Record, Placed, Goes, Edits
  <1>4. Quietly \/ Saves(c)
    <2>1. CASE StoreOf(state).ok /\ state' = Bumped(state) /\ EnqueueSave(state', Background)
      <3>1. Effect(state.session, state.persist_revision + 1)
        BY <1>1, <2>1, BumpedEffect, StateIs
      <3>2. queue' = Append(queue, SaveOf(state', Background))
        BY <1>1, <2>1 DEF EnqueueSave, StoreOf
      <3>3. QED
        BY <1>1, <1>2, <2>1, <3>1, <3>2, DInvIs DEF Saves, Effect, Goes
    <2>2. CASE (~StoreOf(state).ok \/ calls[c].pc = "persist_weak") /\ UNCHANGED <<state, queue>>
      BY <1>1, <2>2, DInvIs, OwedKept DEF Quietly
    <2>3. QED
      BY <2>1, <2>2 DEF Persist
  <1>5. QED
    BY <1>1, <1>3, <1>4, DInvIs, AgesSame DEF Footprint, SameReads, Reads

\* A call that neither applies, nor edits, nor shuts down goes on.
LEMMA MovedRecord ==
    ASSUME DInv, NEW c \in Calls, calls[c].pc \notin {"waiting", "done"},
           calls[c].api \notin Edits \cup {"apply", "shutdown"},
           calls'[c].api = calls[c].api, calls'[c].out = calls[c].out
    PROVE  Record(c)
  <1> DEFINE q == calls'[c]
             r == calls[c]
  <1>1. r.out # "ok" /\ Placed(state, r) /\ q.api = r.api /\ q.out = r.out
    BY DInvIs DEF Placed
  <1>2. r.pc \notin {"waiting", "done"} /\ r.api \notin Edits \cup {"apply", "shutdown"}
    OBVIOUS
  <1> HIDE DEF q, r
  <1>3. Placed(state', q)
    BY <1>1, <1>2 DEF Placed
  <1>4. QED
    BY <1>1, <1>2, <1>3 DEF Record, q, r, Edits

\* A call that returns, or is dropped before it did anything.
LEMMA ReturnFootprint ==
    ASSUME DInv, NEW c \in Calls, ApplyReject(c) \/ ApplyDone(c) \/ Finish(c) \/ DropApply(c)
    PROVE  Footprint(c)
  <1>1. CASE ApplyReject(c) \/ ApplyDone(c) \/ Finish(c)
    <2>1. /\ Others(c) /\ UNCHANGED <<target, runtime, state, stores, docs, queue, faults>>
          /\ calls[c].pc \in {"spawned", "applied", "ended"}
          /\ \E out \in {"rejected", "error", "applied", "ended"} : Returned(calls[c], calls'[c], out)
      BY <1>1, DInvIs, ApplyReturnsIs, OnlyOthers
    <2>2. calls[c].api # "shutdown"
      BY <2>1, DInvIs DEF Placed
    <2>3. Record(c)
      BY <2>1, <2>2, ReturnedRecord
    <2>4. QED
      BY <2>1, <2>3, RestFootprint DEF Untouched, Effect
  <1>2. CASE DropApply(c)
    <2>1. /\ Others(c) /\ UNCHANGED <<target, runtime, state, stores, docs, faults>>
          /\ calls[c].pc \in {"spawned", "saving", "saved", "loading", "loaded"}
          /\ Returned(calls[c], calls'[c], "dropped") /\ queue' = Withdrawn(c)
      BY <1>2, DInvIs, DropApplyIs, OnlyOthers
    <2>2. calls[c].api # "shutdown" /\ (calls[c].api = "apply" => calls[c].pc = "spawned")
      BY <2>1, DInvIs DEF Placed
    <2>3. Record(c)
      BY <2>1, <2>2, ReturnedRecord
    <2>4. queue' = queue
      <3>1. ASSUME NEW i \in 1 .. Len(queue), queue[i].call = c PROVE FALSE
        <4>1. Awaits(queue[i].op, calls[c])
          BY <3>1, DInvIs DEF RInv, Waiting
        <4>2. QED
          BY <2>1, <2>2, <4>1 DEF Awaits
      <3>2. QED
        BY <2>1, <3>1, DInvIs, WithdrawnIs
    <2>5. QED
      BY <2>1, <2>3, <2>4, RestFootprint DEF Untouched, Effect
  <1>3. QED
    BY <1>1, <1>2

\* A change of the configuration interrupts the answer, as a restart would.
LEMMA ConfigureFootprint ==
    ASSUME DInv, NEW c \in Calls, ApplySamePersona(c)
    PROVE  Footprint(c)
  <1> DEFINE s == state.session
             q == Ended(s, "interrupted")
             cfg == calls[c].n
  <1>1. /\ Others(c) /\ Goes(calls[c], calls'[c]) /\ calls'[c].out = calls[c].out
        /\ calls[c].api = "apply" /\ calls[c].pc = "spawned" /\ Accepted(c)
        /\ calls'[c].pc = "persist_weak" /\ calls'[c].then = "applied"
        /\ state'.shutting_down = state.shutting_down /\ state'.switching = FALSE
        /\ runtime'.persona = runtime.persona /\ UNCHANGED <<target, stores, docs, queue, faults>>
    BY DInvIs, ApplySamePersonaIs, OnlyOthers DEF StateReads, Reads
  <1>2. ~state.shutting_down
    BY <1>1 DEF Accepted
  <1>3. q \in Sessions /\ Ages(s, q) /\ Settle(q.turns) = Settle(s.turns)
    <2>1. Ages(s, q) /\ q.turns = Closed(s.turns, "interrupted")
      BY DInvIs, EndedAges DEF Terminal
    <2>2. QED
      BY <2>1, DInvIs, SettleClosed DEF Ages
  <1>4. Effect(q, state.persist_revision)
    <2>1. cfg \in Nat
      BY DInvIs DEF CallRecords
    <2>2. state' = [Aborted(state) EXCEPT
                       !.session = q, !.pending_voice = NoVoice, !.pending_cfg = cfg, !.switching = FALSE]
      BY DEF ApplySamePersona, Interrupted
    <2> HIDE DEF q, cfg
    <2>3. QED
      BY <1>3, <2>1, <2>2, DInvIs, NoVoiceTyped, NoRequestTyped, StateEffect
  <1>5. Record(c)
    <2>1. Placed(state, calls[c]) /\ calls[c].out # "ok"
      BY <1>1, DInvIs DEF Placed
    <2> DEFINE r == calls[c]
               k == calls'[c]
    <2>2. /\ r.pc = "spawned" /\ r.api = "apply" /\ k.api = r.api /\ k.persona = r.persona /\ k.out = r.out
          /\ k.pc = "persist_weak" /\ k.then = "applied" /\ r.out # "ok" /\ Placed(state, r)
      BY <1>1, <2>1 DEF Goes
    <2> HIDE DEF r, k
    <2>3. Placed(state', k)
      BY <2>2 DEF Placed, Edits
    <2>4. QED
      BY <2>2, <2>3 DEF Record, r, k
  <1>6. Quietly
    BY <1>1, <1>3, <1>4, DInvIs, OwedKept DEF Quietly, Effect
  <1> HIDE DEF q
  <1>7. QED
    BY <1>1, <1>2, <1>3, <1>4, <1>5, <1>6, DInvIs DEF Footprint, Effect

\* Nothing switches.
LEMMA NoSwitch ==
    ASSUME DInv, NEW c \in Calls,
           \/ ApplySwitch(c) \/ ApplyLoad(c) \/ ApplySaveFailed(c)
           \/ ApplyInstall(c) \/ ApplyDiscard(c)
    PROVE  FALSE
  BY DInvIs DEF Placed, ApplySwitch, Accepted, ApplyLoad, ApplySaveFailed, ApplyInstall, ApplyDiscard, At

LEMMA SendFootprint ==
    ASSUME DInv, NEW c \in Calls, SendStep(c)
    PROVE  Footprint(c)
  <1> DEFINE s == state.session
  <1>0. calls[c].api = "send" /\ calls[c].pc \in {"input", "cloned", "streaming", "ending"}
    BY DEF SendStep, SendClone, SendStart, StreamEvent, StreamClosed, SendEnd, At
  <1>1. CASE SendClone(c) \/ StreamClosed(c)
    <2>1. /\ Others(c) /\ calls'[c].api = calls[c].api /\ calls'[c].out = calls[c].out
          /\ UNCHANGED <<target, runtime, state, stores, docs, queue, faults>>
      BY <1>1, DInvIs, SendCloneIs, StreamClosedIs, OnlyOthers DEF Goes
    <2>2. Record(c)
      BY <1>0, <2>1, MovedRecord DEF Edits
    <2>3. QED
      BY <1>0, <2>1, <2>2, RestFootprint DEF Untouched, Effect
  <1>2. CASE SendStart(c)
    <2>1. /\ Others(c) /\ UNCHANGED <<target, runtime, stores, docs, queue, faults>>
          /\ state'.switching = state.switching /\ state'.shutting_down = state.shutting_down
      BY <1>2, DInvIs, SendStartIs, OnlyOthers DEF StateReads, SameReads, Reads
    <2>2. CASE ~MayStart(c)
      <3>1. state' = state /\ Returned(calls[c], calls'[c], "error")
        BY <1>2, <2>2, DInvIs, StateIs, ReturnIs DEF SendStart, Outs
      <3>2. Record(c)
        BY <1>0, <3>1, ReturnedRecord
      <3>3. QED
        BY <1>0, <2>1, <3>1, <3>2, RestFootprint DEF Untouched, Effect
    <2>3. CASE MayStart(c)
      <3> DEFINE q == Started(s)
                 r == RequestOf(c)
      <3>1. calls'[c].api = calls[c].api /\ calls'[c].out = calls[c].out /\ calls'[c].pc = "persist"
        <4>1. ~Returned(calls[c], calls'[c], "error")
          <5>1. calls'[c].pc = "persist"
            <6>1. calls' = [calls EXCEPT ![c].rid = s.responses + 1, ![c].pc = "persist", ![c].then = "streaming"]
              BY <1>2, <2>3 DEF SendStart
            <6> DEFINE rid == s.responses + 1
                       k == [calls[c] EXCEPT !.rid = rid, !.pc = "persist", !.then = "streaming"]
            <6>2. calls' = [calls EXCEPT ![c] = k]
              BY <6>1
            <6>3. k.pc = "persist"
              <7> HIDE DEF rid
              <7>1. QED
                BY DInvIs DEF CallRecords
            <6> HIDE DEF k
            <6>4. calls'[c] = k
              BY <6>2, DInvIs, StateIs
            <6>5. QED
              BY <6>3, <6>4
          <5>2. QED
            BY <5>1 DEF Returned
        <4>2. QED
          BY <1>2, <4>1, DInvIs, SendStartIs
      <3>2. Ages(s, q) /\ q \in Sessions
        BY <2>3, DInvIs, StartedAges DEF MayStart, Ages
      <3>3. Effect(q, state.persist_revision)
        <4>1. r \in Requests
          BY DInvIs, StateIs DEF RequestOf, Requests, CallRecords, Clones, Sessions
        <4>2. state' = [state EXCEPT !.session = q, !.pending_voice = NoVoice, !.active_request = r]
          BY <1>2, <2>3 DEF SendStart, RequestOf
        <4> HIDE DEF q, r
        <4>3. QED
          BY <3>2, <4>1, <4>2, DInvIs, NoVoiceTyped, StateEffect
      <3>4. Record(c)
        BY <1>0, <3>1, MovedRecord DEF Edits
      <3>5. QED
        BY <1>0, <2>1, <2>3, <3>1, <3>2, <3>3, <3>4, OwingFootprint DEF MayStart
    <2>4. QED
      BY <2>2, <2>3
  <1>3. CASE StreamEvent(c) \/ SendEnd(c)
    <2>1. /\ Others(c) /\ UNCHANGED <<target, runtime, stores, docs, queue, faults>>
          /\ state'.switching = state.switching /\ state'.shutting_down = state.shutting_down
          /\ \/ Returned(calls[c], calls'[c], "ended")
             \/ calls'[c].api = calls[c].api /\ calls'[c].out = calls[c].out
      BY <1>3, DInvIs, StreamEventIs, SendEndIs, OnlyOthers DEF StateReads, SameReads, EndReads, Reads, Goes
    <2>2. Record(c)
      BY <1>0, <2>1, MovedRecord, ReturnedRecord DEF Edits
    <2>3. CASE state' = state
      BY <1>0, <2>1, <2>2, <2>3, RestFootprint DEF Untouched, Effect
    <2>4. ASSUME NEW st \in {"complete", "failed"}, calls'[c].pc = "persist",
                 state' = [Aborted(state) EXCEPT !.session = Ended(@, st)]
          PROVE  Footprint(c)
      <3> DEFINE q == Ended(s, st)
      <3>1. Ages(s, q) /\ q \in Sessions /\ (s.active = 0 => q.turns = s.turns)
        BY DInvIs, EndedAges DEF Terminal, Ages
      <3>2. Effect(q, state.persist_revision)
        <4>1. Aborted(state).session = s
          BY DInvIs, AbortedState
        <4>2. state' = [Aborted(state) EXCEPT !.session = q]
          BY <2>4, <4>1
        <4> HIDE DEF q
        <4>3. QED
          BY <3>1, <4>2, DInvIs, NoVoiceTyped, NoRequestTyped, StateEffect
      <3>3. QED
        BY <1>0, <2>1, <2>2, <2>4, <3>1, <3>2, DInvIs, OwingFootprint
    <2>5. ASSUME NEW then \in {"ending", "ended"}, PersistThen(c, "persist", then) PROVE calls'[c].pc = "persist"
      BY <2>5, DInvIs, StateIs, ThenIs DEF PersistThen, Places
    <2>6. QED
      BY <1>3, <2>3, <2>4, <2>5 DEF StreamEvent, SendEnd, EndState
  <1>4. QED
    BY <1>1, <1>2, <1>3 DEF SendStep

LEMMA VoiceFootprint ==
    ASSUME DInv, NEW c \in Calls, VoiceStep(c)
    PROVE  Footprint(c)
  <1> DEFINE s == state.session
  <1>1. CASE VoiceStarted(c)
    <2> DEFINE q == Ended(s, "voice")
               voice == [utterance |-> calls[c].n, rev |-> calls[c].rt.rev, persona |-> calls[c].rt.persona]
               refused == state.shutting_down \/ state.pending_voice.utterance >= calls[c].n
    <2>1. /\ Others(c) /\ UNCHANGED <<target, runtime, stores, docs, queue, faults>>
          /\ state'.switching = state.switching /\ state'.shutting_down = state.shutting_down
          /\ calls[c].api = "voice" /\ calls[c].pc = "cloned"
          /\ \/ Returned(calls[c], calls'[c], "none")
             \/ /\ calls'[c].api = calls[c].api /\ calls'[c].out = calls[c].out
                /\ s.active # 0 => calls'[c].pc = "persist"
      BY <1>1, DInvIs, VoiceStartedIs DEF StateReads, SameReads, OutdatedReads, Reads, Goes
    <2>2. Record(c)
      BY <2>1, MovedRecord, ReturnedRecord DEF Edits
    <2>3. CASE refused
      <3>1. state' = state
        BY <1>1, <2>3 DEF VoiceStarted
      <3>2. QED
        BY <2>1, <2>2, <3>1, RestFootprint DEF Untouched, Effect
    <2>4. CASE ~refused
      <3>1. Ages(s, q) /\ q \in Sessions /\ (s.active = 0 => q.turns = s.turns)
        BY DInvIs, EndedAges DEF Terminal, Ages
      <3>2. Effect(q, state.persist_revision)
        <4>1. NewRequests(Aborted(state)).session = s
          BY DInvIs, NewRequestsIs
        <4>2. voice \in Voices
          BY DInvIs DEF CallRecords, Clones, Voices
        <4>3. state' = [NewRequests(Aborted(state)) EXCEPT !.pending_voice = voice, !.session = q]
          BY <1>1, <2>4, <4>1 DEF VoiceStarted
        <4> HIDE DEF q, voice
        <4>4. QED
          BY <3>1, <4>2, <4>3, DInvIs, NoRequestTyped, StateEffect
      <3>3. calls'[c].pc # "persist" => q.turns = s.turns
        <4>1. ~Returned(calls[c], calls'[c], "none")
          <5>1. calls'[c].then = "ended" /\ calls'[c].pc \in {"persist", "ended"}
            <6> DEFINE pc == IF s.active # 0 THEN "persist" ELSE "ended"
                       k == [calls[c] EXCEPT !.pc = pc, !.then = "ended"]
            <6>1. Outdate(calls)[c] = calls[c] /\ Outdate(calls) = [d \in Calls |-> Outdate(calls)[d]]
              BY <2>1 DEF Outdate
            <6>2. calls' = [Outdate(calls) EXCEPT ![c].pc = pc, ![c].then = "ended"]
              BY <1>1, <2>4 DEF VoiceStarted
            <6> DEFINE o == Outdate(calls)
            <6>3. o = [d \in Calls |-> o[d]] /\ o[c] = calls[c]
              BY <6>1
            <6>4. calls'[c] = k
              <7> HIDE DEF o, pc
              <7>1. QED
                BY <6>2, <6>3 DEF o
            <6>5. pc \in {"persist", "ended"}
              OBVIOUS
            <6>6. k.pc = pc /\ k.then = "ended"
              <7> HIDE DEF pc
              <7>1. QED
                BY DInvIs DEF CallRecords
            <6> HIDE DEF k
            <6>7. QED
              BY <6>4, <6>5, <6>6
          <5>2. QED
            BY <5>1 DEF Returned
        <4>2. QED
          BY <2>1, <3>1, <4>1
      <3>4. QED
        BY <2>1, <2>2, <3>1, <3>2, <3>3, DInvIs, OwingFootprint
    <2>5. QED
      BY <2>3, <2>4
  <1>2. CASE TakeTranscript(c)
    <2>1. /\ Others(c) /\ UNCHANGED <<target, runtime, stores, docs, queue, faults>>
          /\ state'.switching = state.switching /\ state'.shutting_down = state.shutting_down
          /\ calls[c].api = "take" /\ calls[c].pc = "cloned"
          /\ Returned(calls[c], calls'[c], "none") \/ Returned(calls[c], calls'[c], "accepted")
      BY <1>2, DInvIs, TakeTranscriptIs, OnlyOthers DEF VoiceReads, StateReads, Reads
    <2>2. Record(c)
      BY <2>1, ReturnedRecord
    <2>3. Untouched
      <3>1. state' = state \/ state' = [state EXCEPT !.pending_voice = NoVoice]
        BY <1>2 DEF TakeTranscript
      <3>2. QED
        BY <3>1, DInvIs, StateIs, NoVoiceTyped DEF States, Untouched, Effect
    <2>4. QED
      BY <2>1, <2>2, <2>3, RestFootprint
  <1>3. QED
    BY <1>1, <1>2 DEF VoiceStep

\* A change of a document whose persona is not selected.
LEMMA ElsewhereFootprint ==
    ASSUME DInv, NEW c \in Calls, EditElsewhere(c)
    PROVE  Footprint(c)
  <1>1. /\ Others(c) /\ Goes(calls[c], calls'[c]) /\ calls'[c].out = calls[c].out
        /\ calls[c].api \in Edits /\ calls[c].pc = "cloned" /\ calls'[c].pc = "waiting"
        /\ queue' = Append(queue, OpOf(calls[c].api, c))
        /\ UNCHANGED <<target, runtime, state, stores, docs, faults>>
    BY DInvIs, EditElsewhereIs, OnlyOthers
  <1>2. calls[c].persona # FirstPersona /\ calls[c].out # "ok"
    BY <1>1, DInvIs DEF EditElsewhere, Placed
  <1>3. Record(c)
    <2> DEFINE q == calls'[c]
               r == calls[c]
    <2>1. /\ q.api = r.api /\ q.persona = r.persona /\ q.out = r.out /\ q.pc = "waiting"
          /\ r.pc = "cloned" /\ r.api \in Edits /\ r.persona # FirstPersona /\ r.out # "ok"
      BY <1>1, <1>2 DEF Goes
    <2> HIDE DEF q, r
    <2>2. Placed(state', q)
      BY <2>1 DEF Placed, Edits
    <2>3. QED
      BY <2>1, <2>2 DEF Record, q, r, Edits
  <1>4. QED
    BY <1>1, <1>2, <1>3, DInvIs, AgesSame DEF Footprint, Elsewhere

\* The running session is changed and saved.
LEMMA EditedFootprint ==
    ASSUME DInv, NEW c \in Calls, SaveAndWait(c, "error"), calls[c].api \in Edits, calls[c].pc = "cloned",
           calls[c].persona = FirstPersona, EndReads, state'.store = state.store,
           NEW q \in Sessions, Ages(state.session, q), Effect(q, state.persist_revision + 1),
           calls[c].api = "delete" => calls[c].n < q.next /\ ~Has(q.turns, calls[c].n),
           UNCHANGED <<target, runtime, stores, docs, faults>>
    PROVE  Footprint(c)
  <1>1. /\ Others(c) /\ state'.session = q /\ state'.persist_revision = state.persist_revision + 1
        /\ state'.switching = state.switching /\ state'.shutting_down = state.shutting_down
        /\ state'.store = state.store /\ Waits(c)
        /\ IF Store.ok THEN calls'[c].pc = "waiting" ELSE queue' = queue
    <2>1. Waits(c)
      BY DInvIs, SaveAndWaitIs
    <2>2. IF Store.ok THEN Goto(c, "waiting") ELSE queue' = queue
      BY DInvIs DEF SaveAndWait, EnqueueSave, StoreOf
    <2>3. Store.ok => calls'[c].pc = "waiting"
      BY <2>2, DInvIs, StateIs, GotoIs DEF Places
    <2>4. QED
      BY <2>1, <2>2, <2>3, OnlyOthers DEF Waits, Effect, EndReads, StateReads, Reads
  <1>2. CASE /\ Store.ok /\ queue' = Append(queue, SaveOf(state', c))
             /\ Goes(calls[c], calls'[c]) /\ calls'[c].out = calls[c].out /\ calls'[c].pc = "waiting"
    <2>1. Record(c)
      <3> DEFINE k == calls'[c]
                 r == calls[c]
      <3>1. /\ k.api = r.api /\ k.persona = r.persona /\ k.out = r.out /\ k.pc = "waiting" /\ k.n = r.n
            /\ r.pc = "cloned" /\ r.api \in Edits /\ r.persona = FirstPersona /\ Placed(state, r)
            /\ r.api = "delete" => r.n < q.next /\ ~Has(q.turns, r.n)
        BY <1>2, DInvIs DEF Goes
      <3> HIDE DEF k, r
      <3>2. r.out # "ok"
        BY <3>1 DEF Placed
      <3>3. Placed(state', k)
        BY <3>1, <3>2 DEF Placed, Edits
      <3>4. k.api = "delete" => DeletedHere(state', Store, k)
        BY <1>1, <1>2, <3>1 DEF DeletedHere
      <3>5. QED
        BY <3>1, <3>3, <3>4 DEF Record, k, r
    <2>2. Saves(c)
      BY <1>1, <1>2 DEF Saves, Goes
    <2>3. QED
      BY <1>1, <2>1, <2>2, DInvIs DEF Footprint
  <1>3. CASE ~Store.ok /\ queue' = queue /\ Returned(calls[c], calls'[c], "error")
    <2>1. Record(c)
      BY <1>3, ReturnedRecord DEF Edits
    <2>2. Quietly
      BY <1>1, <1>3, DInvIs DEF Quietly
    <2>3. QED
      BY <1>1, <2>1, <2>2, DInvIs DEF Footprint
  <1>4. QED
    <2>1. ~(calls'[c].pc = "waiting" /\ calls'[c].pc = "done")
      OBVIOUS
    <2>2. QED
      BY <1>1, <1>2, <1>3, <2>1, DInvIs DEF Waits, Returned

LEMMA EditFootprint ==
    ASSUME DInv, NEW c \in Calls, EditHere(c)
    PROVE  Footprint(c)
  <1> DEFINE p == runtime.persona
             s == state.session
             a == Aborted(state)
             api == calls[c].api
             n == calls[c].n
             q == Ended(s, "interrupted")
             quiet == [a EXCEPT !.session = q]
             turns == Mutated(api, q.turns, n)
             m == [q EXCEPT !.turns = turns]
             edited == [quiet EXCEPT !.session = m]
  <1>1. /\ api \in Edits /\ calls[c].pc = "cloned" /\ EndReads /\ state'.store = state.store
        /\ UNCHANGED <<target, runtime, stores, docs, faults>>
    BY DInvIs, EditHereIs
  <1>2. calls[c].persona = FirstPersona
    BY <1>1, DInvIs DEF EditHere, Placed
  <1>3. /\ QuietSession(q, p) /\ q \in Sessions /\ Ages(s, q) /\ q.next = s.next
        /\ q.turns = Closed(s.turns, "interrupted")
    BY DInvIs, EndedQuiet, EndedAges, StateIs DEF Terminal, QuietSession, GoodSession
  <1>4. a \in States /\ a.session = s
    BY DInvIs, AbortedReads, AbortedState
  <1>5. quiet \in States /\ quiet.session = q
    <2> HIDE DEF a, q
    <2>1. QED
      BY <1>3, <1>4 DEF States
  <1>6. CASE ~Has(q.turns, n)
    <2>1. state' = quiet /\ Return(c, "error") /\ UNCHANGED queue /\ "error" \in Outs
      BY <1>4, <1>5, <1>6 DEF EditHere, Outs
    <2>2. Only(c) /\ Returned(calls[c], calls'[c], "error") /\ Others(c)
      BY <2>1, DInvIs, StateIs, ReturnIs, OnlyOthers
    <2>3. Record(c)
      BY <1>1, <2>2, ReturnedRecord DEF Edits
    <2>4. Effect(q, state.persist_revision)
      <3> HIDE DEF q
      <3>1. QED
        BY <1>3, <2>1, DInvIs, NoVoiceTyped, NoRequestTyped, StateEffect
    <2>5. Settle(q.turns) = Settle(s.turns)
      BY <1>3, DInvIs, SettleClosed
    <2> HIDE DEF q, quiet, a
    <2>6. Quietly
      BY <1>1, <2>1, <2>2, <2>4, <2>5, DInvIs, OwedKept DEF Quietly, Effect
    <2>7. QED
      BY <1>1, <1>3, <2>2, <2>3, <2>4, <2>6, DInvIs DEF Footprint, Effect, EndReads, StateReads, Reads
  <1>7. CASE Has(q.turns, n)
    <2>1. /\ GoodTurns(q.turns, p) /\ Streaming(q.turns) = {} /\ \A t \in q.turns : t.id < q.next
      BY <1>3 DEF QuietSession, GoodSession
    <2>2. GoodTurns(turns, p) /\ \A t \in turns : \E u \in q.turns : t.id = u.id
      <3> HIDE DEF q, api, n
      <3>1. QED
        BY <2>1, MutatedTurns
    <2>3. turns \in SUBSET Turns
      BY <2>2 DEF GoodTurns
    <2>4. m \in Sessions /\ m.turns = turns /\ m.next = q.next
      <3> HIDE DEF q, turns
      <3>1. QED
        BY <1>3, <2>3 DEF Sessions
    <2>5. Ages(s, m)
      <3> HIDE DEF q, turns, m
      <3>1. QED
        BY <1>3, <2>2, <2>4 DEF Ages, Has
    <2>6. api = "delete" => n < m.next /\ ~Has(m.turns, n)
      <3>1. n < q.next
        <4> HIDE DEF q, n
        <4>1. QED
          BY <1>7, <2>1 DEF Has
      <3>2. api = "delete" => ~Has(turns, n)
        <4> HIDE DEF q, n, api
        <4>1. QED
          BY DEF Has, Mutated
      <3> HIDE DEF q, n, api, turns, m
      <3>3. QED
        BY <2>4, <3>1, <3>2
    <2>7. state' = Bumped(edited) /\ SaveAndWait(c, "error")
      BY <1>4, <1>5, <1>7 DEF EditHere
    <2>8. edited = [a EXCEPT !.session = m]
      <3> HIDE DEF a, q, m
      <3>1. QED
        BY <1>4 DEF States
    <2>9. Effect(m, state.persist_revision + 1)
      <3> HIDE DEF q, m, edited
      <3>1. state' = Bumped([Aborted(state) EXCEPT !.session = m])
        BY <2>7, <2>8 DEF a
      <3>2. QED
        BY <2>4, <3>1, DInvIs, BumpedEffect
    <2> HIDE DEF m
    <2>10. QED
      BY <1>1, <1>2, <2>4, <2>5, <2>6, <2>7, <2>9, EditedFootprint
  <1>8. QED
    BY <1>6, <1>7

LEMMA ClearFootprint ==
    ASSUME DInv, NEW c \in Calls, ClearHere(c)
    PROVE  Footprint(c)
  <1> DEFINE s == state.session
             a == Aborted(state)
             m == [[s EXCEPT !.turns = {}] EXCEPT !.active = 0]
  <1>1. /\ calls[c].api = "clear" /\ calls[c].api \in Edits /\ calls[c].pc = "cloned" /\ EndReads
        /\ state'.store = state.store /\ UNCHANGED <<target, runtime, stores, docs, faults>>
    BY DInvIs, ClearHereIs DEF ClearHere, At
  <1>2. calls[c].persona = FirstPersona
    BY <1>1, DInvIs DEF ClearHere, Placed
  <1>3. m \in Sessions /\ m.turns = {} /\ m.next = s.next /\ s.next \in Nat
    BY DInvIs, StateIs DEF Sessions
  <1>4. Ages(s, m)
    <2> HIDE DEF m
    <2>1. QED
      BY <1>3 DEF Ages
  <1>5. state' = Bumped([a EXCEPT !.session = m]) /\ SaveAndWait(c, "error")
    <2>1. a.session = s
      BY DInvIs, AbortedState
    <2>2. QED
      BY <2>1 DEF ClearHere
  <1> HIDE DEF m
  <1>6. Effect(m, state.persist_revision + 1)
    BY <1>3, <1>5, DInvIs, BumpedEffect
  <1>7. QED
    BY <1>1, <1>2, <1>3, <1>4, <1>5, <1>6, EditedFootprint

LEMMA AdvanceFootprint == ASSUME DInv, NEW c \in Calls, Advance(c) PROVE Footprint(c)
  <1>1. CASE Persist(c) \/ Finish(c)
    BY <1>1, PersistFootprint, ReturnFootprint
  <1>2. CASE ApplyStep(c)
    BY <1>2, ReturnFootprint, ConfigureFootprint, NoSwitch DEF ApplyStep
  <1>3. CASE SendStep(c) \/ VoiceStep(c)
    BY <1>3, SendFootprint, VoiceFootprint
  <1>4. CASE EditStep(c)
    BY <1>4, ElsewhereFootprint, EditFootprint, ClearFootprint DEF EditStep
  <1>5. QED
    BY <1>1, <1>2, <1>3, <1>4 DEF Advance

-----------------------------------------------------------------------------
(* A step of one call preserves the invariant.                             *)

LEMMA PlacedKept ==
    ASSUME NEW s, NEW s2, NEW r, NEW q, Kept(r, q), Placed(s, r), s.shutting_down => s2.shutting_down
    PROVE  Placed(s2, q)
  BY DEF Kept, Placed

\* A call that takes a step does not wait for an operation.
LEMMA NotQueued ==
    ASSUME DInv, NEW c \in Calls, calls[c].pc \notin {"waiting", "done"}, NEW i \in 1 .. Len(queue)
    PROVE  queue[i].call # c
  <1>1. SUFFICES ASSUME queue[i].call = c PROVE FALSE
    OBVIOUS
  <1>2. Awaits(queue[i].op, calls[c])
    BY <1>1, DInvIs DEF RInv, Waiting
  <1>3. QED
    BY <1>2, DInvIs DEF Awaits, Placed

LEMMA SettledStep ==
    ASSUME DInv, RInv', NEW c \in Calls, Footprint(c)
    PROVE  Settled(target', runtime', stores', state', calls')
  <1>1. ASSUME NEW d \in Calls PROVE Placed(state', calls'[d])
    <2>1. CASE d = c
      BY <2>1 DEF Footprint, Record
    <2>2. CASE d # c
      BY <2>2, DInvIs, PlacedKept DEF Footprint, Others
    <2>3. QED
      BY <2>1, <2>2
  <1>2. Settled(target, runtime, stores, state, calls)
    BY DEF DInv
  <1>3. QED
    BY <1>1, <1>2 DEF Footprint, Settled

\* The numbers and ids that operations in the queue are compared with.
LEMMA Bounds ==
    ASSUME DInv
    PROVE  /\ state.persist_revision \in Nat /\ state.session.next \in Nat /\ Len(queue) \in Nat
           /\ Store \in Stores
           /\ \A t \in state.session.turns : t.id \in Nat /\ t.id < state.session.next
           /\ \A i \in 1 .. Len(queue) :
                  /\ queue[i].n \in Nat /\ \A t \in queue[i].turns : t.id \in Nat
                  /\ queue[i] \in Operations
  <1>1. /\ state.persist_revision \in Nat /\ state.session.next \in Nat /\ Len(queue) \in Nat
        /\ \A t \in state.session.turns : t.id \in Nat /\ t.id < state.session.next
    BY DInvIs, QueueLen, StateIs DEF States, Sessions, GoodSession, Turns
  <1>2. Store \in Stores
    BY DInvIs DEF IInv, StoresOK, Store
  <1>3. ASSUME NEW i \in 1 .. Len(queue) PROVE queue[i] \in Operations
    BY DInvIs, <1>3 DEF IInv, QueueOK, GoodOps
  <1>4. ASSUME NEW op \in Operations PROVE op.n \in Nat /\ \A t \in op.turns : t.id \in Nat
    BY DEF Operations, Turns
  <1>5. QED
    BY <1>1, <1>2, <1>3, <1>4

LEMMA BoundsNext ==
    ASSUME DInv, RInv'
    PROVE  /\ state'.persist_revision \in Nat /\ state'.session.next \in Nat
           /\ \A t \in state'.session.turns : t.id \in Nat /\ t.id < state'.session.next
  <1>1. IInv'
    BY DEF RInv
  <1>2. state' \in States /\ GoodSession(state'.session)
    BY <1>1 DEF IInv, StateOK, GoodState
  <1>3. QED
    BY <1>2 DEF States, Sessions, GoodSession, GoodTurns, Turns

LEMMA QueuedKept ==
    ASSUME DInv, RInv', NEW c \in Calls, Footprint(c), NEW i \in 1 .. Len(queue),
           state.persist_revision <= state'.persist_revision
    PROVE  Queued(queue[i], state', Store, calls')
  <1> DEFINE op == queue[i]
  <1>1. Queued(op, state, Store, calls) /\ op.call # c
    BY NotQueued DEF DInv, Lined, Store, Footprint, Record
  <1>2. op.call \in Calls => /\ calls'[op.call].api = calls[op.call].api
                             /\ calls'[op.call].n = calls[op.call].n
                             /\ calls'[op.call].persona = calls[op.call].persona
    BY <1>1 DEF Footprint, Others, Kept
  <1>3. op.n \in Nat /\ \A t \in op.turns : t.id \in Nat
    BY Bounds
  <1>4. state.session.next <= state'.session.next
    BY DEF Footprint, Ages
  <1> HIDE DEF op
  <1>5. ASSUME IsSave(op) PROVE Queued(op, state', Store, calls')
    BY <1>1, <1>2, <1>3, <1>4, <1>5, Bounds, BoundsNext DEF Queued
  <1>6. ASSUME ~IsSave(op) PROVE Queued(op, state', Store, calls')
    BY <1>1, <1>2, <1>6 DEF Queued
  <1>7. QED
    BY <1>5, <1>6 DEF op

\* The operation that the step reserves.
LEMMA SavedQueued ==
    ASSUME DInv, RInv', NEW c \in Calls, Footprint(c), Saves(c),
           NEW a \in {c, Background}, NEW op, op = SaveOf(state', a)
    PROVE  /\ Queued(op, state', Store, calls') /\ IsSave(op) /\ op.turns = state'.session.turns
           /\ op.n = state.persist_revision + 1 /\ op.call = a
  <1>1. /\ op.op = "save" /\ op.call = a /\ op.persona = FirstPersona /\ op.store = 1
        /\ op.n = state'.persist_revision /\ op.turns = state'.session.turns
    BY DEF SaveOf, StoreOf, Footprint, DInv, Settled
  <1>2. Store.tried <= state.persist_revision /\ Store.tried \in Nat
    BY Bounds DEF DInv, Lined, Store, Stores
  <1>3. state'.persist_revision = state.persist_revision + 1 /\ Store.ok
    BY DEF Saves
  <1>4. Background \notin Calls
    BY AgentAssumption
  <1>5. (op.call \in Calls /\ calls'[op.call].api \in Edits) => calls'[op.call].persona = FirstPersona
    BY <1>1, <1>4 DEF Saves
  <1>6. QED
    BY <1>1, <1>2, <1>3, <1>5, Bounds, BoundsNext DEF Queued, IsSave

LEMMA ElsewhereQueued ==
    ASSUME DInv, NEW c \in Calls, Elsewhere(c), NEW op, op = OpOf(calls[c].api, c)
    PROVE  Queued(op, state', Store, calls') /\ ~IsSave(op) /\ op.call = c
  <1>1. op.op = calls[c].api /\ op.call = c /\ op.persona = calls[c].persona /\ op.n = calls[c].n
    BY DEF OpOf
  <1>2. QED
    BY <1>1 DEF Elsewhere, Goes, Queued, IsSave, Edits

LEMMA LinedStep ==
    ASSUME DInv, RInv', NEW c \in Calls, Footprint(c)
    PROVE  Lined(queue', state', Store, calls')
  <1>1. Lined(queue, state, Store, calls)
    BY DEF DInv, Store
  <1>2. state.persist_revision <= state'.persist_revision
    BY Bounds DEF Footprint, Quietly, Saves, Elsewhere
  <1>3. \A i \in 1 .. Len(queue) : Queued(queue[i], state', Store, calls')
    BY <1>2, QueuedKept
  <1>4. Store.latest <= Store.tried /\ Store.tried <= state'.persist_revision
    BY <1>1, <1>2, Bounds, BoundsNext DEF Lined, Stores
  <1>5. CASE Quietly
    BY <1>1, <1>3, <1>4, <1>5 DEF Quietly, Lined
  <1>6. ASSUME NEW op, queue' = Append(queue, op), Queued(op, state', Store, calls'),
               IsSave(op) => op.n = state.persist_revision + 1
        PROVE  Lined(queue', state', Store, calls')
    <2>1. /\ Len(queue') = Len(queue) + 1 /\ queue'[Len(queue) + 1] = op /\ Len(queue) \in Nat
          /\ \A i \in 1 .. Len(queue) : queue'[i] = queue[i]
      BY <1>6, DInvIs, AppendIs, Bounds
    <2>2. \A i \in 1 .. Len(queue') : Queued(queue'[i], state', Store, calls')
      BY <1>3, <1>6, <2>1
    <2>3. ASSUME NEW i \in 1 .. Len(queue'), NEW j \in 1 .. Len(queue'), i < j,
                 IsSave(queue'[i]), IsSave(queue'[j])
          PROVE  queue'[i].n < queue'[j].n
      <3>1. i \in 1 .. Len(queue) /\ queue'[i] = queue[i] /\ IsSave(queue[i])
        BY <2>1, <2>3
      <3>2. CASE j \in 1 .. Len(queue)
        BY <1>1, <2>1, <2>3, <3>1, <3>2 DEF Lined
      <3>3. CASE j = Len(queue) + 1
        <4>1. queue[i].n <= state.persist_revision /\ queue[i].n \in Nat
          BY <1>1, <3>1, Bounds DEF Lined, Queued
        <4>2. QED
          BY <1>6, <2>1, <2>3, <3>1, <3>3, <4>1, Bounds
      <3>4. QED
        BY <2>1, <3>2, <3>3
    <2>4. QED
      BY <1>4, <2>2, <2>3 DEF Lined
  <1>7. CASE Saves(c)
    <2>1. PICK a \in {c, Background} : queue' = Append(queue, SaveOf(state', a))
      BY <1>7 DEF Saves
    <2>2. QED
      BY <1>6, <1>7, <2>1, SavedQueued
  <1>8. CASE Elsewhere(c)
    BY <1>6, <1>8, ElsewhereQueued DEF Elsewhere
  <1>9. QED
    BY <1>5, <1>7, <1>8 DEF Footprint

LEMMA DurableStep ==
    ASSUME DInv, RInv', NEW c \in Calls, Footprint(c)
    PROVE  Durable(queue', docs[FirstPersona], state', Store, calls', faults)
  <1> DEFINE doc == docs[FirstPersona]
             turns == state'.session.turns
  <1>1. SUFFICES ASSUME faults = 0, Store.ok, ~Owed(calls')
                 PROVE  CaughtUp(queue', doc, turns)
    BY DEF Durable, DInv
  <1>2. Owed(calls) \/ CaughtUp(queue, doc, state.session.turns)
    BY <1>1 DEF DInv, Durable, Store
  <1>3. CASE Quietly
    BY <1>1, <1>2, <1>3 DEF Quietly, CaughtUp
  <1>4. CASE Saves(c)
    <2>1. PICK a \in {c, Background} : queue' = Append(queue, SaveOf(state', a))
      BY <1>4 DEF Saves
    <2> DEFINE op == SaveOf(state', a)
    <2>2. IsSave(op) /\ op.turns = turns
      BY <1>4, SavedQueued
    <2> HIDE DEF op
    <2>3. Len(queue') = Len(queue) + 1 /\ queue'[Len(queue) + 1] = op /\ Len(queue) \in Nat
      BY <2>1, DInvIs, AppendIs, Bounds DEF op
    <2>4. QED
      BY <2>2, <2>3 DEF CaughtUp, NoSaves
  <1>5. CASE Elsewhere(c)
    <2> DEFINE op == OpOf(calls[c].api, c)
    <2>1. ~IsSave(op) /\ queue' = Append(queue, op)
      BY <1>5, ElsewhereQueued DEF Elsewhere
    <2>2. CaughtUp(queue, doc, turns)
      BY <1>1, <1>2, <1>5, OwedKept DEF Elsewhere, Footprint
    <2> HIDE DEF op, doc, turns
    <2>3. /\ Len(queue') = Len(queue) + 1 /\ queue'[Len(queue) + 1] = op /\ Len(queue) \in Nat
          /\ \A i \in 1 .. Len(queue) : queue'[i] = queue[i]
      BY <2>1, DInvIs, AppendIs, Bounds
    <2>4. QED
      BY <2>1, <2>2, <2>3 DEF CaughtUp, NoSaves
  <1>6. QED
    BY <1>3, <1>4, <1>5 DEF Footprint

\* What was deleted here stays deleted while the session goes on.
LEMMA DeletedKept ==
    ASSUME NEW s, NEW s2, NEW store, NEW r, NEW q, DeletedHere(s, store, r), q.n = r.n, r.n \in Nat,
           Ages(s.session, s2.session), s.session.next \in Nat, s2.session.next \in Nat
    PROVE  DeletedHere(s2, store, q)
  BY DEF DeletedHere, Ages, Has

LEMMA DeletedStep ==
    ASSUME DInv, RInv', NEW c \in Calls, Footprint(c)
    PROVE  Deleted(docs, state', Store, calls')
  <1>1. Deleted(docs, state, Store, calls)
    BY DEF DInv, Store
  <1>2. \A t \in docs[FirstPersona].turns : t.id < state'.session.next
    <2>1. \A t \in docs[FirstPersona].turns : t.id \in Nat
      BY DInvIs, AgentAssumption DEF IInv, DocsOK, GoodTurns, Turns
    <2>2. state.session.next <= state'.session.next
      BY DEF Footprint, Ages
    <2>3. QED
      BY <1>1, <2>1, <2>2, Bounds, BoundsNext DEF Deleted
  <1>3. ASSUME NEW d \in Calls, calls'[d].api = "delete"
        PROVE  /\ (calls'[d].persona = FirstPersona
                     /\ (calls'[d].pc = "waiting" \/ (calls'[d].pc = "done" /\ calls'[d].out = "ok")))
                     => DeletedHere(state', Store, calls'[d])
               /\ (calls'[d].persona # FirstPersona /\ calls'[d].pc = "done" /\ calls'[d].out = "ok")
                     => ~Has(docs[calls'[d].persona].turns, calls'[d].n)
    <2>1. CASE d = c
      BY <1>3, <2>1 DEF Footprint, Record
    <2>2. CASE d # c
      <3>1. Kept(calls[d], calls'[d])
        BY <2>2 DEF Footprint, Others
      <3>2. calls[d].n \in Nat
        BY DInvIs DEF CallRecords
      <3>3. DeletedHere(state, Store, calls[d]) => DeletedHere(state', Store, calls'[d])
        BY <3>1, <3>2, Bounds, BoundsNext, DeletedKept DEF Footprint, Kept
      <3>4. QED
        BY <1>1, <1>3, <3>1, <3>3 DEF Kept, Deleted
    <2>3. QED
      BY <2>1, <2>2
  <1>4. QED
    BY <1>2, <1>3 DEF Deleted

LEMMA CallDInv ==
    ASSUME DInv, RInv', NEW c \in Calls, Footprint(c)
    PROVE  DInv'
  <1>1. docs' = docs /\ stores' = stores /\ faults' = faults
    BY DEF Footprint
  <1>2. QED
    BY <1>1, SettledStep, LinedStep, DurableStep, DeletedStep DEF DInv, Store

-----------------------------------------------------------------------------
(* Serving the head of the queue preserves the invariant.                  *)

\* A restart and a change of a document keep the ids of its turns.
LEMMA RestoredTurns ==
    ASSUME NEW p \in Personas, NEW turns
    PROVE  Restored(p, turns).turns = Settle(turns)
  <1> DEFINE s == NoSession(p)
             closed == Closed(turns, "interrupted")
             next == IF turns = {} THEN 1
                     ELSE 1 + CHOOSE n \in {t.id : t \in turns} : \A t \in turns : t.id <= n
  <1>1. s \in Sessions
    BY NoSessionQuiet DEF QuietSession, GoodSession
  <1>2. Restored(p, turns) = [s EXCEPT !.turns = closed, !.next = next]
    BY Zenon DEF Restored, Closed
  <1> HIDE DEF s, closed, next
  <1>3. Restored(p, turns).turns = closed
    BY <1>1, <1>2 DEF Sessions
  <1>4. QED
    BY <1>3 DEF closed, Settle

LEMMA ChangedIds ==
    ASSUME NEW p \in Personas, NEW turns, GoodTurns(turns, p), NEW api, NEW n
    PROVE  \A t \in Mutated(api, Restored(p, turns).turns, n) : Has(turns, t.id)
  <1> DEFINE closed == Closed(turns, "interrupted")
  <1>1. GoodTurns(closed, p) /\ \A t \in closed : \E u \in turns : t.id = u.id
    BY ClosedTurns DEF Terminal
  <1>2. Restored(p, turns).turns = closed
    BY RestoredTurns DEF Settle
  <1> HIDE DEF closed
  <1>3. \A t \in Mutated(api, closed, n) : \E u \in closed : t.id = u.id
    BY <1>1, MutatedTurns
  <1>4. QED
    BY <1>1, <1>2, <1>3 DEF Has

\* The head of the queue and the call that waits for it.
Delivered(out) ==
    /\ Op.call \notin Calls => calls' = calls
    /\ Op.call \in Calls => /\ Only(Op.call) /\ calls[Op.call].pc = "waiting"
                            /\ Returned(calls[Op.call], calls'[Op.call], out)

\* A save is written or fails.
Written ==
    \/ /\ Delivered("ok") /\ faults' = faults
       /\ docs' = [docs EXCEPT ![FirstPersona] = Document(Op.turns)]
       /\ stores' = [stores EXCEPT ![1].latest = Op.n, ![1].tried = Op.n]
    \/ /\ Delivered("error") /\ faults' = faults + 1 /\ docs' = docs
       /\ stores' = [stores EXCEPT ![1].tried = Op.n]

\* A change of another persona's document is written or fails.
Changed ==
    /\ stores' = stores /\ faults' \in {faults, faults + 1}
    /\ \/ Delivered("error") /\ docs' = docs
       \/ /\ Delivered("ok") /\ Op.persona \in Personas
          /\ \E doc : /\ docs' = [docs EXCEPT ![Op.persona] = doc]
                      /\ \A t \in doc.turns : Has(docs[Op.persona].turns, t.id)
                      /\ Op.op = "delete" => ~Has(doc.turns, Op.n)

LEMMA HeadIs ==
    ASSUME DInv, Serve
    PROVE  /\ queue # <<>> /\ queue' = Tail(queue) /\ Op \in Operations
           /\ Op = queue[1] /\ 1 \in 1 .. Len(queue) /\ Queued(Op, state, Store, calls)
           /\ UNCHANGED <<target, runtime, state>>
  <1>1. IInv /\ Waiting(queue, calls)
    BY DInvIs DEF RInv
  <1>2. /\ queue # <<>> /\ queue' = Tail(queue) /\ Op \in Operations
        /\ UNCHANGED <<target, runtime, state>>
    BY <1>1, ServeIs
  <1>3. Op = queue[1] /\ 1 \in 1 .. Len(queue)
    BY <1>1, <1>2, TailIs, QueueLen
  <1>4. QED
    BY <1>2, <1>3 DEF DInv, Lined, Store

LEMMA DeliveredIs ==
    ASSUME DInv, Serve, NEW out \in {"ok", "error"}, Deliver(out)
    PROVE  Delivered(out)
  <1>1. Op \in Operations /\ Op = queue[1] /\ 1 \in 1 .. Len(queue) /\ Queued(Op, state, Store, calls)
    BY HeadIs
  <1>2. ASSUME Op.call \notin Calls PROVE calls' = calls
    <2>1. Op.call = Background
      BY <1>1, <1>2 DEF Operations, Actors
    <2>2. QED
      BY <2>1 DEF Deliver
  <1>3. ASSUME Op.call \in Calls
        PROVE  /\ Only(Op.call) /\ calls[Op.call].pc = "waiting"
               /\ Returned(calls[Op.call], calls'[Op.call], out)
    <2>1. Awaits(Op.op, calls[Op.call])
      BY <1>1, <1>3, DInvIs DEF RInv, Waiting
    <2>2. Placed(state, calls[Op.call])
      BY <1>3, DInvIs
    <2>3. Op.op # "load"
      BY <1>1 DEF Queued, IsSave, Edits
    <2>4. calls[Op.call].api # "apply" /\ calls[Op.call].pc = "waiting"
      BY <2>1, <2>2, <2>3 DEF Awaits, Placed
    <2>5. QED
      BY <1>1, <1>3, <2>4, DInvIs, DeliverIs DEF Outs
  <1>4. QED
    BY <1>2, <1>3 DEF Delivered

LEMMA WrittenIs ==
    ASSUME DInv, Serve, IsSave(Op)
    PROVE  Written
  <1>1. Queued(Op, state, Store, calls) /\ Op \in Operations
    BY HeadIs
  <1>2. /\ Op.persona = FirstPersona /\ Op.store = 1 /\ Store.tried < Op.n
        /\ Store.latest <= Store.tried /\ Op.n \in Nat /\ Store \in Stores
    BY <1>1, Bounds DEF Queued, DInv, Lined, Store, Operations
  <1>3. ShouldAttempt(stores[Op.store], Op.n)
    BY <1>2 DEF ShouldAttempt, Stores, Store
  <1>4. ServeSave
    BY DEF IsSave, Serve, Serving, ServeLoad, ServeEdit, ServeClear
  <1>5. CASE /\ Write(Op.persona, Document(Op.turns))
             /\ stores' = [stores EXCEPT ![Op.store].latest = Op.n, ![Op.store].tried = Op.n]
    BY <1>2, <1>5, DeliveredIs DEF Write, Written
  <1>6. CASE Fail("error") /\ stores' = [stores EXCEPT ![Op.store].tried = Op.n]
    BY <1>2, <1>6, DeliveredIs DEF Fail, Written
  <1>7. QED
    BY <1>3, <1>4, <1>5, <1>6 DEF ServeSave

LEMMA ChangedIs ==
    ASSUME DInv, Serve, ~IsSave(Op)
    PROVE  Changed
  <1> DEFINE p == Op.persona
             before == docs[p].turns
             turns == Restored(p, before).turns
             after == Mutated(Op.op, turns, Op.n)
  <1>1. Op.op \in Edits /\ p \in Personas /\ GoodTurns(before, p)
    BY HeadIs, DInvIs DEF Queued, Operations, IInv, DocsOK
  <1>2. ServeEdit \/ ServeClear
    BY <1>1 DEF Serve, Serving, ServeLoad, ServeSave, Edits
  <1>3. stores' = stores /\ faults' \in {faults, faults + 1}
    BY <1>2 DEF ServeEdit, ServeClear, Write, Fail
  <1>4. CASE Deliver("error") /\ docs' = docs
    BY <1>3, <1>4, DeliveredIs DEF Changed
  <1>5. CASE ServeEdit /\ Write(p, Document(after))
    <2>1. docs' = [docs EXCEPT ![p] = Document(after)] /\ Delivered("ok")
      BY <1>5, DeliveredIs DEF Write
    <2>2. \A t \in after : Has(before, t.id)
      BY <1>1, ChangedIds
    <2>3. Op.op = "delete" => ~Has(after, Op.n)
      <3>1. \A op, ts, n : op = "delete" => ~Has(Mutated(op, ts, n), n)
        BY DEF Has, Mutated
      <3>2. QED
        BY <3>1
    <2>4. Document(after).turns = after
      BY DEF Document
    <2> HIDE DEF after
    <2>5. QED
      BY <1>1, <1>3, <2>1, <2>2, <2>3, <2>4 DEF Changed
  <1>6. CASE ServeClear /\ Write(p, [kind |-> "none", turns |-> {}])
    <2> DEFINE doc == [kind |-> "none", turns |-> {}]
    <2>1. docs' = [docs EXCEPT ![p] = doc] /\ Delivered("ok")
      BY <1>6, DeliveredIs DEF Write
    <2>2. doc.turns = {} /\ ~Has(doc.turns, Op.n)
      BY DEF Has
    <2> HIDE DEF doc
    <2>3. QED
      BY <1>1, <1>3, <2>1, <2>2 DEF Changed
  <1>7. QED
    BY <1>2, <1>4, <1>5, <1>6 DEF ServeEdit, ServeClear, Fail

\* Every call is as before, or it waited for the head and has returned.
LEMMA ServedCalls ==
    ASSUME DInv, NEW out \in {"ok", "error"}, Delivered(out), NEW d \in Calls
    PROVE  /\ calls'[d] \in CallRecords /\ (d # Op.call => calls'[d] = calls[d])
           /\ \/ calls'[d] = calls[d]
              \/ d = Op.call /\ calls[d].pc = "waiting" /\ Returned(calls[d], calls'[d], out)
           /\ calls'[d].api = calls[d].api /\ calls'[d].persona = calls[d].persona
           /\ calls'[d].n = calls[d].n /\ (calls'[d].pc = "persist" <=> calls[d].pc = "persist")
  <1>1. CASE Op.call \in Calls
    BY <1>1, DInvIs DEF Delivered, Only, Returned
  <1>2. CASE Op.call \notin Calls
    BY <1>2, DInvIs DEF Delivered
  <1>3. QED
    BY <1>1, <1>2

LEMMA ServedPlaced ==
    ASSUME DInv, NEW out \in {"ok", "error"}, Delivered(out), NEW d \in Calls
    PROVE  Placed(state, calls'[d])
  <1> DEFINE r == calls[d]
             q == calls'[d]
  <1>1. Placed(state, r) /\ (q = r \/ (r.pc = "waiting" /\ Returned(r, q, out)))
    BY ServedCalls, DInvIs
  <1> HIDE DEF r, q
  <1>2. Placed(state, q)
    <2>1. CASE q = r
      BY <1>1, <2>1
    <2>2. CASE r.pc = "waiting" /\ Returned(r, q, out)
      BY <1>1, <2>2 DEF Placed, Returned, Edits
    <2>3. QED
      BY <1>1, <2>1, <2>2
  <1>3. QED
    BY <1>2 DEF q

\* The store after the step.
LEMMA WrittenStore ==
    ASSUME DInv, Serve, IsSave(Op), Written
    PROVE  /\ Len(stores') = 1 /\ stores'[1].ok = Store.ok /\ stores'[1].persona = FirstPersona
           /\ stores'[1].tried = Op.n /\ stores'[1].latest <= Op.n
  <1>1. /\ Len(stores') = 1 /\ stores'[1].ok = Store.ok /\ stores'[1].persona = FirstPersona
    BY DInvIs, ServeStores DEF DInv, Settled, Store
  <1>2. /\ Queued(Op, state, Store, calls) /\ Op \in Operations /\ Op.n \in Nat /\ Store \in Stores
    BY HeadIs, Bounds DEF Operations
  <1>3. stores \in Seq(Stores) /\ Len(stores) = 1 /\ stores[1] = Store
    BY DInvIs DEF IInv, StoresOK, DInv, Settled, Store
  <1>4. 1 \in DOMAIN stores
    BY <1>3, LenProperties
  <1>5. Store.latest <= Op.n
    <2>1. Store.latest <= Store.tried
      BY DEF DInv, Lined, Store
    <2>2. QED
      BY <1>2, <2>1 DEF Queued, Stores
  <1> DEFINE n == Op.n
  <1> HIDE DEF n
  <1>6. CASE stores' = [stores EXCEPT ![1].latest = n, ![1].tried = n]
    <2> DEFINE s == Store
    <2>1. stores'[1] = [s EXCEPT !.latest = n, !.tried = n]
      BY <1>3, <1>4, <1>6
    <2> HIDE DEF s
    <2>2. s \in Stores /\ n \in Nat
      BY <1>2 DEF s, n
    <2>3. stores'[1].tried = n /\ stores'[1].latest = n
      BY <2>1, <2>2 DEF Stores
    <2>4. QED
      BY <1>1, <2>2, <2>3 DEF n
  <1>7. CASE stores' = [stores EXCEPT ![1].tried = n]
    <2> DEFINE s == Store
    <2>1. stores'[1] = [s EXCEPT !.tried = n]
      BY <1>3, <1>4, <1>7
    <2> HIDE DEF s
    <2>2. s \in Stores
      BY <1>2 DEF s
    <2>3. stores'[1].tried = n /\ stores'[1].latest = s.latest
      BY <2>1, <2>2 DEF Stores
    <2>4. QED
      BY <1>1, <1>5, <2>3 DEF n, s
  <1>8. QED
    BY <1>6, <1>7 DEF Written, n

LEMMA QueuedServed ==
    ASSUME DInv, NEW out \in {"ok", "error"}, Delivered(out), NEW op, Queued(op, state, Store, calls),
           NEW store, store.ok = Store.ok, IsSave(op) => store.tried < op.n
    PROVE  Queued(op, state, store, calls')
  <1>1. op.call \in Calls => /\ calls'[op.call].api = calls[op.call].api
                             /\ calls'[op.call].n = calls[op.call].n
                             /\ calls'[op.call].persona = calls[op.call].persona
    BY ServedCalls
  <1>2. CASE IsSave(op)
    BY <1>1, <1>2 DEF Queued
  <1>3. CASE ~IsSave(op)
    BY <1>1, <1>3 DEF Queued
  <1>4. QED
    BY <1>2, <1>3

\* The rest of the queue.
LEMMA LinedServed ==
    ASSUME DInv, Serve, NEW out \in {"ok", "error"}, Delivered(out), NEW store, store.ok = Store.ok,
           store.latest <= store.tried, store.tried <= state.persist_revision,
           IF IsSave(Op) THEN store.tried = Op.n ELSE store.tried = Store.tried
    PROVE  Lined(queue', state, store, calls')
  <1>1. /\ Len(queue') = Len(queue) - 1 /\ Len(queue) \in Nat /\ Op = queue[1] /\ 1 \in 1 .. Len(queue)
        /\ \A i \in 1 .. Len(queue') : queue'[i] = queue[i + 1] /\ i + 1 \in 1 .. Len(queue) /\ 1 < i + 1
    BY HeadIs, DInvIs, TailIs, Bounds
  <1>2. Lined(queue, state, Store, calls)
    BY DEF DInv, Store
  <1>3. ASSUME NEW i \in 1 .. Len(queue') PROVE Queued(queue'[i], state, store, calls')
    <2> DEFINE op == queue[i + 1]
    <2>1. Queued(op, state, Store, calls) /\ queue'[i] = op
      BY <1>1, <1>2 DEF Lined
    <2>2. IsSave(op) => store.tried < op.n
      BY <1>1, <1>2, <2>1 DEF Lined, Queued
    <2> HIDE DEF op
    <2>3. QED
      BY <2>1, <2>2, QueuedServed
  <1>4. ASSUME NEW i \in 1 .. Len(queue'), NEW j \in 1 .. Len(queue'), i < j,
               IsSave(queue'[i]), IsSave(queue'[j])
        PROVE  queue'[i].n < queue'[j].n
    <2> DEFINE k == i + 1
               m == j + 1
    <2>1. k \in 1 .. Len(queue) /\ m \in 1 .. Len(queue) /\ k < m
      BY <1>1, <1>4
    <2>2. queue'[i] = queue[k] /\ queue'[j] = queue[m]
      BY <1>1
    <2> HIDE DEF k, m
    <2>3. QED
      BY <1>2, <1>4, <2>1, <2>2 DEF Lined
  <1>5. QED
    BY <1>3, <1>4 DEF Lined

LEMMA SettledServed ==
    ASSUME DInv, Serve, NEW out \in {"ok", "error"}, Delivered(out), NEW ss, Len(ss) = 1,
           ss[1].persona = FirstPersona
    PROVE  Settled(target', runtime', ss, state', calls')
  <1>1. \A d \in Calls : Placed(state, calls'[d])
    BY ServedPlaced
  <1>2. QED
    BY <1>1, HeadIs DEF DInv, Settled

\* The document after the step and the saves that follow the head.
LEMMA CaughtUpTail ==
    ASSUME DInv, Serve, NEW doc, NEW turns, CaughtUp(queue, docs[FirstPersona], turns),
           IF IsSave(Op) THEN doc.turns = Op.turns ELSE doc = docs[FirstPersona]
    PROVE  CaughtUp(queue', doc, turns)
  <1>1. /\ Len(queue') = Len(queue) - 1 /\ Len(queue) \in Nat /\ Op = queue[1] /\ 1 \in 1 .. Len(queue)
        /\ \A i \in 1 .. Len(queue') : queue'[i] = queue[i + 1]
    BY HeadIs, DInvIs, TailIs, Bounds
  <1>2. ASSUME NEW n \in 1 .. Len(queue), NoSaves(queue', n) PROVE NoSaves(queue, n + 1)
    <2>1. ASSUME NEW i \in n + 1 .. Len(queue) PROVE ~IsSave(queue[i])
      <3>1. i - 1 \in n .. Len(queue') /\ i - 1 \in 1 .. Len(queue') /\ queue'[i - 1] = queue[i]
        BY <1>1
      <3>2. QED
        BY <1>2, <3>1 DEF NoSaves
    <2>2. QED
      BY <2>1 DEF NoSaves
  <1>3. NoSaves(queue', 1) => Settle(doc.turns) = Settle(turns)
    <2>1. SUFFICES ASSUME NoSaves(queue', 1) PROVE Settle(doc.turns) = Settle(turns)
      OBVIOUS
    <2>2. NoSaves(queue, 2)
      <3>1. NoSaves(queue, 1 + 1)
        BY <1>1, <1>2, <2>1
      <3>2. QED
        BY <3>1
    <2>3. CASE IsSave(Op)
      <3>1. 1 + 1 = 2
        OBVIOUS
      <3>2. Settle(queue[1].turns) = Settle(turns)
        BY <1>1, <2>2, <2>3, <3>1 DEF CaughtUp
      <3>3. QED
        BY <1>1, <2>3, <3>2
    <2>4. CASE ~IsSave(Op)
      <3>1. NoSaves(queue, 1)
        BY <1>1, <2>2, <2>4 DEF NoSaves
      <3>2. QED
        BY <2>4, <3>1 DEF CaughtUp
    <2>5. QED
      BY <2>3, <2>4
  <1>4. ASSUME NEW i \in 1 .. Len(queue'), IsSave(queue'[i]), NoSaves(queue', i + 1)
        PROVE  Settle(queue'[i].turns) = Settle(turns)
    <2>1. i + 1 \in 1 .. Len(queue) /\ queue'[i] = queue[i + 1]
      BY <1>1
    <2>2. NoSaves(queue, (i + 1) + 1)
      BY <1>2, <1>4, <2>1
    <2>3. QED
      BY <1>4, <2>1, <2>2 DEF CaughtUp
  <1>5. QED
    BY <1>3, <1>4 DEF CaughtUp

LEMMA OwedServed ==
    ASSUME DInv, NEW out \in {"ok", "error"}, Delivered(out), Owed(calls)
    PROVE  Owed(calls')
  BY ServedCalls DEF Owed

\* Deletions from the session, which a served operation leaves alone.
LEMMA DeletedServed ==
    ASSUME DInv, NEW out \in {"ok", "error"}, Delivered(out), NEW store, store.ok = Store.ok,
           NEW d \in Calls, calls'[d].api = "delete", calls'[d].persona = FirstPersona,
           calls'[d].pc = "waiting" \/ (calls'[d].pc = "done" /\ calls'[d].out = "ok")
    PROVE  DeletedHere(state, store, calls'[d])
  <1>1. calls[d].pc = "waiting" \/ (calls[d].pc = "done" /\ calls[d].out = "ok")
    BY ServedCalls
  <1>2. DeletedHere(state, Store, calls[d])
    BY <1>1, ServedCalls DEF DInv, Deleted, Store
  <1>3. QED
    BY <1>2, ServedCalls DEF DeletedHere

LEMMA WrittenDInv ==
    ASSUME DInv, RInv', Serve, IsSave(Op)
    PROVE  DInv'
  <1> DEFINE store == stores'[1]
             fp == FirstPersona
  <1>1. Written /\ Queued(Op, state, Store, calls) /\ state' = state
    BY WrittenIs, HeadIs
  <1>2. /\ Len(stores') = 1 /\ store.ok = Store.ok /\ store.persona = fp
        /\ store.tried = Op.n /\ store.latest <= Op.n
    BY <1>1, WrittenStore
  <1>3. PICK out \in {"ok", "error"} :
            /\ Delivered(out)
            /\ IF out = "ok" THEN faults' = faults /\ docs' = [docs EXCEPT ![fp] = Document(Op.turns)]
               ELSE faults' = faults + 1 /\ docs' = docs
    BY <1>1 DEF Written
  <1> HIDE DEF store
  <1>4. Settled(target', runtime', stores', state', calls')
    BY <1>2, <1>3, SettledServed DEF store
  <1>5. Lined(queue', state, store, calls')
    BY <1>1, <1>2, <1>3, LinedServed DEF Queued
  <1>6. fp \in Personas /\ docs = [p \in Personas |-> docs[p]] /\ Document(Op.turns).turns = Op.turns
    BY AgentAssumption, DInvIs DEF IInv, DocsOK, Document
  <1>7. \/ out = "error" /\ docs'[fp] = docs[fp]
        \/ out = "ok" /\ docs'[fp] = Document(Op.turns)
    BY <1>3, <1>6
  <1>8. Durable(queue', docs'[fp], state, store, calls', faults')
    <2>1. faults \in Nat
      BY DEF DInv, Durable
    <2>2. SUFFICES ASSUME faults' = 0, store.ok, ~Owed(calls')
                   PROVE  CaughtUp(queue', docs'[fp], state.session.turns)
      BY <1>3, <2>1 DEF Durable
    <2>3. out = "ok" /\ faults = 0 /\ docs'[fp] = Document(Op.turns)
      BY <1>3, <1>7, <2>1, <2>2
    <2>4. CaughtUp(queue, docs[fp], state.session.turns)
      BY <1>2, <1>3, <2>2, <2>3, OwedServed DEF DInv, Durable, Store
    <2>5. QED
      BY <1>6, <2>3, <2>4, CaughtUpTail
  <1>9. Deleted(docs', state, store, calls')
    <2>1. \A t \in docs'[fp].turns : t.id < state.session.next
      BY <1>1, <1>6, <1>7 DEF Queued, DInv, Deleted
    <2>2. ASSUME NEW d \in Calls, calls'[d].api = "delete", calls'[d].persona # fp,
                 calls'[d].pc = "done", calls'[d].out = "ok"
          PROVE  ~Has(docs'[calls'[d].persona].turns, calls'[d].n)
      <3>1. d # Op.call
        BY <1>1, <1>3, <2>2, ServedCalls DEF Queued, Edits
      <3>2. calls'[d] = calls[d]
        BY <1>3, <3>1, ServedCalls
      <3>3. docs'[calls[d].persona] = docs[calls[d].persona]
        BY <1>3, <1>6, <2>2, <3>2, DInvIs DEF CallRecords
      <3>4. QED
        BY <2>2, <3>2, <3>3 DEF DInv, Deleted
    <2>3. QED
      BY <1>2, <1>3, <2>1, <2>2, DeletedServed DEF Deleted
  <1>10. QED
    BY <1>1, <1>4, <1>5, <1>8, <1>9 DEF DInv, store

LEMMA ChangedDInv ==
    ASSUME DInv, RInv', Serve, ~IsSave(Op)
    PROVE  DInv'
  <1> DEFINE fp == FirstPersona
  <1>1. Changed /\ Queued(Op, state, Store, calls) /\ state' = state
    BY ChangedIs, HeadIs
  <1>2. PICK out \in {"ok", "error"} :
            /\ Delivered(out)
            /\ out = "error" => docs' = docs
            /\ out = "ok" =>
                  /\ Op.persona \in Personas
                  /\ \E doc : /\ docs' = [docs EXCEPT ![Op.persona] = doc]
                              /\ \A t \in doc.turns : Has(docs[Op.persona].turns, t.id)
                              /\ Op.op = "delete" => ~Has(doc.turns, Op.n)
    BY <1>1 DEF Changed
  <1>3. stores' = stores /\ stores'[1] = Store /\ faults' \in {faults, faults + 1}
    BY <1>1 DEF Changed, Store
  <1>4. Op.persona # fp /\ Op.call \in Calls
    BY <1>1 DEF Queued
  <1>5. docs = [p \in Personas |-> docs[p]] /\ fp \in Personas
    BY AgentAssumption, DInvIs DEF IInv, DocsOK
  <1>6. docs'[fp] = docs[fp] /\ \A p \in Personas : \A t \in docs'[p].turns : Has(docs[p].turns, t.id)
    <2>1. \A p \in Personas : \A t \in docs[p].turns : Has(docs[p].turns, t.id)
      BY DEF Has
    <2>2. CASE docs' = docs
      BY <2>1, <2>2
    <2>3. ASSUME NEW doc, Op.persona \in Personas, docs' = [docs EXCEPT ![Op.persona] = doc],
                 \A t \in doc.turns : Has(docs[Op.persona].turns, t.id)
          PROVE  docs'[fp] = docs[fp] /\ \A p \in Personas : \A t \in docs'[p].turns : Has(docs[p].turns, t.id)
      BY <1>4, <1>5, <2>1, <2>3
    <2>4. QED
      BY <1>2, <2>2, <2>3
  <1>7. Settled(target', runtime', stores', state', calls')
    BY <1>2, <1>3, SettledServed DEF DInv, Settled
  <1>8. Lined(queue', state, Store, calls')
    BY <1>2, LinedServed DEF DInv, Lined, Store
  <1>9. Durable(queue', docs'[fp], state, Store, calls', faults')
    <2>1. faults \in Nat
      BY DEF DInv, Durable
    <2>2. SUFFICES ASSUME faults' = 0, Store.ok, ~Owed(calls')
                   PROVE  CaughtUp(queue', docs'[fp], state.session.turns)
      BY <1>3, <2>1 DEF Durable
    <2>3. CaughtUp(queue, docs[fp], state.session.turns)
      BY <1>2, <1>3, <2>1, <2>2, OwedServed DEF DInv, Durable, Store
    <2>4. QED
      BY <1>6, <2>3, CaughtUpTail
  <1>10. Deleted(docs', state, Store, calls')
    <2>1. \A t \in docs'[fp].turns : t.id < state.session.next
      BY <1>6 DEF DInv, Deleted
    <2>2. ASSUME NEW d \in Calls, calls'[d].api = "delete", calls'[d].persona # fp,
                 calls'[d].pc = "done", calls'[d].out = "ok"
          PROVE  ~Has(docs'[calls'[d].persona].turns, calls'[d].n)
      <3> DEFINE p == calls'[d].persona
                 n == calls'[d].n
      <3>1. p \in Personas /\ p = calls[d].persona /\ n = calls[d].n /\ calls[d].api = "delete"
        BY <1>2, <2>2, ServedCalls, DInvIs DEF CallRecords
      <3>2. CASE calls[d].pc = "done" /\ calls[d].out = "ok"
        <4>1. ~Has(docs[p].turns, n)
          BY <2>2, <3>1, <3>2 DEF DInv, Deleted
        <4>2. QED
          BY <1>6, <3>1, <4>1 DEF Has
      <3>3. CASE ~(calls[d].pc = "done" /\ calls[d].out = "ok")
        <4>1. d = Op.call /\ Returned(calls[d], calls'[d], out)
          BY <1>2, <2>2, <3>3, ServedCalls
        <4>2. out = "ok" /\ Op.op = "delete" /\ Op.n = n /\ Op.persona = p
          BY <1>1, <2>2, <3>1, <4>1 DEF Returned, Queued
        <4>3. PICK doc : docs' = [docs EXCEPT ![p] = doc] /\ ~Has(doc.turns, n)
          BY <1>2, <4>2
        <4>4. docs'[p] = doc
          BY <1>5, <3>1, <4>3
        <4>5. QED
          BY <4>3, <4>4
      <3>4. QED
        BY <3>2, <3>3
    <2>3. QED
      BY <1>2, <2>1, <2>2, DeletedServed DEF Deleted
  <1>11. QED
    BY <1>1, <1>3, <1>7, <1>8, <1>9, <1>10 DEF DInv

-----------------------------------------------------------------------------
LEMMA InitDInv == ASSUME Init, OnePersona PROVE DInv
  <1> DEFINE fp == FirstPersona
             doc == docs[fp]
             s == state.session
  <1>1. RInv /\ IInv /\ GoodSession(s) /\ state \in States
    BY InitRInv, StateIs DEF RInv
  <1>2. /\ runtime.persona = fp /\ state.store = 1 /\ ~state.switching /\ state.persist_revision = 0
        /\ queue = <<>> /\ faults = 0 /\ calls = [c \in Calls |-> IdleCall]
        /\ s = LoadResult(fp, doc)
    BY DEF Init
  <1>3. /\ Len(stores) = 1 /\ stores[1].persona = fp /\ stores[1].latest = 0 /\ stores[1].tried = 0
    <2> DEFINE st == NewStore(fp, Writable(doc))
    <2>1. stores = <<st>>
      BY DEF Init
    <2>2. st.persona = fp /\ st.latest = 0 /\ st.tried = 0
      BY DEF NewStore
    <2> HIDE DEF st
    <2>3. QED
      BY <2>1, <2>2
  <1>4. \A c \in Calls : calls[c].api = "none" /\ calls[c].out = "none" /\ Placed(state, calls[c])
    <2>1. \A c \in Calls : calls[c].api = "none" /\ calls[c].out = "none"
      BY <1>2, IdleCallIs
    <2>2. QED
      BY <2>1 DEF Placed, Edits
  <1>5. Settled(target, runtime, stores, state, calls)
    BY <1>2, <1>3, <1>4 DEF Settled, OnePersona
  <1>6. Lined(queue, state, Store, calls)
    BY <1>2, <1>3 DEF Lined, Store
  <1>7. /\ Settle(doc.turns) = Settle(s.turns)
        /\ \A t \in doc.turns : t.id < s.next
    <2>1. fp \in Personas /\ GoodTurns(doc.turns, fp) /\ doc.turns \in SUBSET Turns
      BY <1>1, AgentAssumption DEF IInv, DocsOK, GoodTurns
    <2>2. CASE doc.kind = "ok"
      <3>1. s = Restored(fp, doc.turns)
        BY <1>2, <2>2 DEF LoadResult
      <3>2. s.turns = Settle(doc.turns)
        BY <2>1, <3>1, RestoredTurns
      <3>3. Settle(s.turns) = Settle(doc.turns)
        BY <2>1, <3>2, SettleClosed DEF Settle
      <3>4. ASSUME NEW t \in doc.turns PROVE t.id < s.next
        <4> DEFINE u == IF t.st = "streaming" THEN [t EXCEPT !.st = "interrupted"] ELSE t
        <4>1. u \in s.turns
          BY <3>2 DEF Settle, Closed
        <4>2. t \in Turns
          BY <2>1
        <4>3. u.id = t.id
          BY <4>2 DEF Turns
        <4> HIDE DEF u
        <4>4. QED
          BY <1>1, <4>1, <4>3 DEF GoodSession
      <3>5. QED
        BY <3>3, <3>4
    <2>3. CASE doc.kind # "ok"
      <3>1. doc.turns = {}
        BY <1>1, <2>1, <2>3 DEF RInv, Documents, DocumentsOK
      <3>2. s = NoSession(fp)
        BY <1>2, <2>3 DEF LoadResult
      <3>3. s.turns = {}
        BY <3>2 DEF NoSession
      <3>4. QED
        BY <3>1, <3>3
    <2>4. QED
      BY <2>2, <2>3
  <1>8. Durable(queue, doc, state, Store, calls, faults)
    BY <1>2, <1>7 DEF Durable, CaughtUp, NoSaves
  <1>9. Deleted(docs, state, Store, calls)
    BY <1>4, <1>7 DEF Deleted
  <1>10. QED
    BY <1>1, <1>5, <1>6, <1>8, <1>9 DEF DInv, Store

LEMMA NextDInv == ASSUME DInv, [Next]_vars PROVE DInv'
  <1>1. RInv'
    BY DInvIs, NextRInv
  <1>2. CASE Serve
    BY <1>1, <1>2, WrittenDInv, ChangedDInv
  <1>3. ASSUME NEW c \in Calls, Start(c) \/ Advance(c) PROVE DInv'
    BY <1>1, <1>3, StartFootprint, AdvanceFootprint, CallDInv
  <1>4. CASE UNCHANGED vars
    BY <1>1, <1>4 DEF vars, DInv
  <1>5. QED
    BY <1>2, <1>3, <1>4 DEF Next, Rest

\* With one selected persona, what is in memory is what the document will hold
\* once the queue is empty, and what was deleted does not come back.
THEOREM DurabilityInvariant == (Spec /\ OnePersona) => []DInv
  BY InitDInv, NextDInv, PTL DEF Spec

LEMMA QuietDurable ==
    ASSUME DInv, Quiet, faults = 0, Store.ok
    PROVE  Settle(docs[FirstPersona].turns) = Settle(state.session.turns)
  <1>1. queue = <<>> /\ Len(queue) = 0
    BY DEF Quiet
  <1>2. ~Owed(calls)
    BY DEF Quiet, Running, Owed
  <1>3. QED
    BY <1>1, <1>2 DEF DInv, Durable, CaughtUp, NoSaves, Store

LEMMA QuietRecovers == ASSUME DInv PROVE QuietSessionIsDurable
  <1>1. SUFFICES ASSUME Quiet, faults = 0, StoreOf(state).ok
                 PROVE  Recovered(runtime.persona)
                            = Restored(runtime.persona, state.session.turns).turns
    BY DEF QuietSessionIsDurable
  <1>2. runtime.persona = FirstPersona /\ FirstPersona \in Personas /\ StoreOf(state) = Store
    BY DInvIs, AgentAssumption
  <1>3. Settle(docs[FirstPersona].turns) = Settle(state.session.turns)
    BY <1>1, <1>2, QuietDurable
  <1>4. QED
    BY <1>2, <1>3, RestoredTurns DEF Recovered

\* A restart keeps the ids of the turns.
LEMMA SettledIds ==
    ASSUME NEW turns \in SUBSET Turns, NEW n
    PROVE  Has(Settle(turns), n) <=> Has(turns, n)
  <1> DEFINE f(t) == IF t.st = "streaming" THEN [t EXCEPT !.st = "interrupted"] ELSE t
  <1>1. \A t \in turns : f(t).id = t.id
    BY DEF Turns
  <1>2. Settle(turns) = {f(t) : t \in turns}
    BY DEF Settle, Closed
  <1> HIDE DEF f
  <1>3. QED
    BY <1>1, <1>2 DEF Has

LEMMA DeletionsLast == ASSUME DInv PROVE AcknowledgedDeletionLasts
  <1> DEFINE fp == FirstPersona
             s == state.session
  <1>1. SUFFICES ASSUME Quiet, faults = 0, NEW c \in Calls, At(c, "delete", "done"), calls[c].out = "ok"
                 PROVE  /\ ~Has(docs[calls[c].persona].turns, calls[c].n)
                        /\ calls[c].persona = s.home => ~Has(s.turns, calls[c].n)
    BY DEF AcknowledgedDeletionLasts
  <1>2. s.home = fp
    BY DInvIs, StateIs
  <1>3. calls[c].api = "delete" /\ calls[c].pc = "done"
    BY <1>1 DEF At
  <1>4. CASE calls[c].persona # fp
    BY <1>1, <1>2, <1>3, <1>4 DEF DInv, Deleted
  <1>5. CASE calls[c].persona = fp
    <2>1. Store.ok /\ ~Has(s.turns, calls[c].n)
      BY <1>1, <1>3, <1>5 DEF DInv, Deleted, DeletedHere, Store
    <2>2. Settle(docs[fp].turns) = Settle(s.turns)
      BY <1>1, <2>1, QuietDurable
    <2>3. docs[fp].turns \in SUBSET Turns /\ s.turns \in SUBSET Turns
      BY DInvIs, AgentAssumption DEF IInv, DocsOK, GoodTurns
    <2>4. QED
      BY <1>5, <2>1, <2>2, <2>3, SettledIds
  <1>6. QED
    BY <1>4, <1>5

\* While one persona is selected, a deletion that was acknowledged is in the
\* document and in the session when everything has returned, whatever ran at
\* the same time and whichever persona's document it changed
\* (delete_context_messages, mutate_persona_session_reserved).
THEOREM DeletionTheorem == (Spec /\ OnePersona) => []AcknowledgedDeletionLasts
  BY DeletionsLast, DurabilityInvariant, PTL

\* While one persona is selected and no save has failed, a restart at rest
\* restores the session that is running (persist, save_reserved).
THEOREM QuietTheorem == (Spec /\ OnePersona) => []QuietSessionIsDurable
  BY QuietRecovers, DurabilityInvariant, PTL

-----------------------------------------------------------------------------
(* The final session is the one a shutdown has written.                    *)

\* Nobody edits a conversation in a workload that shuts down.
NoLateEdits ==
    \A offer \in Offers :
        (\E c \in Calls : "shutdown" \in offer[c]) => \A c \in Calls : offer[c] \cap Edits = {}

LEMMA NoEdits ==
    ASSUME NoLateEdits, Offered(calls), NEW c \in Calls, calls[c].api = "shutdown", NEW d \in Calls
    PROVE  calls[d].api \notin Edits
  <1>1. PICK offer \in Offers : \A e \in Calls : calls[e].api \in offer[e] \cup {"none"}
    BY DEF Offered
  <1>2. "shutdown" \in offer[c]
    BY <1>1
  <1>3. QED
    BY <1>1, <1>2 DEF NoLateEdits, Edits

LEMMA OfferedEnter ==
    ASSUME NEW c \in Calls, Others(c), NEW api, Enter(c, api), calls'[c].api = api
    PROVE  Offered(calls')
  <1>1. PICK offer \in Offers :
            /\ api \in offer[c]
            /\ \A d \in Calls : calls[d].api \in offer[d] \cup {"none"}
    BY DEF Enter
  <1>2. \A d \in Calls : calls'[d].api \in offer[d] \cup {"none"}
    BY <1>1 DEF Others, Kept
  <1>3. QED
    BY <1>2 DEF Offered

LEMMA StartOffered == ASSUME DInv, NEW c \in Calls, Start(c) PROVE Offered(calls')
  <1>1. /\ IInv /\ Others(c) /\ calls[c] = IdleCall /\ calls[c] \in CallRecords
        /\ calls \in [Calls -> CallRecords]
    BY DInvIs, StartIdle, StartOthers, StateIs
  <1>2. ASSUME NEW rev \in 1 .. MaxConfig, Refresh(c, rev) PROVE Offered(calls')
    BY <1>1, <1>2, RefreshIs, OfferedEnter DEF Refresh, Begun
  <1>3. CASE SendInput(c)
    BY <1>1, <1>3, SendInputIs, OfferedEnter DEF SendInput, Begun
  <1>4. CASE Shutdown(c)
    BY <1>1, <1>4, ShutdownIs, OfferedEnter DEF Shutdown
  <1>5. CASE Cancel(c) \/ Suspend(c)
    BY <1>1, <1>5, SilenceIs, OfferedEnter DEF Begun
  <1>6. CASE \/ Resume(c)
             \/ \E u \in Utterances : VoiceClone(c, "voice", u) \/ VoiceClone(c, "take", u) \/ CancelVoice(c, u)
             \/ EditCall(c)
    <2>1. Others(c)
      BY <1>1, StartOthers
    <2>2. \E api \in Apis \ {"apply", "send"}, pc \in {"cloned", "ended"} : Enter(c, api) /\ Begun(calls'[c], api, pc)
      BY <1>1, <1>6, OpensIs
    <2>3. QED
      BY <2>1, <2>2, OfferedEnter DEF Begun
  <1>7. QED
    BY <1>2, <1>3, <1>4, <1>5, <1>6 DEF Start, UiCall

\* A call that goes on goes on with its operation.
LEMMA AdvanceApi ==
    ASSUME DInv, NEW c \in Calls, Advance(c)
    PROVE  calls'[c].api = calls[c].api
  <1>1. Record(c) /\ IInv
    BY AdvanceFootprint, DInvIs DEF Footprint
  <1>2. CASE Persist(c) \/ Finish(c) \/ DropApply(c)
    BY <1>1, <1>2, PersistIs, ApplyReturnsIs, DropApplyIs DEF Goes, Returned
  <1>3. CASE ~(Persist(c) \/ Finish(c) \/ DropApply(c))
    <2>1. (ApplyStep(c) /\ ~DropApply(c)) => calls[c].api = "apply"
      BY DEF ApplyStep, At, Accepted, ApplyReject, ApplySamePersona, ApplyDone, ApplySwitch, ApplyLoad, ApplySaveFailed,
         ApplyInstall, ApplyDiscard
    <2>2. SendStep(c) => calls[c].api = "send"
      BY DEF SendStep, At, SendClone, SendStart, StreamEvent, StreamClosed, SendEnd
    <2>3. VoiceStep(c) => calls[c].api \in {"voice", "take"}
      BY DEF VoiceStep, At, VoiceStarted, TakeTranscript
    <2>4. EditStep(c) => calls[c].api \in Edits
      BY DEF EditStep, At, EditElsewhere, EditHere, ClearHere, Edits
    <2>5. calls[c].api # "none"
      BY <1>3, <2>1, <2>2, <2>3, <2>4 DEF Advance, Edits
    <2>6. QED
      BY <1>1, <2>5 DEF Record
  <1>4. QED
    BY <1>2, <1>3

LEMMA OfferedNext == ASSUME DInv, Offered(calls), [Next]_vars PROVE Offered(calls')
  <1>1. ASSUME \A d \in Calls : calls'[d].api = calls[d].api PROVE Offered(calls')
    BY <1>1 DEF Offered
  <1>2. CASE Serve
    <2>1. \E out \in {"ok", "error"} : Delivered(out)
      BY <1>2, WrittenIs, ChangedIs DEF Written, Changed
    <2>2. QED
      BY <1>1, <2>1, ServedCalls
  <1>3. ASSUME NEW c \in Calls, Advance(c) PROVE Offered(calls')
    <2>1. Others(c)
      BY <1>3, DInvIs, AdvanceOthers
    <2>2. QED
      BY <1>1, <1>3, <2>1, AdvanceApi DEF Others, Kept
  <1>4. CASE UNCHANGED vars
    BY <1>1, <1>4 DEF vars
  <1>5. QED
    BY <1>2, <1>3, <1>4, StartOffered DEF Next, Rest

\* The queue grows at its end and loses its head.
LEMMA FinalAppend ==
    ASSUME DInv, NEW op, queue' = Append(queue, op), NEW turns, IsSave(op) => op.turns = turns,
           NEW n \in Nat \ {0}, Final(queue, n, turns)
    PROVE  Final(queue', n, turns)
  BY DInvIs, AppendIs, Bounds DEF Final

LEMMA FinalLast ==
    ASSUME DInv, NEW op, queue' = Append(queue, op), NEW turns, IsSave(op) => op.turns = turns
    PROVE  Final(queue', Len(queue) + 1, turns)
  BY DInvIs, AppendIs, Bounds DEF Final

LEMMA FinalTail ==
    ASSUME DInv, Serve, NEW turns, NEW n \in Nat \ {0}, Final(queue, n + 1, turns)
    PROVE  Final(queue', n, turns)
  <1>1. Len(queue') = Len(queue) - 1 /\ Len(queue) \in Nat /\ \A i \in 1 .. Len(queue') : queue'[i] = queue[i + 1]
    BY HeadIs, DInvIs, TailIs, Bounds
  <1>2. ASSUME NEW j \in n .. Len(queue'), IsSave(queue'[j]) PROVE queue'[j].turns = turns
    <2>1. j + 1 \in n + 1 .. Len(queue) /\ queue'[j] = queue[j + 1]
      BY <1>1
    <2>2. QED
      BY <1>2, <2>1 DEF Final
  <1>3. QED
    BY <1>2 DEF Final

\* What a step of a call appends.
LEMMA AppendedIs ==
    ASSUME DInv, RInv', NEW c \in Calls, Footprint(c)
    PROVE  \/ queue' = queue
           \/ \E op : /\ queue' = Append(queue, op) /\ op.call \in {c, Background}
                      /\ IsSave(op) => op.turns = state'.session.turns
  <1>1. CASE Quietly
    BY <1>1 DEF Quietly
  <1>2. CASE Saves(c)
    BY <1>2, SavedQueued DEF Saves
  <1>3. CASE Elsewhere(c)
    BY <1>3, ElsewhereQueued DEF Elsewhere
  <1>4. QED
    BY <1>1, <1>2, <1>3 DEF Footprint

\* The shutdown of a call that takes the step, which reserves the final save.
LEMMA SealedHere ==
    ASSUME DInv, RInv', NEW c \in Calls, Footprint(c)
    PROVE  /\ \A i \in 1 .. Len(queue') : queue'[i].call = c => Final(queue', i, state'.session.turns)
           /\ ~(calls'[c].api = "shutdown" /\ calls'[c].pc = "done" /\ calls'[c].out = "ok" /\ Store.ok)
  <1>1. Record(c)
    BY DEF Footprint
  <1>2. \A i \in 1 .. Len(queue) : queue[i].call # c
    BY <1>1, NotQueued DEF Record
  <1>3. ASSUME NEW op, queue' = Append(queue, op), IsSave(op) => op.turns = state'.session.turns,
               NEW i \in 1 .. Len(queue'), queue'[i].call = c
        PROVE  Final(queue', i, state'.session.turns)
    <2>1. i = Len(queue) + 1
      BY <1>2, <1>3, DInvIs, AppendIs, Bounds
    <2>2. QED
      BY <1>3, <2>1, FinalLast
  <1>4. QED
    BY <1>1, <1>2, <1>3, AppendedIs DEF Record

LEMMA SealedStep ==
    ASSUME ZInv, RInv', NoLateEdits, NEW c \in Calls, Footprint(c)
    PROVE  Sealed(queue', docs[FirstPersona], state', Store, calls')
  <1> DEFINE turns == state.session.turns
  <1>1. DInv /\ Offered(calls) /\ Sealed(queue, docs[FirstPersona], state, Store, calls)
    BY DEF ZInv, Store
  <1>2. ASSUME NEW d \in Calls, d # c, calls'[d].api = "shutdown"
        PROVE  /\ \A i \in 1 .. Len(queue') : queue'[i].call = d => Final(queue', i, state'.session.turns)
               /\ (calls'[d].pc = "done" /\ calls'[d].out = "ok" /\ Store.ok)
                     => docs[FirstPersona].turns = state'.session.turns /\ Final(queue', 1, state'.session.turns)
    <2>1. calls[d].api = "shutdown" /\ calls'[d].pc = calls[d].pc /\ calls'[d].out = calls[d].out
      BY <1>2 DEF Footprint, Others, Kept
    <2>2. state.shutting_down /\ calls[c].api \notin Edits
      BY <1>1, <2>1, DInvIs, NoEdits DEF Placed
    <2>3. state'.session.turns = turns
      BY <2>2 DEF Footprint
    <2>4. ASSUME NEW n \in Nat \ {0}, Final(queue, n, turns) PROVE Final(queue', n, turns)
      <3>1. CASE queue' = queue
        BY <2>4, <3>1
      <3>2. ASSUME NEW op, queue' = Append(queue, op), IsSave(op) => op.turns = state'.session.turns
            PROVE  Final(queue', n, turns)
        BY <1>1, <2>3, <2>4, <3>2, FinalAppend
      <3>3. QED
        BY <1>1, <3>1, <3>2, AppendedIs
    <2>5. ASSUME NEW i \in 1 .. Len(queue'), queue'[i].call = d
          PROVE  i \in 1 .. Len(queue) /\ queue[i].call = d /\ i \in Nat \ {0}
      <3>1. CASE queue' = queue
        BY <2>5, <3>1
      <3>2. ASSUME NEW op, queue' = Append(queue, op), op.call \in {c, Background}
            PROVE  i \in 1 .. Len(queue) /\ queue[i].call = d /\ i \in Nat \ {0}
        <4>1. op.call # d
          BY <1>2, <3>2, AgentAssumption
        <4>2. QED
          BY <1>1, <2>5, <3>2, <4>1, DInvIs, AppendIs, Bounds
      <3>3. QED
        BY <1>1, <3>1, <3>2, AppendedIs
    <2>6. QED
      BY <1>1, <2>1, <2>3, <2>4, <2>5 DEF Sealed
  <1>3. QED
    BY <1>1, <1>2, SealedHere DEF Sealed

\* Serving the head, whose document is what it carries.
LEMMA SealedServed ==
    ASSUME ZInv, RInv', Serve
    PROVE  Sealed(queue', docs'[FirstPersona], state', stores'[1], calls')
  <1> DEFINE turns == state.session.turns
             fp == FirstPersona
  <1>1. DInv /\ Sealed(queue, docs[fp], state, Store, calls)
    BY DEF ZInv, Store
  <1>2. /\ state' = state /\ Op = queue[1] /\ 1 \in 1 .. Len(queue) /\ Queued(Op, state, Store, calls)
        /\ Len(queue') = Len(queue) - 1 /\ Len(queue) \in Nat
        /\ \A i \in 1 .. Len(queue') : queue'[i] = queue[i + 1]
    BY <1>1, HeadIs, DInvIs, TailIs, Bounds
  <1>3. docs = [p \in Personas |-> docs[p]] /\ fp \in Personas
    BY <1>1, AgentAssumption, DInvIs DEF IInv, DocsOK
  <1>4. stores'[1].ok = Store.ok
    BY <1>1, WrittenIs, ChangedIs, WrittenStore DEF Changed, Store
  <1>5. PICK out \in {"ok", "error"} :
            /\ Delivered(out)
            /\ IsSave(Op) => docs'[fp].turns = IF out = "ok" THEN Op.turns ELSE docs[fp].turns
            /\ ~IsSave(Op) => docs'[fp] = docs[fp]
    <2>1. CASE IsSave(Op)
      <3>1. Written
        BY <1>1, <2>1, WrittenIs
      <3>2. Document(Op.turns).turns = Op.turns
        BY DEF Document
      <3>3. QED
        BY <1>3, <2>1, <3>1, <3>2 DEF Written
    <2>2. CASE ~IsSave(Op)
      <3>1. Changed /\ Op.persona # fp
        BY <1>1, <1>2, <2>2, ChangedIs DEF Queued
      <3>2. QED
        BY <1>3, <2>2, <3>1 DEF Changed
    <2>3. QED
      BY <2>1, <2>2
  <1>6. ASSUME NEW d \in Calls, calls'[d].api = "shutdown"
        PROVE  /\ \A i \in 1 .. Len(queue') : queue'[i].call = d => Final(queue', i, turns)
               /\ (calls'[d].pc = "done" /\ calls'[d].out = "ok" /\ Store.ok)
                     => docs'[fp].turns = turns /\ Final(queue', 1, turns)
    <2>1. calls[d].api = "shutdown"
      BY <1>1, <1>5, <1>6, ServedCalls
    <2>2. /\ \A i \in 1 .. Len(queue) : queue[i].call = d => Final(queue, i, turns)
          /\ (calls[d].pc = "done" /\ calls[d].out = "ok" /\ Store.ok)
                => docs[fp].turns = turns /\ Final(queue, 1, turns)
      BY <1>1, <2>1 DEF Sealed
    <2>3. ASSUME NEW i \in 1 .. Len(queue'), queue'[i].call = d PROVE Final(queue', i, turns)
      <3>1. i + 1 \in 1 .. Len(queue) /\ queue[i + 1].call = d /\ i \in Nat \ {0}
        BY <1>2, <2>3
      <3>2. QED
        BY <1>1, <2>2, <3>1, FinalTail
    <2>4. ASSUME calls'[d].pc = "done", calls'[d].out = "ok", Store.ok
          PROVE  docs'[fp].turns = turns /\ Final(queue', 1, turns)
      <3>1. CASE calls[d].pc = "done" /\ calls[d].out = "ok"
        <4>1. docs[fp].turns = turns /\ Final(queue, 1, turns)
          BY <2>2, <2>4, <3>1
        <4>2. IsSave(Op) => Op.turns = turns
          BY <1>2, <4>1 DEF Final
        <4>3. Final(queue, 1 + 1, turns)
          BY <1>2, <4>1 DEF Final
        <4>4. QED
          BY <1>1, <1>5, <4>1, <4>2, <4>3, FinalTail
      <3>2. CASE ~(calls[d].pc = "done" /\ calls[d].out = "ok")
        <4>1. d = Op.call /\ Returned(calls[d], calls'[d], out)
          BY <1>1, <1>5, <2>4, <3>2, ServedCalls
        <4>2. out = "ok"
          BY <2>4, <4>1 DEF Returned
        <4>3. IsSave(Op)
          BY <1>2, <2>1, <4>1 DEF Queued, Edits
        <4>4. Final(queue, 1, turns)
          BY <1>2, <2>2, <4>1
        <4>5. Op.turns = turns /\ Final(queue, 1 + 1, turns)
          BY <1>2, <4>3, <4>4 DEF Final
        <4>6. QED
          BY <1>1, <1>5, <4>2, <4>3, <4>5, FinalTail
      <3>3. QED
        BY <3>1, <3>2
    <2>5. QED
      BY <2>3, <2>4
  <1>7. QED
    BY <1>2, <1>4, <1>6 DEF Sealed

LEMMA InitZInv == ASSUME Init, OnePersona PROVE ZInv
  <1>1. \A c \in Calls : calls[c].api = "none"
    BY IdleCallIs DEF Init
  <1>2. QED
    BY <1>1, InitDInv DEF ZInv, Sealed, Offered

LEMMA NextZInv == ASSUME ZInv, NoLateEdits, [Next]_vars PROVE ZInv'
  <1>1. DInv /\ DInv' /\ RInv' /\ Offered(calls')
    BY NextDInv, OfferedNext DEF ZInv, DInv
  <1>2. CASE Serve
    BY <1>1, <1>2, SealedServed DEF ZInv
  <1>3. ASSUME NEW c \in Calls, Start(c) \/ Advance(c) PROVE ZInv'
    <2>1. Footprint(c)
      BY <1>1, <1>3, StartFootprint, AdvanceFootprint
    <2>2. docs' = docs /\ stores' = stores
      BY <2>1 DEF Footprint
    <2>3. QED
      BY <1>1, <2>1, <2>2, SealedStep DEF ZInv, Store
  <1>4. CASE UNCHANGED vars
    BY <1>1, <1>4 DEF vars, ZInv
  <1>5. QED
    BY <1>2, <1>3, <1>4 DEF Next, Rest

LEMMA DurableRecovers == ASSUME ZInv PROVE SessionsAreDurable
  <1>1. DInv /\ runtime.persona = FirstPersona /\ StoreOf(state) = Store
    BY DInvIs DEF ZInv
  <1>2. ShutdownIsDurable
    BY <1>1 DEF ShutdownIsDurable, ZInv, Sealed, At, Store
  <1>3. QED
    BY <1>1, <1>2, QuietRecovers DEF SessionsAreDurable

\* While one persona is selected and nobody edits a conversation that is being
\* shut down, what is in memory is what a restart finds: at rest if no save has
\* failed, and whenever a shutdown has reported success, whatever failed before
\* it (persist, save_reserved, shutdown).
THEOREM DurabilityTheorem == ASSUME NoLateEdits PROVE (Spec /\ OnePersona) => []SessionsAreDurable
  BY InitZInv, NextZInv, DurableRecovers, PTL DEF Spec

=============================================================================
