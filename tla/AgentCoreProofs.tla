-------------------------- MODULE AgentCoreProofs --------------------------
(***************************************************************************)
(* For any personas, calls and bounds: the Agent's state is well typed, an *)
(* answer streams exactly while its request is held, no answer is produced *)
(* while the pet is hidden or after a shutdown, and no turn is written     *)
(* into another persona's session or document.                             *)
(***************************************************************************)
EXTENDS AgentCore, FiniteSetTheorems, SequenceTheorems, WellFoundedInduction, TLAPS

Kinds == {"none", "ok", "invalid", "unsupported"}

Sessions == [home : Personas, turns : SUBSET Turns, active : Nat, responses : Nat, next : Nat]

\* The turns of one persona: they are its own, have distinct ids, and the ids
\* have a bound (so that Restored finds the greatest).
GoodTurns(turns, p) ==
    /\ turns \in SUBSET Turns
    /\ \A t \in turns : t.home = p
    /\ \A t, u \in turns : t.id = u.id => t = u
    /\ \E b \in Nat : \A t \in turns : t.id < b

Streaming(turns) == {t \in turns : t.st = "streaming"}

GoodSession(s) ==
    /\ s \in Sessions /\ s.next # 0
    /\ GoodTurns(s.turns, s.home)
    /\ \A t \in s.turns : t.id < s.next
    /\ s.active = 0 => Streaming(s.turns) = {}
    /\ s.active # 0 => \E t \in s.turns : Streaming(s.turns) = {t}

QuietSession(s, p) == GoodSession(s) /\ s.active = 0 /\ s.home = p

\* Sets of numbers with a bound have a greatest element.
LEMMA Greatest ==
    ASSUME NEW S \in SUBSET Nat, S # {}, NEW b \in Nat, \A n \in S : n < b
    PROVE  \E m \in S : \A n \in S : n <= m
  <1> DEFINE Bounds == {k \in Nat : \A n \in S : n <= k}
             Less == OpToRel(<, Nat)
  <1>1. b \in Bounds
    OBVIOUS
  <1>2. PICK m \in Bounds : \A k \in Bounds : ~(<<k, m>> \in Less)
    <2>1. Bounds \subseteq Nat /\ Bounds # {} /\ IsWellFoundedOn(Less, Nat)
      BY <1>1, NatLessThanWellFounded
    <2> HIDE DEF Bounds, Less
    <2>2. QED
      BY <2>1, WFMin
  <1>3. \A k \in Bounds : ~(k < m)
    BY <1>2 DEF OpToRel
  <1> HIDE DEF Less
  <1>4. CASE m = 0
    <2>1. PICK n \in S : TRUE
      OBVIOUS
    <2>2. n = m
      BY <2>1, <1>4
    <2>3. QED
      BY <2>2
  <1>5. CASE m # 0
    <2>1. m - 1 \in Nat /\ m - 1 < m
      BY <1>5
    <2>2. m - 1 \notin Bounds
      BY <2>1, <1>3
    <2>3. PICK n \in S : ~(n <= m - 1)
      BY <2>1, <2>2
    <2>4. n = m
      BY <2>1, <2>3
    <2>5. QED
      BY <2>4
  <1>6. QED
    BY <1>4, <1>5

-----------------------------------------------------------------------------
\* What the operations on sessions preserve.
LEMMA NoSessionQuiet == ASSUME NEW p \in Personas PROVE QuietSession(NoSession(p), p)
  BY DEF QuietSession, GoodSession, GoodTurns, Sessions, NoSession, Streaming

\* Completing the streaming turn of a set of turns.
Closed(turns, st) == {IF t.st = "streaming" THEN [t EXCEPT !.st = st] ELSE t : t \in turns}

LEMMA ClosedTurns ==
    ASSUME NEW p, NEW turns, GoodTurns(turns, p), NEW st \in Terminal
    PROVE  /\ GoodTurns(Closed(turns, st), p)
           /\ Streaming(Closed(turns, st)) = {}
           /\ \A t \in Closed(turns, st) : \E u \in turns : t.id = u.id
  <1> DEFINE f(t) == IF t.st = "streaming" THEN [t EXCEPT !.st = st] ELSE t
  <1>1. \A t \in turns : f(t) \in Turns /\ f(t).id = t.id /\ f(t).home = t.home
                          /\ f(t).st # "streaming"
    BY DEF GoodTurns, Turns, Terminal
  <1>2. Closed(turns, st) = {f(t) : t \in turns}
    BY DEF Closed
  <1> HIDE DEF f
  <1>3. QED
    BY <1>1, <1>2 DEF GoodTurns, Streaming

LEMMA RestoredQuiet ==
    ASSUME NEW p \in Personas, NEW turns, GoodTurns(turns, p)
    PROVE  QuietSession(Restored(p, turns), p)
  <1> DEFINE closed == Closed(turns, "interrupted")
             s == Restored(p, turns)
  <1>1. GoodTurns(closed, p) /\ Streaming(closed) = {}
        /\ \A t \in closed : \E u \in turns : t.id = u.id
    <2>1. "interrupted" \in Terminal
      BY DEF Terminal
    <2>2. QED
      BY <2>1, ClosedTurns
  <1>0. /\ NoSession(p) \in Sessions /\ NoSession(p).home = p
        /\ NoSession(p).active = 0 /\ NoSession(p).responses = 0
    BY DEF NoSession, Sessions
  <1>2. CASE turns = {}
    <2>1. closed = {}
      BY <1>2 DEF Closed
    <2>2. s = [NoSession(p) EXCEPT !.turns = {}, !.next = 1]
      BY <1>2, <2>1, Zenon DEF Restored, Closed
    <2>3. s.turns = {} /\ s.active = 0 /\ s.home = p /\ s.next = 1 /\ s \in Sessions
      <3> HIDE DEF s
      <3>1. NoSession(p) \in Sessions /\ {} \in SUBSET Turns
        BY <1>0
      <3> HIDE DEF closed
      <3>2. QED
        BY <1>0, <2>2, <3>1 DEF Sessions
    <2>4. QED
      <3> HIDE DEF s
      <3>1. GoodTurns({}, p)
        BY DEF GoodTurns
      <3>2. QuietSession(s, p)
        BY <2>3, <3>1 DEF QuietSession, GoodSession, Streaming
      <3>3. QED
        BY <3>2 DEF s
  <1>3. CASE turns # {}
    <2> DEFINE ids == {t.id : t \in turns}
               m == CHOOSE n \in ids : \A t \in turns : t.id <= n
    <2>1. ids \in SUBSET Nat /\ ids # {}
      BY <1>3 DEF GoodTurns, Turns
    <2>2. PICK b \in Nat : \A n \in ids : n < b
      BY DEF GoodTurns
    <2>3. \E n \in ids : \A k \in ids : k <= n
      <3> HIDE DEF ids
      <3>1. QED
        BY <2>1, <2>2, Greatest
    <2>4. \E n \in ids : \A t \in turns : t.id <= n
      BY <2>3
    <2>5. m \in ids /\ \A t \in turns : t.id <= m
      BY <2>4
    <2>6. s = [NoSession(p) EXCEPT !.turns = closed, !.next = 1 + m]
      BY <1>3, Zenon DEF Restored, Closed
    <2> DEFINE next == 1 + m
    <2> HIDE DEF m, ids, closed, s
    <2>7. m \in Nat /\ next \in Nat /\ closed \in SUBSET Turns
      BY <1>1, <2>1, <2>5 DEF GoodTurns
    <2>8. \A t \in closed : t.id < 1 + m
      BY <1>1, <2>1, <2>5 DEF GoodTurns, Turns
    <2>9. /\ s \in Sessions /\ s.turns = closed /\ s.active = 0 /\ s.home = p
          /\ s.next = next
      <3> HIDE DEF next
      <3>1. s = [NoSession(p) EXCEPT !.turns = closed, !.next = next]
        BY <2>6 DEF next
      <3>2. QED
        BY <1>0, <2>7, <3>1 DEF Sessions
    <2>10. QuietSession(s, p)
      BY <1>1, <2>7, <2>8, <2>9 DEF QuietSession, GoodSession
    <2>11. QED
      BY <2>10 DEF s
  <1>4. QED
    BY <1>2, <1>3

LEMMA LoadResultQuiet ==
    ASSUME NEW p \in Personas, NEW doc, GoodTurns(doc.turns, p)
    PROVE  QuietSession(LoadResult(p, doc), p)
  BY RestoredQuiet, NoSessionQuiet DEF LoadResult

LEMMA EndedQuiet ==
    ASSUME NEW s, GoodSession(s), NEW st \in Terminal
    PROVE  QuietSession(Ended(s, st), s.home)
  <1> DEFINE closed == Closed(s.turns, st)
  <1>1. GoodTurns(closed, s.home) /\ Streaming(closed) = {}
        /\ \A t \in closed : \E u \in s.turns : t.id = u.id
    BY ClosedTurns DEF GoodSession
  <1> DEFINE r == Ended(s, st)
  <1>2. r = [s EXCEPT !.turns = closed, !.active = 0]
    BY DEF Ended, Closed
  <1>3. s \in Sessions
    BY DEF GoodSession
  <1>4. closed \in SUBSET Turns
    BY <1>1 DEF GoodTurns
  <1> HIDE DEF closed, r
  <1>5. /\ r \in Sessions /\ r.turns = closed /\ r.active = 0
        /\ r.home = s.home /\ r.next = s.next
    BY <1>2, <1>3, <1>4 DEF Sessions
  <1>6. QuietSession(r, s.home)
    BY <1>1, <1>5 DEF QuietSession, GoodSession
  <1>7. QED
    BY <1>6 DEF r

LEMMA DiscardedQuiet ==
    ASSUME NEW s, GoodSession(s)
    PROVE  QuietSession(Discarded(s), s.home)
  <1> DEFINE kept == {t \in s.turns : t.st # "streaming"}
  <1>1. GoodTurns(kept, s.home) /\ Streaming(kept) = {} /\ kept \subseteq s.turns
    BY DEF GoodSession, GoodTurns, Streaming
  <1> DEFINE r == Discarded(s)
  <1>2. r = [s EXCEPT !.turns = kept, !.active = 0]
    BY DEF Discarded
  <1>3. s \in Sessions
    BY DEF GoodSession
  <1>4. kept \in SUBSET Turns
    BY <1>1 DEF GoodTurns
  <1> HIDE DEF kept, r
  <1>5. /\ r \in Sessions /\ r.turns = kept /\ r.active = 0
        /\ r.home = s.home /\ r.next = s.next
    BY <1>2, <1>3, <1>4 DEF Sessions
  <1>6. QuietSession(r, s.home)
    BY <1>1, <1>5 DEF QuietSession, GoodSession
  <1>7. QED
    BY <1>6 DEF r

LEMMA StartedGood ==
    ASSUME NEW s, GoodSession(s), s.active = 0
    PROVE  /\ GoodSession(Started(s)) /\ Started(s).home = s.home
           /\ Started(s).active = s.responses + 1
  <1> DEFINE new == [id |-> s.next, home |-> s.home, st |-> "streaming"]
             turns == s.turns \cup {new}
  <1>1. new \in Turns /\ new.id = s.next /\ new.home = s.home /\ new.st = "streaming"
    BY DEF GoodSession, Sessions, Turns
  <1> DEFINE r == Started(s)
  <1>2. r = [s EXCEPT !.turns = turns, !.active = s.responses + 1,
                               !.responses = s.responses + 1, !.next = s.next + 1]
    BY DEF Started
  <1> HIDE DEF new
  <1>3. Streaming(turns) = {new}
    BY <1>1 DEF GoodSession, Streaming
  <1>4. \A t \in s.turns : t.id \in Nat /\ t.id < s.next
    BY DEF GoodSession, Sessions, Turns
  <1>5. s.next \in Nat
    BY DEF GoodSession, Sessions
  <1>6. \A t \in turns : t.id < s.next + 1
    BY <1>1, <1>4, <1>5
  <1>7. \A t, u \in turns : t.id = u.id => t = u
    BY <1>1, <1>4, <1>5 DEF GoodSession, GoodTurns
  <1>8. GoodTurns(turns, s.home)
    BY <1>1, <1>5, <1>6, <1>7 DEF GoodSession, GoodTurns
  <1>9. s \in Sessions /\ turns \in SUBSET Turns
    BY <1>8 DEF GoodSession, GoodTurns
  <1>0. new \in turns
    OBVIOUS
  <1> HIDE DEF turns, r
  <1> DEFINE active == s.responses + 1
             next == s.next + 1
  <1>a. active \in Nat /\ next \in Nat /\ active # 0 /\ next # 0
    BY <1>9 DEF Sessions
  <1>b. r = [s EXCEPT !.turns = turns, !.active = active, !.responses = active, !.next = next]
    BY <1>2
  <1>10. /\ r \in Sessions /\ r.turns = turns /\ r.active = active
         /\ r.home = s.home /\ r.next = next
    <2> HIDE DEF active, next
    <2>1. QED
      BY <1>a, <1>b, <1>9 DEF Sessions
  <1>11. GoodSession(r)
    BY <1>0, <1>3, <1>6, <1>8, <1>a, <1>10 DEF GoodSession
  <1>12. QED
    BY <1>10, <1>11 DEF r

LEMMA MutatedTurns ==
    ASSUME NEW p, NEW turns, GoodTurns(turns, p), NEW api, NEW n
    PROVE  /\ GoodTurns(Mutated(api, turns, n), p)
           /\ \A t \in Mutated(api, turns, n) : \E u \in turns : t.id = u.id
           /\ Streaming(turns) = {} => Streaming(Mutated(api, turns, n)) = {}
  <1>1. CASE api = "delete"
    BY <1>1 DEF Mutated, GoodTurns, Streaming
  <1>2. CASE api # "delete"
    <2> DEFINE f(t) == IF t.id = n THEN [t EXCEPT !.st = "edited"] ELSE t
    <2>1. \A t \in turns : f(t) \in Turns /\ f(t).id = t.id /\ f(t).home = t.home
                            /\ (f(t).st = t.st \/ f(t).st = "edited")
      BY DEF GoodTurns, Turns, Terminal
    <2>2. Mutated(api, turns, n) = {f(t) : t \in turns}
      BY <1>2 DEF Mutated
    <2> HIDE DEF f
    <2>3. QED
      BY <2>1, <2>2 DEF GoodTurns, Streaming
  <1>3. QED
    BY <1>1, <1>2

-----------------------------------------------------------------------------
\* The inductive invariant.
Places == {"idle", "done", "spawned", "saving", "saved", "loading", "loaded", "applied",
           "input", "cloned", "streaming", "ending", "ended", "persist", "persist_weak",
           "waiting"}
Outs == {"none", "applied", "rejected", "error", "dropped", "ok", "unavailable", "ended",
         "accepted"}
\* Where a call goes on after persist().
Thens == {"streaming", "ending", "ended", "applied", "done"}
Actors == Calls \cup {Background}
ApiNames == Apis \cup {"none"}

Voices == [utterance : Nat, rev : Nat, persona : Personas]
States == [session : Sessions, store : Nat, persist_revision : Nat,
           active_request : Requests, request_revision : Nat, pending_cfg : Nat,
           switching : BOOLEAN, suspended : BOOLEAN, shutting_down : BOOLEAN,
           pending_voice : Voices]
Stores == [persona : Personas, ok : BOOLEAN, latest : Nat, tried : Nat]
Docs == [kind : Kinds, turns : SUBSET Turns]
OpNames == {"save", "load", "delete", "edit", "clear"}
Operations == [op : OpNames, call : Actors, persona : Personas, store : Nat, n : Nat,
               turns : SUBSET Turns]
Clones == [persona : Personas, rev : Nat]
CallRecords == [api : ApiNames, pc : Places, then : Places, persona : Personas, n : Nat,
                rt : Clones, rid : Nat, out : Outs, loaded : Sessions, events : Nat,
                doomed : BOOLEAN, stale : BOOLEAN]

Configs == 0 .. MaxConfig
Runtimes == [persona : Personas, rev : Nat, cfg : Configs]

RuntimeOK == target \in [1 .. MaxConfig -> Personas] /\ runtime \in Runtimes

\* The session is the runtime persona's, its active response is the one of
\* the active request, and there is none while answers are forbidden.
GoodState(s, p) ==
    /\ s \in States
    /\ GoodSession(s.session) /\ s.session.home = p
    /\ s.active_request.rid = s.session.active
    /\ s.suspended \/ s.shutting_down => s.session.active = 0

StateOK == GoodState(state, runtime.persona)

\* A store that may write belongs to the runtime persona.
StoresOK ==
    /\ stores \in Seq(Stores)
    /\ state.store \in 1 .. Len(stores)
    /\ stores[state.store].ok => stores[state.store].persona = runtime.persona

DocsOK == docs \in [Personas -> Docs] /\ \A p \in Personas : GoodTurns(docs[p].turns, p)

\* A queued save holds turns of the persona it writes to; a queued load is of
\* the persona its call is about.
GoodOps ==
    {op \in Operations :
        /\ GoodTurns(op.turns, op.persona)
        /\ op.op = "save" => op.store \in 1 .. Len(stores)
        /\ op.op # "save" => op.call \in Calls
        /\ op.call \in Calls => calls[op.call].pc # "idle"
        /\ op.op = "load" => op.persona = calls[op.call].persona}

QueueOK == queue \in Seq(GoodOps)

\* A session a call has loaded is quiet and of the persona it will install.
GoodCall(r) ==
    /\ r \in CallRecords
    /\ r.api = "apply" => r.n \in 1 .. MaxConfig
    /\ QuietSession(r.loaded, r.loaded.home)
    /\ r.pc = "loaded" => r.loaded.home = r.persona
    /\ r.then \in Thens

CallsOK == calls \in [Calls -> CallRecords] /\ \A c \in Calls : GoodCall(calls[c])

IInv == RuntimeOK /\ StateOK /\ StoresOK /\ DocsOK /\ QueueOK /\ CallsOK

-----------------------------------------------------------------------------
\* How a step may change calls: no call becomes idle again or changes the
\* persona it is about.
Advances(r, q) == GoodCall(q) /\ (r.pc # "idle" => q.pc # "idle" /\ q.persona = r.persona)

CallsStep ==
    /\ calls' \in [Calls -> CallRecords]
    /\ \A c \in Calls : Advances(calls[c], calls'[c])

LEMMA CallsStepOK == ASSUME CallsStep PROVE CallsOK'
  BY DEF CallsStep, CallsOK, Advances

LEMMA CallsUnchanged == ASSUME CallsOK, calls' = calls PROVE CallsStep
  BY DEF CallsStep, CallsOK, Advances

LEMMA OneCallStep ==
    ASSUME CallsOK, NEW c \in Calls, NEW r, Advances(calls[c], r), calls' = [calls EXCEPT ![c] = r]
    PROVE  CallsStep
  <1>1. r \in CallRecords
    BY DEF Advances, GoodCall
  <1>2. QED
    BY <1>1 DEF CallsStep, CallsOK, Advances

LEMMA OpsStayGood ==
    ASSUME CallsStep, stores \in Seq(Stores), stores' \in Seq(Stores), Len(stores) <= Len(stores')
    PROVE  GoodOps \subseteq GoodOps'
  <1> SUFFICES ASSUME NEW op \in GoodOps PROVE op \in GoodOps'
    OBVIOUS
  <1>1. op.op = "save" => op.store \in 1 .. Len(stores')
    <2>1. Len(stores) \in Nat /\ Len(stores') \in Nat
      BY LenProperties
    <2>2. QED
      BY <2>1 DEF GoodOps
  <1>2. op.call \in Calls => calls'[op.call].pc # "idle" /\ calls'[op.call].persona = calls[op.call].persona
    BY DEF GoodOps, CallsStep, Advances
  <1>3. QED
    BY <1>1, <1>2 DEF GoodOps

LEMMA QueueStays == ASSUME QueueOK, GoodOps \subseteq GoodOps', queue' = queue PROVE QueueOK'
  BY SeqMonotonic DEF QueueOK

LEMMA QueueAppend ==
    ASSUME QueueOK, GoodOps \subseteq GoodOps', NEW op, op \in GoodOps', queue' = Append(queue, op)
    PROVE  QueueOK'
  <1>1. queue \in Seq(GoodOps')
    BY SeqMonotonic DEF QueueOK
  <1>2. QED
    BY <1>1, AppendProperties DEF QueueOK

LEMMA QueueTail ==
    ASSUME QueueOK, GoodOps \subseteq GoodOps', queue # <<>>, queue' = Tail(queue)
    PROVE  QueueOK' /\ Head(queue) \in GoodOps
  <1>1. Tail(queue) \in Seq(GoodOps) /\ Head(queue) \in GoodOps
    BY HeadTailProperties DEF QueueOK
  <1>2. Tail(queue) \in Seq(GoodOps')
    BY <1>1, SeqMonotonic
  <1>3. QED
    BY <1>1, <1>2 DEF QueueOK

LEMMA QueueWithdrawn ==
    ASSUME QueueOK, GoodOps \subseteq GoodOps', NEW c, queue' = Withdrawn(c)
    PROVE  QueueOK'
  <1> DEFINE at == {i \in DOMAIN queue : queue[i].call = c}
             i == CHOOSE i \in at : TRUE
  <1>1. queue \in Seq(GoodOps')
    BY SeqMonotonic DEF QueueOK
  <1>2. DOMAIN queue = 1 .. Len(queue) /\ Len(queue) \in Nat
    BY <1>1, LenProperties
  <1>3. CASE at = {}
    BY <1>1, <1>3 DEF Withdrawn, QueueOK
  <1>4. CASE at # {}
    <2>1. i \in at
      BY <1>4
    <2>2. i \in 1 .. Len(queue)
      BY <2>1, <1>2
    <2>3. queue' = SubSeq(queue, 1, i - 1) \o SubSeq(queue, i + 1, Len(queue))
      BY <1>4 DEF Withdrawn
    <2> HIDE DEF i, at
    <2>4. \A j \in 1 .. Len(queue) : queue[j] \in GoodOps'
      BY <1>1, ElementOfSeq
    <2>5. SubSeq(queue, 1, i - 1) \in Seq(GoodOps')
      <3>1. 1 \in Int /\ i - 1 \in Int /\ \A j \in 1 .. i - 1 : queue[j] \in GoodOps'
        BY <1>2, <2>2, <2>4
      <3>2. QED
        BY <3>1, SubSeqProperties
    <2>6. SubSeq(queue, i + 1, Len(queue)) \in Seq(GoodOps')
      <3>1. i + 1 \in Int /\ Len(queue) \in Int /\ \A j \in i + 1 .. Len(queue) : queue[j] \in GoodOps'
        BY <1>2, <2>2, <2>4
      <3>2. QED
        BY <3>1, SubSeqProperties
    <2>7. QED
      BY <2>3, <2>5, <2>6, ConcatProperties DEF QueueOK
  <1>5. QED
    BY <1>3, <1>4

-----------------------------------------------------------------------------
\* The ways in which actions write the record of a call.
LEMMA GotoStep ==
    ASSUME CallsOK, NEW c \in Calls, NEW pc \in Places \ {"idle", "loaded"}, Goto(c, pc)
    PROVE  CallsStep
  <1> DEFINE r == [calls[c] EXCEPT !.pc = pc]
  <1>1. calls' = [calls EXCEPT ![c] = r]
    BY DEF Goto
  <1>2. /\ r \in CallRecords /\ r.pc = pc /\ r.persona = calls[c].persona /\ r.api = calls[c].api
        /\ r.n = calls[c].n /\ r.loaded = calls[c].loaded /\ r.then = calls[c].then
    BY DEF CallsOK, CallRecords
  <1> HIDE DEF r
  <1>3. Advances(calls[c], r)
    BY <1>2 DEF CallsOK, GoodCall, Advances
  <1>4. QED
    BY <1>1, <1>3, OneCallStep

LEMMA ThenStep ==
    ASSUME CallsOK, NEW c \in Calls, NEW pc \in Places \ {"idle", "loaded"},
           NEW then \in Thens,
           calls' = [calls EXCEPT ![c].pc = pc, ![c].then = then]
    PROVE  CallsStep
  <1> DEFINE r == [calls[c] EXCEPT !.pc = pc, !.then = then]
  <1>1. calls' = [calls EXCEPT ![c] = r]
    OBVIOUS
  <1>2. /\ r \in CallRecords /\ r.pc = pc /\ r.persona = calls[c].persona /\ r.api = calls[c].api
        /\ r.n = calls[c].n /\ r.loaded = calls[c].loaded /\ r.then = then
    BY DEF CallsOK, CallRecords, Thens, Places
  <1> HIDE DEF r
  <1>3. Advances(calls[c], r)
    BY <1>2 DEF CallsOK, GoodCall, Advances
  <1>4. QED
    BY <1>1, <1>3, OneCallStep

LEMMA IdleCallGood == IdleCall \in CallRecords /\ GoodCall(IdleCall)
  <1>1. QuietSession(NoSession(FirstPersona), FirstPersona)
    BY NoSessionQuiet, AgentAssumption DEF AgentAssumption
  <1> DEFINE s == NoSession(FirstPersona)
  <1>2. s \in Sessions /\ s.home = FirstPersona
    BY <1>1 DEF QuietSession, GoodSession
  <1> HIDE DEF s
  <1>3. [persona |-> FirstPersona, rev |-> 0] \in Clones
    BY AgentAssumption DEF AgentAssumption, Clones
  <1>4. "idle" \in Places /\ "none" \in ApiNames /\ "none" \in Outs /\ "done" \in Places
    BY DEF Places, ApiNames, Outs
  <1>5. IdleCall \in CallRecords
    BY <1>2, <1>3, <1>4, AgentAssumption DEF IdleCall, CallRecords, AgentAssumption, s
  <1>6. IdleCall.loaded = s /\ IdleCall.api = "none" /\ IdleCall.pc = "idle" /\ IdleCall.then = "done"
    BY DEF IdleCall, s
  <1>7. QuietSession(s, s.home)
    BY <1>1, <1>2 DEF s
  <1>8. QED
    BY <1>5, <1>6, <1>7 DEF GoodCall, Thens

LEMMA FinishedGood ==
    ASSUME CallsOK, NEW c \in Calls, NEW out \in Outs
    PROVE  Advances(calls[c], Finished(c, out)) /\ Finished(c, out).pc = "done"
  <1> DEFINE r == Finished(c, out)
             api == calls[c].api
             n == calls[c].n
             persona == calls[c].persona
  <1>1. IdleCall \in CallRecords /\ GoodCall(IdleCall)
    BY IdleCallGood
  <1>2. r = [IdleCall EXCEPT !.api = api, !.pc = "done", !.out = out, !.n = n, !.persona = persona]
    BY DEF Finished
  <1>3. api \in ApiNames /\ n \in Nat /\ persona \in Personas /\ "done" \in Places
    BY DEF CallsOK, CallRecords, Places
  <1>4. api = "apply" => n \in 1 .. MaxConfig
    BY DEF CallsOK, GoodCall
  <1> HIDE DEF r, api, n, persona
  <1>5. /\ r \in CallRecords /\ r.pc = "done" /\ r.persona = persona /\ r.api = api
        /\ r.n = n /\ r.loaded = IdleCall.loaded /\ r.then = IdleCall.then
    BY <1>1, <1>2, <1>3 DEF CallRecords
  <1>6. GoodCall(r)
    BY <1>1, <1>4, <1>5 DEF GoodCall
  <1>7. QED
    BY <1>5, <1>6 DEF Advances, r, persona

LEMMA ReturnStep ==
    ASSUME CallsOK, NEW c \in Calls, NEW out \in Outs, Return(c, out)
    PROVE  CallsStep
  BY FinishedGood, OneCallStep DEF Return

\* A call that is made starts from the idle record.
LEMMA OpenedGood ==
    ASSUME CallsOK, NEW c \in Calls, calls[c].pc = "idle",
           NEW r \in CallRecords, r.pc \notin {"idle", "loaded"}, r.then \in Thens,
           r.api = "apply" => r.n \in 1 .. MaxConfig, r.loaded = calls[c].loaded
    PROVE  Advances(calls[c], r)
  BY DEF CallsOK, GoodCall, Advances

-----------------------------------------------------------------------------
\* The ways in which actions write the state.
LEMMA NoRequestTyped == NoRequest \in Requests /\ NoRequest.rid = 0
  BY DEF NoRequest, Requests

LEMMA NoVoiceTyped == NoVoice \in Voices
  BY AgentAssumption DEF NoVoice, Voices, AgentAssumption

\* A state without request and without active response.
LEMMA QuietStateGood ==
    ASSUME NEW s \in States, NEW p, QuietSession(s.session, p), s.active_request = NoRequest
    PROVE  GoodState(s, p)
  BY NoRequestTyped DEF GoodState, QuietSession

\* A state whose session and request are those of a good one.
LEMMA SameSessionGood ==
    ASSUME NEW s, NEW p, GoodState(s, p), NEW r \in States, r.session = s.session,
           r.active_request = s.active_request,
           r.suspended \/ r.shutting_down => s.suspended \/ s.shutting_down
    PROVE  GoodState(r, p)
  BY DEF GoodState

LEMMA BumpedState ==
    ASSUME NEW s \in States, NEW r, r = Bumped(s)
    PROVE  /\ r \in States /\ r.session = s.session /\ r.active_request = s.active_request
           /\ r.store = s.store /\ r.suspended = s.suspended /\ r.shutting_down = s.shutting_down
  <1> DEFINE n == s.persist_revision + 1
  <1>1. n \in Nat
    BY DEF States
  <1>2. r = [s EXCEPT !.persist_revision = n]
    BY DEF Bumped
  <1> HIDE DEF n
  <1>3. QED
    BY <1>1, <1>2 DEF States

LEMMA NewRequestsState ==
    ASSUME NEW s \in States, NEW r, r = NewRequests(s)
    PROVE  /\ r \in States /\ r.session = s.session /\ r.active_request = s.active_request
           /\ r.store = s.store /\ r.suspended = s.suspended /\ r.shutting_down = s.shutting_down
  <1> DEFINE n == s.request_revision + 1
  <1>1. n \in Nat
    BY DEF States
  <1>2. r = [s EXCEPT !.request_revision = n]
    BY DEF NewRequests
  <1> HIDE DEF n
  <1>3. QED
    BY <1>1, <1>2 DEF States

LEMMA AbortedState ==
    ASSUME NEW s \in States, NEW r, r = Aborted(s)
    PROVE  /\ r \in States /\ r.session = s.session /\ r.active_request = NoRequest
           /\ r.store = s.store /\ r.suspended = s.suspended /\ r.shutting_down = s.shutting_down
  BY NoRequestTyped DEF Aborted, States

LEMMA InterruptedState ==
    ASSUME NEW s, NEW p, GoodState(s, p), NEW rev \in Nat, NEW r, r = Interrupted(s, rev)
    PROVE  /\ r \in States /\ QuietSession(r.session, p) /\ r.active_request = NoRequest
           /\ r.store = s.store
  <1> DEFINE q == Ended(s.session, "interrupted")
  <1>1. QuietSession(q, p)
    BY EndedQuiet DEF GoodState, Terminal
  <1>2. Aborted(s) \in States /\ q \in Sessions /\ NoVoice \in Voices
        /\ Aborted(s).store = s.store /\ Aborted(s).active_request = NoRequest
    BY <1>1, AbortedState, NoVoiceTyped DEF GoodState, QuietSession, GoodSession
  <1>3. r = [Aborted(s) EXCEPT !.session = q, !.pending_voice = NoVoice, !.pending_cfg = rev]
    BY DEF Interrupted
  <1> HIDE DEF q
  <1>4. r \in States /\ r.session = q /\ r.active_request = NoRequest /\ r.store = s.store
    BY <1>2, <1>3 DEF States
  <1>5. QED
    BY <1>1, <1>4

\* A save put into the queue is good: the store may write only if it is the
\* runtime persona's, whose turns the session holds.
LEMMA SaveQueued ==
    ASSUME StoresOK, QueueOK, CallsStep, UNCHANGED stores,
           NEW s, GoodState(s, runtime.persona), s.store = state.store,
           NEW c \in Actors, c \in Calls => calls'[c].pc # "idle",
           EnqueueSave(s, c)
    PROVE  QueueOK'
  <1>1. GoodOps \subseteq GoodOps'
    BY OpsStayGood, LenProperties DEF StoresOK
  <1>2. CASE ~StoreOf(s).ok
    <2>1. queue' = queue
      BY <1>2 DEF EnqueueSave
    <2>2. QED
      BY <1>1, <2>1, QueueStays
  <1>3. CASE StoreOf(s).ok
    <2> DEFINE op == SaveOf(s, c)
               p == StoreOf(s).persona
    <2>1. queue' = Append(queue, op)
      BY <1>3 DEF EnqueueSave
    <2>2. p = runtime.persona
      BY <1>3 DEF StoreOf, StoresOK
    <2>3. s.session.turns \in SUBSET Turns /\ GoodTurns(s.session.turns, p)
          /\ s.store \in Nat /\ s.persist_revision \in Nat /\ p \in Personas
      BY <2>2 DEF GoodState, GoodSession, GoodTurns, States, Sessions
    <2>4. op = [op |-> "save", call |-> c, persona |-> p, store |-> s.store,
                n |-> s.persist_revision, turns |-> s.session.turns]
      BY DEF SaveOf
    <2> HIDE DEF op, p
    <2>5. /\ op \in Operations /\ op.op = "save" /\ op.call = c /\ op.persona = p
          /\ op.store = s.store /\ op.turns = s.session.turns
      BY <2>3, <2>4 DEF Operations, OpNames
    <2>6. op \in GoodOps'
      BY <2>3, <2>5 DEF GoodOps, StoresOK
    <2>7. QED
      BY <1>1, <2>1, <2>6, QueueAppend
  <1>4. QED
    BY <1>2, <1>3

\* An operation put into the queue for a call about its persona.
LEMMA OpQueued ==
    ASSUME StoresOK, QueueOK, CallsOK, CallsStep, UNCHANGED stores,
           NEW c \in Calls, calls[c].pc # "idle", NEW name \in OpNames \ {"save"},
           queue' = Append(queue, OpOf(name, c))
    PROVE  QueueOK'
  <1>1. GoodOps \subseteq GoodOps'
    BY OpsStayGood, LenProperties DEF StoresOK
  <1> DEFINE op == OpOf(name, c)
             p == calls[c].persona
             n == calls[c].n
  <1>2. p \in Personas /\ n \in Nat /\ GoodTurns({}, p)
    BY DEF CallsOK, CallRecords, GoodTurns
  <1>3. op = [op |-> name, call |-> c, persona |-> p, store |-> 0, n |-> n, turns |-> {}]
    BY DEF OpOf
  <1>4. calls'[c].pc # "idle" /\ calls'[c].persona = p
    BY DEF CallsStep, Advances
  <1> HIDE DEF op, p, n
  <1>5. /\ op \in Operations /\ op.op = name /\ op.call = c /\ op.persona = p
        /\ op.turns = {}
    BY <1>2, <1>3 DEF Operations, Actors
  <1>6. op \in GoodOps'
    BY <1>2, <1>4, <1>5 DEF GoodOps
  <1>7. QED
    BY <1>1, <1>6, QueueAppend DEF op

\* Steps that leave stores, docs, queue and the runtime alone.
LEMMA FrameIInv ==
    ASSUME IInv, CallsStep, StateOK', state'.store = state.store,
           UNCHANGED <<target, runtime, stores, docs, queue>>
    PROVE  IInv'
  <1>1. QueueOK'
    BY OpsStayGood, QueueStays, LenProperties DEF IInv, StoresOK
  <1>2. QED
    BY <1>1, CallsStepOK DEF IInv, RuntimeOK, StoresOK, DocsOK

LEMMA QueueIInv ==
    ASSUME IInv, CallsStep, StateOK', state'.store = state.store, QueueOK',
           UNCHANGED <<target, runtime, stores, docs>>
    PROVE  IInv'
  BY CallsStepOK DEF IInv, RuntimeOK, StoresOK, DocsOK

LEMMA PersistIInv == ASSUME IInv, NEW c \in Calls, Persist(c) PROVE IInv'
  <1>1. CallsStep /\ calls'[c].pc # "idle"
    <2> DEFINE then == calls[c].then
    <2>1. then \in Places \ {"idle", "loaded"}
      BY DEF Thens, Places, IInv, CallsOK, GoodCall, CallRecords
    <2>2. Goto(c, then)
      BY DEF Persist
    <2> HIDE DEF then
    <2>3. CallsStep
      BY <2>1, <2>2, GotoStep DEF IInv
    <2>4. QED
      BY <2>1, <2>2, <2>3 DEF Goto, IInv, CallsOK, CallRecords
  <1>2. CASE UNCHANGED <<state, queue>>
    BY <1>1, <1>2, FrameIInv DEF Persist, IInv, StateOK
  <1>3. CASE state' = Bumped(state) /\ EnqueueSave(state', Background)
    <2>1. StateOK' /\ state'.store = state.store
      <3>1. GoodState(state, runtime.persona) /\ state \in States
        BY DEF IInv, StateOK, GoodState
      <3>2. /\ state' \in States /\ state'.session = state.session
            /\ state'.active_request = state.active_request /\ state'.store = state.store
            /\ state'.suspended = state.suspended /\ state'.shutting_down = state.shutting_down
        BY <1>3, <3>1, BumpedState
      <3>3. QED
        BY <3>1, <3>2, SameSessionGood DEF Persist, StateOK
    <2>2. QueueOK'
      <3>1. GoodState(state', runtime.persona) /\ Background \in Actors /\ Background \notin Calls
        BY <2>1, AgentAssumption DEF Persist, StateOK, AgentAssumption, Actors
      <3>2. QED
        BY <1>1, <1>3, <2>1, <3>1, SaveQueued DEF Persist, IInv
    <2>3. QED
      BY <1>1, <2>1, <2>2, QueueIInv DEF Persist
  <1>4. QED
    BY <1>2, <1>3 DEF Persist

-----------------------------------------------------------------------------
\* apply_configuration
LEMMA RefreshIInv == ASSUME IInv, NEW c \in Calls, NEW rev \in 1 .. MaxConfig, Refresh(c, rev) PROVE IInv'
  <1> DEFINE r == [Opened(c, "apply", "spawned") EXCEPT !.n = rev, !.persona = target[rev]]
             doomed(d) == [calls[d] EXCEPT !.doomed = TRUE]
  <1>1. calls \in [Calls -> CallRecords] /\ calls[c] \in CallRecords /\ calls[c].pc = "idle"
        /\ target[rev] \in Personas /\ rev \in Nat
    BY AgentAssumption DEF IInv, CallsOK, RuntimeOK, Refresh, Enter, AgentAssumption
  <1>2. "apply" \in ApiNames /\ "spawned" \in Places
    BY DEF ApiNames, Apis, Places
  <1>3. /\ r \in CallRecords /\ r.pc = "spawned" /\ r.api = "apply" /\ r.n = rev
        /\ r.then = calls[c].then /\ r.loaded = calls[c].loaded
    BY <1>1, <1>2 DEF Opened, CallRecords
  <1>4. Advances(calls[c], r)
    <2> HIDE DEF r
    <2>1. r.pc \notin {"idle", "loaded"} /\ r.then \in Thens /\ (r.api = "apply" => r.n \in 1 .. MaxConfig)
      BY <1>3 DEF IInv, CallsOK, GoodCall
    <2>2. QED
      BY <1>1, <1>3, <2>1, OpenedGood DEF IInv
  <1>5. \A d \in Calls : Advances(calls[d], doomed(d)) /\ doomed(d) \in CallRecords
    <2> SUFFICES ASSUME NEW d \in Calls PROVE Advances(calls[d], doomed(d)) /\ doomed(d) \in CallRecords
      OBVIOUS
    <2> DEFINE q == doomed(d)
    <2>1. /\ q \in CallRecords /\ q.api = calls[d].api /\ q.pc = calls[d].pc /\ q.n = calls[d].n
          /\ q.then = calls[d].then /\ q.loaded = calls[d].loaded /\ q.persona = calls[d].persona
      BY <1>1 DEF CallRecords
    <2> HIDE DEF q
    <2>2. Advances(calls[d], q)
      BY <2>1 DEF IInv, CallsOK, GoodCall, Advances
    <2>3. QED
      BY <2>1, <2>2 DEF q
  <1>6. calls' = [d \in Calls |-> IF d = c THEN r
                                  ELSE IF calls[d].api = "apply" /\ Running(d) THEN doomed(d) ELSE calls[d]]
    BY Zenon DEF Refresh
  <1>7. \A d \in Calls : Advances(calls[d], calls[d])
    BY DEF IInv, CallsOK, Advances
  <1> HIDE DEF r, doomed
  <1>8. CallsStep
    BY <1>1, <1>3, <1>4, <1>5, <1>6, <1>7 DEF CallsStep
  <1>9. StateOK' /\ state'.store = state.store
    <2>1. GoodState(state, runtime.persona) /\ state \in States
      BY DEF IInv, StateOK, GoodState
    <2>2. state' = [state EXCEPT !.pending_voice = NoVoice]
      BY DEF Refresh
    <2>3. /\ state' \in States /\ state'.session = state.session
          /\ state'.active_request = state.active_request /\ state'.store = state.store
          /\ state'.suspended = state.suspended /\ state'.shutting_down = state.shutting_down
      BY <2>1, <2>2, NoVoiceTyped DEF States
    <2>4. QED
      BY <2>1, <2>3, SameSessionGood DEF StateOK, Refresh
  <1>10. QED
    BY <1>8, <1>9, FrameIInv DEF Refresh

LEMMA ReturnIInv ==
    ASSUME IInv, NEW c \in Calls, NEW out \in Outs, Return(c, out),
           UNCHANGED <<target, runtime, state, stores, docs, queue>>
    PROVE  IInv'
  BY ReturnStep, FrameIInv DEF IInv, StateOK

LEMMA ApplyRejectIInv == ASSUME IInv, NEW c \in Calls, ApplyReject(c) PROVE IInv'
  BY ReturnIInv DEF ApplyReject, Outs

LEMMA ApplyDoneIInv == ASSUME IInv, NEW c \in Calls, ApplyDone(c) PROVE IInv'
  BY ReturnIInv DEF ApplyDone, Outs

LEMMA ApplySamePersonaIInv == ASSUME IInv, NEW c \in Calls, ApplySamePersona(c) PROVE IInv'
  <1> DEFINE rev == calls[c].n
             s == Interrupted(state, rev)
             next == runtime.rev + 1
             p == runtime.persona
  <1>1. rev \in Nat /\ rev \in Configs
    BY AgentAssumption DEF ApplySamePersona, Accepted, At, IInv, CallsOK, GoodCall, AgentAssumption,
       Configs
  <1>2. runtime \in Runtimes /\ next \in Nat
    BY DEF IInv, RuntimeOK, Runtimes
  <1>3. runtime' = [runtime EXCEPT !.rev = next, !.cfg = rev]
    BY DEF ApplySamePersona
  <1>4. runtime' \in Runtimes /\ runtime'.persona = p
    <2> HIDE DEF rev, next
    <2>1. QED
      BY <1>1, <1>2, <1>3 DEF Runtimes
  <1>5. s \in States /\ QuietSession(s.session, p) /\ s.active_request = NoRequest
        /\ s.store = state.store
    <2> HIDE DEF rev, s
    <2>1. GoodState(state, p)
      BY DEF IInv, StateOK
    <2>2. QED
      BY <1>1, <2>1, InterruptedState DEF s
  <1>6. state' = [s EXCEPT !.switching = FALSE]
    BY DEF ApplySamePersona
  <1>7. GoodState(state', p) /\ state'.store = state.store
    <2> HIDE DEF s, p
    <2>1. state' \in States /\ state'.session = s.session /\ state'.active_request = NoRequest
          /\ state'.store = s.store
      BY <1>5, <1>6 DEF States
    <2>2. QED
      BY <1>5, <2>1, QuietStateGood
  <1>8. CallsStep
    <2>1. "persist_weak" \in Places \ {"idle", "loaded"} /\ "applied" \in Places \ {"idle", "loaded"}
      BY DEF Places
    <2>2. QED
      BY <2>1, ThenStep DEF Thens, ApplySamePersona, IInv
  <1> HIDE DEF s, rev, next
  <1>9. QueueOK'
    BY <1>8, OpsStayGood, QueueStays, LenProperties DEF ApplySamePersona, IInv, StoresOK
  <1>10. StoresOK'
    BY <1>4, <1>7 DEF ApplySamePersona, IInv, StoresOK
  <1>11. QED
    BY <1>4, <1>7, <1>8, <1>9, <1>10, CallsStepOK
    DEF ApplySamePersona, IInv, RuntimeOK, StateOK, DocsOK

LEMMA ApplySwitchIInv == ASSUME IInv, NEW c \in Calls, ApplySwitch(c) PROVE IInv'
  <1> DEFINE rev == calls[c].n
             i == Interrupted(state, rev)
             b == Bumped(i)
             p == runtime.persona
  <1>1. rev \in Nat
    BY DEF IInv, CallsOK, CallRecords
  <1>2. i \in States /\ QuietSession(i.session, p) /\ i.active_request = NoRequest
        /\ i.store = state.store
    <2> HIDE DEF rev, i
    <2>1. GoodState(state, p)
      BY DEF IInv, StateOK
    <2>2. QED
      BY <1>1, <2>1, InterruptedState DEF i
  <1>3. b \in States /\ b.session = i.session /\ b.active_request = NoRequest
        /\ b.store = state.store
    <2> HIDE DEF i, b
    <2>1. QED
      BY <1>2, BumpedState DEF b
  <1>4. state' = [b EXCEPT !.switching = TRUE]
    BY DEF ApplySwitch
  <1>5. GoodState(state', p) /\ state'.store = state.store
    <2> HIDE DEF b, i, p
    <2>1. state' \in States /\ state'.session = i.session /\ state'.active_request = NoRequest
          /\ state'.store = state.store
      BY <1>3, <1>4 DEF States
    <2>2. QED
      BY <1>2, <2>1, QuietStateGood
  <1>6. CallsStep /\ calls'[c].pc # "idle"
    <2> DEFINE pc == IF StoreOf(state).ok THEN "saving" ELSE "saved"
    <2>1. pc \in Places \ {"idle", "loaded"} /\ Goto(c, pc)
      BY DEF ApplySwitch, Places
    <2> HIDE DEF pc
    <2>2. QED
      BY <2>1, GotoStep DEF Goto, IInv, CallsOK, CallRecords
  <1>7. QueueOK'
    BY <1>5, <1>6, SaveQueued DEF ApplySwitch, IInv, Actors
  <1>8. QED
    BY <1>5, <1>6, <1>7, QueueIInv DEF ApplySwitch, StateOK

LEMMA ApplyLoadIInv == ASSUME IInv, NEW c \in Calls, ApplyLoad(c) PROVE IInv'
  <1>1. CallsStep
    BY GotoStep DEF ApplyLoad, IInv, Places
  <1>2. QueueOK'
    BY <1>1, OpQueued DEF ApplyLoad, At, IInv, OpNames
  <1>3. QED
    BY <1>1, <1>2, QueueIInv DEF ApplyLoad, IInv, StateOK

\* Only `switching` may change.
LEMMA SwitchingGood ==
    ASSUME NEW s, NEW p, GoodState(s, p), NEW r, r = [s EXCEPT !.switching = FALSE]
    PROVE  GoodState(r, p) /\ r.store = s.store
  <1>1. s \in States
    BY DEF GoodState
  <1>2. /\ r \in States /\ r.session = s.session /\ r.active_request = s.active_request
        /\ r.store = s.store /\ r.suspended = s.suspended /\ r.shutting_down = s.shutting_down
    BY <1>1 DEF States
  <1>3. QED
    BY <1>2, SameSessionGood

LEMMA ApplySaveFailedIInv == ASSUME IInv, NEW c \in Calls, ApplySaveFailed(c) PROVE IInv'
  <1>1. CallsStep
    BY ReturnStep DEF ApplySaveFailed, IInv, Outs
  <1>2. GoodState(state, runtime.persona)
    BY DEF IInv, StateOK
  <1>3. state' = [state EXCEPT !.switching = FALSE] \/ state' = state
    BY DEF ApplySaveFailed
  <1>4. GoodState(state', runtime.persona) /\ state'.store = state.store
    BY <1>2, <1>3, SwitchingGood
  <1>5. QED
    BY <1>1, <1>4, FrameIInv DEF ApplySaveFailed, StateOK

LEMMA ApplyDiscardIInv == ASSUME IInv, NEW c \in Calls, ApplyDiscard(c) PROVE IInv'
  <1>1. CallsStep
    BY ReturnStep DEF ApplyDiscard, IInv, Outs
  <1>2. GoodState(state, runtime.persona)
    BY DEF IInv, StateOK
  <1>3. state' = [state EXCEPT !.switching = FALSE] \/ state' = state
    BY DEF ApplyDiscard
  <1>4. GoodState(state', runtime.persona) /\ state'.store = state.store
    BY <1>2, <1>3, SwitchingGood
  <1>5. QED
    BY <1>1, <1>4, FrameIInv DEF ApplyDiscard, StateOK

LEMMA ApplyInstallIInv == ASSUME IInv, NEW c \in Calls, ApplyInstall(c) PROVE IInv'
  <1> DEFINE p == calls[c].persona
             rev == calls[c].n
             next == runtime.rev + 1
             loaded == calls[c].loaded
             new == NewStore(p, calls[c].out # "unavailable")
             a == Aborted(state)
  <1>1. GoodCall(calls[c]) /\ calls[c] \in CallRecords /\ calls[c].pc = "loaded" /\ calls[c].api = "apply"
    BY DEF IInv, CallsOK, ApplyInstall, At
  <1>2. p \in Personas /\ rev \in Configs /\ QuietSession(loaded, p) /\ loaded \in Sessions
    BY <1>1, AgentAssumption DEF GoodCall, CallRecords, Configs, AgentAssumption
  <1>3. runtime' = [persona |-> p, rev |-> next, cfg |-> rev] /\ next \in Nat
    BY DEF ApplyInstall, IInv, RuntimeOK, Runtimes
  <1>4. runtime' \in Runtimes /\ runtime'.persona = p
    <2> HIDE DEF p, rev, next
    <2>1. QED
      BY <1>2, <1>3 DEF Runtimes
  <1>5. new \in Stores /\ new.persona = p
    <2> DEFINE ok == calls[c].out # "unavailable"
    <2>1. ok \in BOOLEAN
      BY Zenon
    <2> HIDE DEF ok, p
    <2>2. NewStore(p, ok) \in Stores /\ NewStore(p, ok).persona = p
      BY <1>2, <2>1 DEF NewStore, Stores
    <2>3. QED
      BY <2>2 DEF ok
  <1>6. stores' = Append(stores, new)
    BY DEF ApplyInstall
  <1>7. /\ stores' \in Seq(Stores) /\ Len(stores) \in Nat /\ Len(stores') = Len(stores) + 1
        /\ stores'[Len(stores')] = new
    <2> HIDE DEF new
    <2>1. QED
      BY <1>5, <1>6, AppendProperties, LenProperties DEF IInv, StoresOK
  <1>8. a \in States /\ a.active_request = NoRequest
    BY AbortedState DEF IInv, StateOK, GoodState
  <1> DEFINE len == Len(stores')
  <1>9. state' = [a EXCEPT !.session = loaded, !.store = len, !.persist_revision = 0,
                           !.pending_voice = NoVoice, !.switching = FALSE]
    BY DEF ApplyInstall
  <1>10. len \in Nat
    BY <1>7
  <1>11. /\ state' \in States /\ state'.session = loaded /\ state'.active_request = NoRequest
         /\ state'.store = len
    <2> HIDE DEF a, loaded, len
    <2>1. QED
      BY <1>2, <1>8, <1>9, <1>10, NoVoiceTyped DEF States
  <1>12. StateOK'
    <2> HIDE DEF p, loaded
    <2>1. QED
      BY <1>2, <1>4, <1>11, QuietStateGood DEF StateOK
  <1>13. CallsStep
    BY ReturnStep DEF ApplyInstall, IInv, Outs
  <1>14. StoresOK'
    <2> HIDE DEF p, new
    <2>1. QED
      BY <1>4, <1>5, <1>7, <1>11 DEF StoresOK
  <1>15. QueueOK'
    <2>1. stores \in Seq(Stores) /\ Len(stores) <= Len(stores')
      BY <1>7 DEF IInv, StoresOK
    <2>2. QED
      BY <1>7, <1>13, <2>1, OpsStayGood, QueueStays DEF ApplyInstall, IInv
  <1>16. QED
    BY <1>4, <1>12, <1>13, <1>14, <1>15, CallsStepOK DEF ApplyInstall, IInv, RuntimeOK, DocsOK

LEMMA DropApplyIInv == ASSUME IInv, NEW c \in Calls, DropApply(c) PROVE IInv'
  <1>1. CallsStep
    BY ReturnStep DEF DropApply, IInv, Outs
  <1>2. QueueOK'
    BY <1>1, OpsStayGood, QueueWithdrawn, LenProperties DEF DropApply, IInv, StoresOK
  <1>3. QED
    BY <1>1, <1>2, QueueIInv DEF DropApply, IInv, StateOK

-----------------------------------------------------------------------------
\* send
LEMMA SendInputIInv == ASSUME IInv, NEW c \in Calls, SendInput(c) PROVE IInv'
  <1> DEFINE n == state.request_revision
             r == [Opened(c, "send", "input") EXCEPT !.n = n]
  <1>1. calls[c] \in CallRecords /\ calls[c].pc = "idle" /\ n \in Nat
    BY DEF IInv, CallsOK, SendInput, Enter, StateOK, GoodState, States
  <1>2. "send" \in ApiNames /\ "input" \in Places
    BY DEF ApiNames, Apis, Places
  <1>3. /\ r \in CallRecords /\ r.pc = "input" /\ r.api = "send"
        /\ r.then = calls[c].then /\ r.loaded = calls[c].loaded
    <2> HIDE DEF n
    <2>1. QED
      BY <1>1, <1>2 DEF Opened, CallRecords
  <1>4. calls' = [calls EXCEPT ![c] = r]
    BY DEF SendInput
  <1> HIDE DEF r
  <1>5. r.pc \notin {"idle", "loaded"} /\ r.then \in Thens /\ r.api # "apply"
    BY <1>3 DEF IInv, CallsOK, GoodCall
  <1>6. CallsStep
    BY <1>1, <1>3, <1>4, <1>5, OpenedGood, OneCallStep DEF IInv
  <1>7. StateOK' /\ state'.store = state.store
    <2>1. GoodState(state, runtime.persona) /\ state \in States
      BY DEF IInv, StateOK, GoodState
    <2>2. state' = [state EXCEPT !.pending_voice = NoVoice]
      BY DEF SendInput
    <2>3. /\ state' \in States /\ state'.session = state.session
          /\ state'.active_request = state.active_request /\ state'.store = state.store
          /\ state'.suspended = state.suspended /\ state'.shutting_down = state.shutting_down
      BY <2>1, <2>2, NoVoiceTyped DEF States
    <2>4. QED
      BY <2>1, <2>3, SameSessionGood DEF StateOK, SendInput
  <1>8. QED
    BY <1>6, <1>7, FrameIInv DEF SendInput

LEMMA CloneTyped == ASSUME IInv PROVE Clone \in Clones
  BY DEF IInv, RuntimeOK, Runtimes, Clone, Clones

LEMMA SendCloneIInv == ASSUME IInv, NEW c \in Calls, SendClone(c) PROVE IInv'
  <1> DEFINE rt == Clone
             r == [calls[c] EXCEPT !.pc = "cloned", !.rt = rt]
  <1>1. rt \in Clones /\ "cloned" \in Places /\ calls[c] \in CallRecords
    BY CloneTyped DEF IInv, CallsOK, Places
  <1>2. calls' = [calls EXCEPT ![c] = r]
    BY DEF SendClone
  <1>3. /\ r \in CallRecords /\ r.pc = "cloned" /\ r.persona = calls[c].persona /\ r.api = calls[c].api
        /\ r.n = calls[c].n /\ r.loaded = calls[c].loaded /\ r.then = calls[c].then
    <2> HIDE DEF rt
    <2>1. QED
      BY <1>1 DEF CallRecords
  <1> HIDE DEF r
  <1>4. Advances(calls[c], r)
    BY <1>3 DEF IInv, CallsOK, GoodCall, Advances
  <1>5. QED
    BY <1>2, <1>4, OneCallStep, FrameIInv DEF SendClone, IInv, StateOK

LEMMA SendStartIInv == ASSUME IInv, NEW c \in Calls, SendStart(c) PROVE IInv'
  <1> DEFINE p == runtime.persona
             rid == state.session.responses + 1
             q == Started(state.session)
             rev == calls[c].rt.rev
             req == [rid |-> rid, rev |-> rev, call |-> c]
  <1>1. GoodState(state, p) /\ state \in States /\ GoodSession(state.session)
    BY DEF IInv, StateOK, GoodState
  <1>2. CASE ~MayStart(c)
    <2>1. Return(c, "error") /\ UNCHANGED <<target, runtime, state, stores, docs, queue, faults>>
      BY <1>2 DEF SendStart
    <2>2. QED
      BY <2>1, ReturnIInv DEF Outs
  <1>3. CASE MayStart(c)
    <2>1. GoodSession(q) /\ q.home = p /\ q.active = rid
      BY <1>1, <1>3, StartedGood DEF MayStart, GoodState
    <2>2. rid \in Nat /\ rev \in Nat /\ c \in Actors
      <3>1. state.session \in Sessions
        BY <1>1 DEF GoodSession
      <3>2. calls[c].rt \in Clones
        BY DEF IInv, CallsOK, CallRecords
      <3>3. QED
        BY <3>1, <3>2 DEF Sessions, Clones, Actors
    <2>3. req \in Requests /\ req.rid = rid
      <3> HIDE DEF rid, rev
      <3>1. QED
        BY <2>2 DEF Requests, Actors
    <2>4. state' = [state EXCEPT !.session = q, !.pending_voice = NoVoice, !.active_request = req]
      BY <1>3 DEF SendStart
    <2>5. GoodState(state', p) /\ state'.store = state.store
      <3> HIDE DEF q, req, p, rid
      <3>1. q \in Sessions
        BY <2>1 DEF GoodSession
      <3>2. /\ state' \in States /\ state'.session = q /\ state'.active_request = req
            /\ state'.store = state.store /\ state'.suspended = state.suspended
            /\ state'.shutting_down = state.shutting_down
        BY <1>1, <2>3, <2>4, <3>1, NoVoiceTyped DEF States
      <3>3. ~state.suspended /\ ~state.shutting_down
        BY <1>3 DEF MayStart
      <3>4. QED
        BY <2>1, <2>3, <3>2, <3>3 DEF GoodState
    <2>6. CallsStep
      <3> DEFINE r == [calls[c] EXCEPT !.rid = rid, !.pc = "persist", !.then = "streaming"]
      <3>1. calls' = [calls EXCEPT ![c] = r]
        BY <1>3 DEF SendStart
      <3>2. calls[c] \in CallRecords /\ "persist" \in Places /\ "streaming" \in Places
        BY DEF IInv, CallsOK, Places
      <3>3. /\ r \in CallRecords /\ r.pc = "persist" /\ r.persona = calls[c].persona
            /\ r.api = calls[c].api /\ r.n = calls[c].n /\ r.loaded = calls[c].loaded
            /\ r.then = "streaming"
        <4> HIDE DEF rid
        <4>1. QED
          BY <2>2, <3>2 DEF CallRecords
      <3> HIDE DEF r
      <3>4. Advances(calls[c], r)
        BY <3>3 DEF Thens, IInv, CallsOK, GoodCall, Advances
      <3>5. QED
        BY <3>1, <3>4, OneCallStep DEF IInv
    <2>7. QED
      BY <2>5, <2>6, FrameIInv DEF SendStart, StateOK
  <1>4. QED
    BY <1>2, <1>3

LEMMA GotoIInv ==
    ASSUME IInv, NEW c \in Calls, NEW pc \in Places \ {"idle", "loaded"}, Goto(c, pc),
           UNCHANGED <<target, runtime, state, stores, docs, queue>>
    PROVE  IInv'
  BY GotoStep, FrameIInv DEF IInv, StateOK

\* The answer ends, the call goes on to save it.
LEMMA EndIInv ==
    ASSUME IInv, CallsStep, NEW st \in Terminal,
           state' = [Aborted(state) EXCEPT !.session = Ended(@, st)],
           UNCHANGED <<target, runtime, stores, docs, queue>>
    PROVE  IInv'
  <1>1. GoodState(state, runtime.persona)
    BY DEF IInv, StateOK
  <1> DEFINE a == Aborted(state)
             q == Ended(state.session, st)
  <1>2. /\ a \in States /\ a.session = state.session /\ a.active_request = NoRequest
        /\ a.store = state.store
    BY <1>1, AbortedState DEF GoodState
  <1>3. state' = [a EXCEPT !.session = q]
    BY <1>2
  <1>4. QuietSession(q, runtime.persona) /\ q \in Sessions
    BY <1>1, EndedQuiet DEF GoodState, QuietSession, GoodSession
  <1>5. /\ state' \in States /\ state'.session = q /\ state'.active_request = NoRequest
        /\ state'.store = state.store
    <2> HIDE DEF a, q
    <2>1. QED
      BY <1>2, <1>3, <1>4 DEF States
  <1>6. GoodState(state', runtime.persona)
    BY <1>4, <1>5, QuietStateGood
  <1>7. QED
    BY <1>5, <1>6, FrameIInv DEF StateOK

LEMMA StreamEventIInv == ASSUME IInv, NEW c \in Calls, StreamEvent(c) PROVE IInv'
  <1>0. /\ "persist" \in Places \ {"idle", "loaded"} /\ "ending" \in Places \ {"idle", "loaded"}
        /\ "persist_weak" \in Places /\ "streaming" \in Places
    BY DEF Places
  <1>1. CASE Goto(c, "ending") /\ UNCHANGED state
    BY <1>0, <1>1, GotoIInv DEF StreamEvent
  <1>2. CASE /\ calls' = [calls EXCEPT ![c].events = @ + 1,
                                   ![c].pc = "persist_weak", ![c].then = "streaming"]
             /\ UNCHANGED state
    <2> DEFINE n == calls[c].events + 1
               r == [calls[c] EXCEPT !.events = n, !.pc = "persist_weak", !.then = "streaming"]
    <2>1. calls[c] \in CallRecords /\ n \in Nat
      BY DEF IInv, CallsOK, CallRecords
    <2>2. calls' = [calls EXCEPT ![c] = r]
      BY <1>2
    <2>3. /\ r \in CallRecords /\ r.pc = "persist_weak" /\ r.persona = calls[c].persona
          /\ r.api = calls[c].api /\ r.n = calls[c].n /\ r.loaded = calls[c].loaded
          /\ r.then = "streaming"
      <3> HIDE DEF n
      <3>1. QED
        BY <1>0, <2>1 DEF CallRecords
    <2> HIDE DEF r
    <2>4. Advances(calls[c], r)
      BY <2>3 DEF Thens, IInv, CallsOK, GoodCall, Advances
    <2>5. QED
      BY <1>2, <2>2, <2>4, OneCallStep, FrameIInv DEF StreamEvent, IInv, StateOK
  <1>3. CASE \E st \in EndState :
               /\ state' = [Aborted(state) EXCEPT !.session = Ended(@, st)]
               /\ PersistThen(c, "persist", "ending")
    <2>1. PICK st \in EndState : state' = [Aborted(state) EXCEPT !.session = Ended(@, st)]
      BY <1>3
    <2>2. st \in Terminal
      BY DEF EndState, Terminal
    <2>3. CallsStep
      BY <1>0, <1>3, ThenStep DEF Thens, PersistThen, IInv
    <2>4. QED
      BY <2>1, <2>2, <2>3, EndIInv DEF StreamEvent
  <1>4. QED
    BY <1>1, <1>2, <1>3 DEF StreamEvent

LEMMA StreamClosedIInv == ASSUME IInv, NEW c \in Calls, StreamClosed(c) PROVE IInv'
  BY GotoIInv DEF StreamClosed, Places

LEMMA SendEndIInv == ASSUME IInv, NEW c \in Calls, SendEnd(c) PROVE IInv'
  <1>1. CASE Return(c, "ended") /\ UNCHANGED state
    BY <1>1, ReturnIInv DEF SendEnd, Outs
  <1>2. CASE /\ state' = [Aborted(state) EXCEPT !.session = Ended(@, "failed")]
             /\ PersistThen(c, "persist", "ended")
    <2>1. "persist" \in Places \ {"idle", "loaded"} /\ "ended" \in Places \ {"idle", "loaded"}
          /\ "failed" \in Terminal
      BY DEF Places, Terminal
    <2>2. CallsStep
      BY <1>2, <2>1, ThenStep DEF Thens, PersistThen, IInv
    <2>3. QED
      BY <1>2, <2>1, <2>2, EndIInv DEF SendEnd
  <1>3. QED
    BY <1>1, <1>2 DEF SendEnd

LEMMA FinishIInv == ASSUME IInv, NEW c \in Calls, Finish(c) PROVE IInv'
  BY ReturnIInv DEF Finish, Outs

-----------------------------------------------------------------------------
\* Calls of the UI thread
LEMMA OutdateStep ==
    ASSUME CallsOK, NEW c \in Calls, NEW r, Advances(calls[c], r),
           calls' = [Outdate(calls) EXCEPT ![c] = r]
    PROVE  CallsStep
  <1> DEFINE stale(d) == [calls[d] EXCEPT !.stale = TRUE]
             o == Outdate(calls)
  <1>1. \A d \in Calls : Advances(calls[d], stale(d)) /\ stale(d) \in CallRecords
    <2> SUFFICES ASSUME NEW d \in Calls PROVE Advances(calls[d], stale(d)) /\ stale(d) \in CallRecords
      OBVIOUS
    <2> DEFINE q == stale(d)
    <2>1. /\ q \in CallRecords /\ q.api = calls[d].api /\ q.pc = calls[d].pc /\ q.n = calls[d].n
          /\ q.then = calls[d].then /\ q.loaded = calls[d].loaded /\ q.persona = calls[d].persona
      BY DEF CallsOK, CallRecords
    <2> HIDE DEF q
    <2>2. Advances(calls[d], q)
      BY <2>1 DEF CallsOK, GoodCall, Advances
    <2>3. QED
      BY <2>1, <2>2 DEF q
  <1>2. \A d \in Calls : Advances(calls[d], calls[d]) /\ calls[d] \in CallRecords
    BY DEF CallsOK, Advances
  <1>3. o = [d \in Calls |-> IF calls[d].api = "send" /\ calls[d].pc \in {"input", "cloned"}
                             THEN stale(d) ELSE calls[d]]
    BY Zenon DEF Outdate
  <1> HIDE DEF stale
  <1>4. o \in [Calls -> CallRecords] /\ \A d \in Calls : Advances(calls[d], o[d])
    BY <1>1, <1>2, <1>3
  <1>5. calls' = [o EXCEPT ![c] = r] /\ r \in CallRecords
    BY DEF Advances, GoodCall
  <1> HIDE DEF o
  <1>6. QED
    BY <1>4, <1>5 DEF CallsStep

\* The record of a call of the UI thread that continues at pc.
LEMMA UiRecord ==
    ASSUME IInv, NEW c \in Calls, calls[c].pc = "idle", NEW api \in Apis \ {"apply"},
           NEW pc \in Places \ {"idle", "loaded"},
           NEW r, r = [Opened(c, api, pc) EXCEPT !.then = "ended"]
    PROVE  Advances(calls[c], r)
  <1>1. calls[c] \in CallRecords /\ api \in ApiNames /\ "ended" \in Places
    BY DEF IInv, CallsOK, ApiNames, Places
  <1>2. /\ r \in CallRecords /\ r.pc = pc /\ r.api = api /\ r.then = "ended"
        /\ r.loaded = calls[c].loaded
    BY <1>1 DEF Opened, CallRecords
  <1>3. QED
    BY <1>2, OpenedGood DEF Thens, IInv

LEMMA CancelIInv == ASSUME IInv, NEW c \in Calls, Cancel(c) PROVE IInv'
  <1> DEFINE p == runtime.persona
             r == [Opened(c, "cancel", "persist") EXCEPT !.then = "ended"]
             a == Aborted(state)
             n == NewRequests(a)
             q == Ended(state.session, "cancelled")
  <1>1. CallsStep
    <2>1. Advances(calls[c], r)
      <3>1. "cancel" \in Apis \ {"apply"} /\ "persist" \in Places \ {"idle", "loaded"}
        BY DEF Apis, Places
      <3>2. QED
        BY <3>1, UiRecord DEF Cancel, UiStep, Enter
    <2>2. calls' = [Outdate(calls) EXCEPT ![c] = r]
      BY DEF Cancel
    <2> HIDE DEF r
    <2>3. QED
      BY <2>1, <2>2, OutdateStep DEF IInv
  <1>2. GoodState(state, p)
    BY DEF IInv, StateOK
  <1>3. QuietSession(q, p)
    BY <1>2, EndedQuiet DEF GoodState, Terminal
  <1>4. n \in States /\ n.session = state.session /\ n.active_request = NoRequest /\ n.store = state.store
    BY <1>2, AbortedState, NewRequestsState DEF GoodState
  <1>5. state' = [n EXCEPT !.session = q]
    BY <1>4 DEF Cancel
  <1>6. GoodState(state', p) /\ state'.store = state.store
    <2> HIDE DEF n, q, p
    <2>1. q \in Sessions
      BY <1>3 DEF QuietSession, GoodSession
    <2>2. state' \in States /\ state'.session = q /\ state'.active_request = NoRequest /\ state'.store = n.store
      BY <1>4, <1>5, <2>1 DEF States
    <2>3. QED
      BY <1>3, <1>4, <2>2, QuietStateGood
  <1>7. QED
    BY <1>1, <1>6, FrameIInv DEF Cancel, UiStep, StateOK

LEMMA SuspendIInv == ASSUME IInv, NEW c \in Calls, Suspend(c) PROVE IInv'
  <1> DEFINE p == runtime.persona
             pc == IF state.session.active # 0 THEN "persist" ELSE "ended"
             r == [Opened(c, "suspend", pc) EXCEPT !.then = "ended"]
             a == Aborted(state)
             n == NewRequests(a)
             q == Discarded(state.session)
  <1>1. CallsStep
    <2>1. Advances(calls[c], r)
      <3>1. "suspend" \in Apis \ {"apply"} /\ pc \in Places \ {"idle", "loaded"}
        BY DEF Apis, Places
      <3>2. QED
        BY <3>1, UiRecord DEF Suspend, UiStep, Enter
    <2>2. calls' = [Outdate(calls) EXCEPT ![c] = r]
      BY DEF Suspend
    <2> HIDE DEF r
    <2>3. QED
      BY <2>1, <2>2, OutdateStep DEF IInv
  <1>2. GoodState(state, p)
    BY DEF IInv, StateOK
  <1>3. QuietSession(q, p)
    BY <1>2, DiscardedQuiet DEF GoodState
  <1>4. n \in States /\ n.session = state.session /\ n.active_request = NoRequest /\ n.store = state.store
    BY <1>2, AbortedState, NewRequestsState DEF GoodState
  <1>5. state' = [n EXCEPT !.suspended = TRUE, !.pending_voice = NoVoice, !.session = q]
    BY <1>4 DEF Suspend
  <1>6. GoodState(state', p) /\ state'.store = state.store
    <2> HIDE DEF n, q, p
    <2>1. q \in Sessions
      BY <1>3 DEF QuietSession, GoodSession
    <2>2. state' \in States /\ state'.session = q /\ state'.active_request = NoRequest /\ state'.store = n.store
      BY <1>4, <1>5, <2>1, NoVoiceTyped DEF States
    <2>3. QED
      BY <1>3, <1>4, <2>2, QuietStateGood
  <1>7. QED
    BY <1>1, <1>6, FrameIInv DEF Suspend, UiStep, StateOK

\* A UI call that opens its record without setting where it continues.
LEMMA OpenedStep ==
    ASSUME IInv, NEW c \in Calls, calls[c].pc = "idle", NEW api \in Apis \ {"apply"},
           NEW pc \in Places \ {"idle", "loaded"}, NEW n \in Nat, NEW rt \in Clones,
           NEW persona \in Personas, NEW out \in Outs,
           \/ calls' = [calls EXCEPT ![c] = Opened(c, api, pc)]
           \/ calls' = [calls EXCEPT ![c] = [Opened(c, api, pc) EXCEPT !.n = n]]
           \/ calls' = [calls EXCEPT ![c] = [Opened(c, api, pc) EXCEPT !.out = out]]
           \/ calls' = [calls EXCEPT ![c] = [Opened(c, api, pc) EXCEPT !.n = n, !.rt = rt]]
           \/ calls' = [calls EXCEPT ![c] = [Opened(c, api, pc) EXCEPT
                                                !.persona = persona, !.n = n, !.rt = rt]]
    PROVE  CallsStep
  <1> DEFINE Is(r) == r \in CallRecords /\ r.pc = pc /\ r.api = api
                      /\ r.then = calls[c].then /\ r.loaded = calls[c].loaded
  <1>1. calls[c] \in CallRecords /\ api \in ApiNames
    BY DEF IInv, CallsOK, ApiNames
  <1>2. Is(Opened(c, api, pc))
    BY <1>1 DEF Opened, CallRecords
  <1>3. Is([Opened(c, api, pc) EXCEPT !.n = n]) /\ Is([Opened(c, api, pc) EXCEPT !.out = out])
    BY <1>2 DEF CallRecords
  <1>4. Is([Opened(c, api, pc) EXCEPT !.n = n, !.rt = rt])
    BY <1>2 DEF CallRecords
  <1>5. Is([Opened(c, api, pc) EXCEPT !.persona = persona, !.n = n, !.rt = rt])
    BY <1>2 DEF CallRecords
  <1>6. \A r : Is(r) => Advances(calls[c], r)
    <2> SUFFICES ASSUME NEW r, Is(r) PROVE Advances(calls[c], r)
      OBVIOUS
    <2>1. r \in CallRecords /\ r.pc \notin {"idle", "loaded"} /\ r.api # "apply"
          /\ r.loaded = calls[c].loaded /\ r.then \in Thens
      BY DEF IInv, CallsOK, GoodCall
    <2> HIDE DEF Is
    <2>2. QED
      BY <2>1, OpenedGood DEF IInv
  <1> HIDE DEF Is
  <1>7. \E r : Is(r) /\ calls' = [calls EXCEPT ![c] = r]
    BY <1>2, <1>3, <1>4, <1>5
  <1>8. QED
    BY <1>6, <1>7, OneCallStep DEF IInv

LEMMA ResumeIInv == ASSUME IInv, NEW c \in Calls, Resume(c) PROVE IInv'
  <1>1. CallsStep
    <2>1. "resume" \in Apis \ {"apply"} /\ "ended" \in Places \ {"idle", "loaded"}
          /\ FirstPersona \in Personas /\ "ok" \in Outs /\ Clone \in Clones
      BY CloneTyped, AgentAssumption DEF Apis, Places, Outs, AgentAssumption
    <2>2. QED
      BY <2>1, OpenedStep DEF Resume, UiStep, Enter
  <1>2. GoodState(state, runtime.persona) /\ state \in States
    BY DEF IInv, StateOK, GoodState
  <1>3. state' = [state EXCEPT !.suspended = FALSE]
    BY DEF Resume
  <1>4. /\ state' \in States /\ state'.session = state.session
        /\ state'.active_request = state.active_request /\ state'.store = state.store
        /\ ~state'.suspended /\ state'.shutting_down = state.shutting_down
    BY <1>2, <1>3 DEF States
  <1>5. GoodState(state', runtime.persona)
    BY <1>2, <1>4, SameSessionGood
  <1>6. QED
    BY <1>1, <1>4, <1>5, FrameIInv DEF Resume, UiStep, StateOK

LEMMA VoiceCloneIInv ==
    ASSUME IInv, NEW c \in Calls, NEW api \in {"voice", "take"}, NEW u \in Utterances,
           VoiceClone(c, api, u)
    PROVE  IInv'
  <1>1. CallsStep
    <2>1. api \in Apis \ {"apply"} /\ "cloned" \in Places \ {"idle", "loaded"}
          /\ FirstPersona \in Personas /\ "ok" \in Outs /\ Clone \in Clones /\ u \in Nat
      BY CloneTyped, AgentAssumption DEF Apis, Places, Outs, AgentAssumption
    <2>2. QED
      BY <2>1, OpenedStep DEF VoiceClone, UiStep, Enter
  <1>2. QED
    BY <1>1, FrameIInv DEF VoiceClone, UiStep, IInv, StateOK

LEMMA VoiceStartedIInv == ASSUME IInv, NEW c \in Calls, VoiceStarted(c) PROVE IInv'
  <1> DEFINE p == runtime.persona
             rev == calls[c].rt.rev
             voice == [utterance |-> calls[c].n, rev |-> rev, persona |-> calls[c].rt.persona]
             refused == state.shutting_down \/ state.pending_voice.utterance >= calls[c].n
             pc == IF state.session.active # 0 THEN "persist" ELSE "ended"
             a == Aborted(state)
             n == NewRequests(a)
             q == Ended(state.session, "voice")
  <1>1. CASE refused
    <2>1. Return(c, "none") /\ UNCHANGED <<target, runtime, state, stores, docs, queue>>
      BY <1>1 DEF VoiceStarted
    <2>2. QED
      BY <2>1, ReturnIInv DEF Outs
  <1>2. CASE ~refused
    <2>1. CallsStep
      <3> DEFINE r == [calls[c] EXCEPT !.pc = pc, !.then = "ended"]
      <3>1. calls[c] \in CallRecords /\ calls \in [Calls -> CallRecords] /\ calls[c].api = "voice"
            /\ pc \in Places \ {"idle", "loaded"} /\ "ended" \in Places
        BY DEF IInv, CallsOK, VoiceStarted, At, Places
      <3>2. Outdate(calls)[c] = calls[c]
        BY <3>1 DEF Outdate
      <3>3. calls' = [Outdate(calls) EXCEPT ![c].pc = pc, ![c].then = "ended"]
        BY <1>2 DEF VoiceStarted
      <3> HIDE DEF pc
      <3>4. calls' = [Outdate(calls) EXCEPT ![c] = r]
        <4> DEFINE o == Outdate(calls)
        <4>1. o = [d \in Calls |-> o[d]]
          BY DEF Outdate
        <4>2. calls' = [o EXCEPT ![c] = [o[c] EXCEPT !.pc = pc, !.then = "ended"]]
          <5> HIDE DEF o
          <5>1. QED
            BY <3>3, <4>1 DEF o
        <4>3. QED
          BY <3>2, <4>2
      <3>5. /\ r \in CallRecords /\ r.pc = pc /\ r.persona = calls[c].persona
            /\ r.api = calls[c].api /\ r.n = calls[c].n /\ r.loaded = calls[c].loaded
            /\ r.then = "ended"
        BY <3>1 DEF CallRecords
      <3> HIDE DEF r
      <3>6. Advances(calls[c], r)
        BY <3>1, <3>5 DEF Thens, IInv, CallsOK, GoodCall, Advances
      <3>7. QED
        BY <3>4, <3>6, OutdateStep DEF IInv
    <2>2. GoodState(state, p)
      BY DEF IInv, StateOK
    <2>3. QuietSession(q, p)
      BY <2>2, EndedQuiet DEF GoodState, Terminal
    <2>4. n \in States /\ n.session = state.session /\ n.active_request = NoRequest
          /\ n.store = state.store
      BY <2>2, AbortedState, NewRequestsState DEF GoodState
    <2>5. state' = [n EXCEPT !.pending_voice = voice, !.session = q]
      BY <1>2, <2>4 DEF VoiceStarted
    <2>6. voice \in Voices
      BY DEF IInv, CallsOK, CallRecords, Clones, Voices
    <2>7. GoodState(state', p) /\ state'.store = state.store
      <3> HIDE DEF n, q, p, voice
      <3>1. q \in Sessions
        BY <2>3 DEF QuietSession, GoodSession
      <3>2. /\ state' \in States /\ state'.session = q /\ state'.active_request = NoRequest
            /\ state'.store = n.store
        BY <2>4, <2>5, <2>6, <3>1 DEF States
      <3>3. QED
        BY <2>3, <2>4, <3>2, QuietStateGood
    <2>8. QED
      BY <2>1, <2>7, FrameIInv DEF VoiceStarted, StateOK
  <1>3. QED
    BY <1>1, <1>2

\* Only the pending utterance may change.
LEMMA VoiceDropped ==
    ASSUME IInv, CallsStep, \/ state' = [state EXCEPT !.pending_voice = NoVoice]
                            \/ UNCHANGED state,
           UNCHANGED <<target, runtime, stores, docs, queue>>
    PROVE  IInv'
  <1>1. GoodState(state, runtime.persona) /\ state \in States
    BY DEF IInv, StateOK, GoodState
  <1>2. CASE state' = [state EXCEPT !.pending_voice = NoVoice]
    <2>1. /\ state' \in States /\ state'.session = state.session
          /\ state'.active_request = state.active_request /\ state'.store = state.store
          /\ state'.suspended = state.suspended /\ state'.shutting_down = state.shutting_down
      BY <1>1, <1>2, NoVoiceTyped DEF States
    <2>2. GoodState(state', runtime.persona)
      BY <1>1, <2>1, SameSessionGood
    <2>3. QED
      BY <2>1, <2>2, FrameIInv DEF StateOK
  <1>3. CASE UNCHANGED state
    BY <1>3, FrameIInv DEF IInv, StateOK
  <1>4. QED
    BY <1>2, <1>3

LEMMA TakeTranscriptIInv == ASSUME IInv, NEW c \in Calls, TakeTranscript(c) PROVE IInv'
  <1> DEFINE out == IF VoiceFresh(c) THEN "accepted" ELSE "none"
  <1>1. Return(c, "none") \/ Return(c, out)
    BY DEF TakeTranscript
  <1>2. "none" \in Outs /\ out \in Outs
    BY DEF Outs
  <1> HIDE DEF out
  <1>3. CallsStep
    BY <1>1, <1>2, ReturnStep DEF IInv
  <1>4. QED
    BY <1>3, VoiceDropped DEF TakeTranscript

LEMMA CancelVoiceIInv ==
    ASSUME IInv, NEW c \in Calls, NEW u \in Utterances, CancelVoice(c, u)
    PROVE  IInv'
  <1>1. CallsStep
    <2>1. "unvoice" \in Apis \ {"apply"} /\ "ended" \in Places \ {"idle", "loaded"}
          /\ FirstPersona \in Personas /\ "ok" \in Outs /\ Clone \in Clones /\ u \in Nat
      BY CloneTyped, AgentAssumption DEF Apis, Places, Outs, AgentAssumption
    <2>2. QED
      BY <2>1, OpenedStep DEF CancelVoice, UiStep, Enter
  <1>2. QED
    BY <1>1, VoiceDropped DEF CancelVoice, UiStep

-----------------------------------------------------------------------------
\* edit, delete, clear and shutdown
LEMMA EditCloneIInv ==
    ASSUME IInv, NEW c \in Calls, NEW api \in Edits, NEW p \in Personas, NEW n \in Nat,
           EditClone(c, api, p, n)
    PROVE  IInv'
  <1>1. CallsStep
    <2>1. api \in Apis \ {"apply"} /\ "cloned" \in Places \ {"idle", "loaded"}
          /\ "ok" \in Outs /\ Clone \in Clones
      BY CloneTyped DEF Apis, Places, Outs, Edits
    <2>2. QED
      BY <2>1, OpenedStep DEF EditClone, Enter
  <1>2. QED
    BY <1>1, FrameIInv DEF EditClone, IInv, StateOK

LEMMA VisibleNumbers == ASSUME IInv, NEW p \in Personas PROVE Visible(p) \subseteq Nat
  BY DEF Visible, IInv, DocsOK, GoodTurns, Turns, StateOK, GoodState, GoodSession

LEMMA EditElsewhereIInv == ASSUME IInv, NEW c \in Calls, EditElsewhere(c) PROVE IInv'
  <1> DEFINE api == calls[c].api
  <1>1. CallsStep
    BY GotoStep DEF EditElsewhere, IInv, Places
  <1>2. api \in OpNames \ {"save"} /\ calls[c].pc # "idle"
    BY DEF EditElsewhere, Edits, OpNames
  <1>3. queue' = Append(queue, OpOf(api, c)) /\ UNCHANGED stores
    BY DEF EditElsewhere
  <1>4. QueueOK'
    <2> HIDE DEF api
    <2>1. QED
      BY <1>1, <1>2, <1>3, OpQueued DEF IInv
  <1>5. QED
    BY <1>1, <1>4, QueueIInv DEF EditElsewhere, IInv, StateOK

\* SaveAndWait, after the state was written.
LEMMA SaveAndWaitIInv ==
    ASSUME IInv, NEW c \in Calls, StateOK', state'.store = state.store, SaveAndWait(c, "error"),
           UNCHANGED <<target, runtime, stores, docs>>
    PROVE  IInv'
  <1>1. CallsStep /\ calls'[c].pc # "idle"
    <2>1. CASE Goto(c, "waiting")
      BY <2>1, GotoStep DEF Places, Goto, IInv, CallsOK, CallRecords
    <2>2. CASE Return(c, "error")
      <3>1. "error" \in Outs
        BY DEF Outs
      <3>2. CallsStep /\ Finished(c, "error").pc = "done"
        BY <2>2, <3>1, ReturnStep, FinishedGood DEF IInv
      <3>3. QED
        BY <2>2, <3>2 DEF Return, IInv, CallsOK
    <2>3. QED
      BY <2>1, <2>2 DEF SaveAndWait
  <1>2. QueueOK'
    <2>1. GoodState(state', runtime.persona) /\ c \in Actors
      BY DEF StateOK, Actors
    <2>2. QED
      BY <1>1, <2>1, SaveQueued DEF SaveAndWait, IInv
  <1>3. QED
    BY <1>1, <1>2, QueueIInv

LEMMA EditHereIInv == ASSUME IInv, NEW c \in Calls, EditHere(c) PROVE IInv'
  <1> DEFINE p == runtime.persona
             a == Aborted(state)
             q == Ended(state.session, "interrupted")
             quiet == [a EXCEPT !.session = q]
             turns == Mutated(calls[c].api, q.turns, calls[c].n)
             m == [q EXCEPT !.turns = turns]
             edited == [quiet EXCEPT !.session = m]
  <1>1. GoodState(state, p)
    BY DEF IInv, StateOK
  <1>2. QuietSession(q, p) /\ q \in Sessions
    BY <1>1, EndedQuiet DEF GoodState, Terminal, QuietSession, GoodSession
  <1>3. a \in States /\ a.session = state.session /\ a.active_request = NoRequest
        /\ a.store = state.store
    BY <1>1, AbortedState DEF GoodState
  <1>4. /\ quiet \in States /\ quiet.session = q /\ quiet.active_request = NoRequest
        /\ quiet.store = state.store
    <2> HIDE DEF a, q
    <2>1. QED
      BY <1>2, <1>3 DEF States
  <1>5. QuietSession(m, p) /\ m \in Sessions
    <2> DEFINE api == calls[c].api
               n == calls[c].n
    <2>1. GoodTurns(q.turns, p) /\ Streaming(q.turns) = {} /\ \A t \in q.turns : t.id < q.next
      BY <1>2 DEF QuietSession, GoodSession
    <2> HIDE DEF q, api, n
    <2>2. GoodTurns(turns, p) /\ Streaming(turns) = {} /\ \A t \in turns : \E u \in q.turns : t.id = u.id
      BY <2>1, MutatedTurns DEF api, n
    <2>3. turns \in SUBSET Turns
      BY <2>2 DEF GoodTurns
    <2> HIDE DEF turns
    <2>4. /\ m \in Sessions /\ m.turns = turns /\ m.active = q.active /\ m.home = q.home
          /\ m.next = q.next
      BY <1>2, <2>3 DEF Sessions
    <2> HIDE DEF m
    <2>5. QED
      BY <1>2, <2>1, <2>2, <2>4 DEF QuietSession, GoodSession
  <1>6. CASE ~Has(q.turns, calls[c].n)
    <2>1. state' = quiet /\ Return(c, "error") /\ UNCHANGED queue
      BY <1>3, <1>4, <1>6 DEF EditHere
    <2>2. StateOK' /\ state'.store = state.store
      <3> HIDE DEF quiet, q
      <3>1. QED
        BY <1>2, <1>4, <2>1, QuietStateGood DEF EditHere, StateOK
    <2>3. CallsStep
      BY <2>1, ReturnStep DEF IInv, Outs
    <2>4. QED
      BY <2>1, <2>2, <2>3, FrameIInv DEF EditHere
  <1>7. CASE Has(q.turns, calls[c].n)
    <2>1. state' = Bumped(edited) /\ SaveAndWait(c, "error")
      BY <1>3, <1>4, <1>7 DEF EditHere
    <2>2. edited \in States /\ edited.session = m /\ edited.active_request = NoRequest
          /\ edited.store = state.store
      <3> HIDE DEF quiet, m
      <3>1. QED
        BY <1>4, <1>5 DEF States
    <2>3. StateOK' /\ state'.store = state.store
      <3> HIDE DEF edited, m
      <3>1. /\ state' \in States /\ state'.session = m /\ state'.active_request = NoRequest
            /\ state'.store = state.store
        BY <2>1, <2>2, BumpedState
      <3>2. QED
        BY <1>5, <3>1, QuietStateGood DEF EditHere, StateOK
    <2>4. QED
      BY <2>1, <2>3, SaveAndWaitIInv DEF EditHere
  <1>8. QED
    BY <1>6, <1>7

LEMMA ClearHereIInv == ASSUME IInv, NEW c \in Calls, ClearHere(c) PROVE IInv'
  <1> DEFINE p == runtime.persona
             a == Aborted(state)
             m == [[state.session EXCEPT !.turns = {}] EXCEPT !.active = 0]
             cleared == [a EXCEPT !.session = m]
  <1>1. GoodState(state, p) /\ state.session \in Sessions
    BY DEF IInv, StateOK, GoodState, GoodSession
  <1>2. QuietSession(m, p) /\ m \in Sessions
    <2>1. /\ m \in Sessions /\ m.turns = {} /\ m.active = 0 /\ m.home = state.session.home
          /\ m.next = state.session.next
      BY <1>1 DEF Sessions
    <2>2. GoodTurns({}, p) /\ Streaming({}) = {}
      BY DEF GoodTurns, Streaming
    <2> HIDE DEF m
    <2>3. QED
      BY <1>1, <2>1, <2>2 DEF GoodState, QuietSession, GoodSession
  <1>3. a \in States /\ a.session = state.session /\ a.active_request = NoRequest
        /\ a.store = state.store
    BY <1>1, AbortedState DEF GoodState
  <1>4. state' = Bumped(cleared) /\ SaveAndWait(c, "error")
    BY <1>3 DEF ClearHere
  <1>5. cleared \in States /\ cleared.session = m /\ cleared.active_request = NoRequest
        /\ cleared.store = state.store
    <2> HIDE DEF a, m
    <2>1. QED
      BY <1>2, <1>3 DEF States
  <1>6. StateOK' /\ state'.store = state.store
    <2> HIDE DEF cleared, m
    <2>1. /\ state' \in States /\ state'.session = m /\ state'.active_request = NoRequest
          /\ state'.store = state.store
      BY <1>4, <1>5, BumpedState
    <2>2. QED
      BY <1>2, <2>1, QuietStateGood DEF ClearHere, StateOK
  <1>7. QED
    BY <1>4, <1>6, SaveAndWaitIInv DEF ClearHere

LEMMA ShutdownIInv == ASSUME IInv, NEW c \in Calls, Shutdown(c) PROVE IInv'
  <1> DEFINE p == runtime.persona
             a == Aborted(state)
             b == Bumped(a)
             q == Ended(state.session, "interrupted")
  <1>1. GoodState(state, p)
    BY DEF IInv, StateOK
  <1>2. QuietSession(q, p) /\ q \in Sessions
    BY <1>1, EndedQuiet DEF GoodState, Terminal, QuietSession, GoodSession
  <1>3. b \in States /\ b.session = state.session /\ b.active_request = NoRequest
        /\ b.store = state.store
    BY <1>1, AbortedState, BumpedState DEF GoodState
  <1>4. state' = [b EXCEPT !.session = q, !.shutting_down = TRUE, !.pending_voice = NoVoice]
    BY <1>3 DEF Shutdown
  <1>5. GoodState(state', p) /\ state'.store = state.store
    <2> HIDE DEF b, q, p
    <2>1. /\ state' \in States /\ state'.session = q /\ state'.active_request = NoRequest
          /\ state'.store = state.store
      BY <1>2, <1>3, <1>4, NoVoiceTyped DEF States
    <2>2. QED
      BY <1>2, <2>1, QuietStateGood
  <1>6. CallsStep
    <2>1. /\ "shutdown" \in Apis \ {"apply"} /\ "waiting" \in Places \ {"idle", "loaded"}
          /\ "done" \in Places \ {"idle", "loaded"} /\ FirstPersona \in Personas /\ "ok" \in Outs
          /\ Clone \in Clones /\ calls[c].pc = "idle"
      BY CloneTyped, AgentAssumption DEF Apis, Places, Outs, AgentAssumption, Shutdown, Enter
    <2>2. CASE calls' = [calls EXCEPT ![c] = Opened(c, "shutdown", "waiting")]
      BY <2>1, <2>2, OpenedStep
    <2>3. CASE calls' = [calls EXCEPT ![c] = [Opened(c, "shutdown", "done") EXCEPT !.out = "ok"]]
      BY <2>1, <2>3, OpenedStep
    <2>4. QED
      BY <2>2, <2>3 DEF Shutdown
  <1>7. calls'[c].pc # "idle"
    <2>1. calls[c] \in CallRecords /\ calls \in [Calls -> CallRecords]
      BY DEF IInv, CallsOK
    <2>2. /\ Opened(c, "shutdown", "waiting").pc = "waiting"
          /\ [Opened(c, "shutdown", "done") EXCEPT !.out = "ok"].pc = "done"
      BY <2>1 DEF Opened, CallRecords
    <2>3. QED
      BY <2>1, <2>2 DEF Shutdown
  <1>8. QueueOK'
    BY <1>5, <1>6, <1>7, SaveQueued DEF Shutdown, IInv, Actors
  <1>9. QED
    BY <1>5, <1>6, <1>8, QueueIInv DEF Shutdown, StateOK

-----------------------------------------------------------------------------
\* The head of the queue
LEMMA HeadGood == ASSUME IInv, NEW names, Serving(names) PROVE Op \in GoodOps /\ Op \in Operations
  <1>1. queue # <<>> /\ queue \in Seq(GoodOps)
    BY DEF Serving, IInv, QueueOK
  <1>2. Head(queue) \in GoodOps
    BY <1>1, HeadTailProperties
  <1>3. QED
    BY <1>2 DEF Op, GoodOps

LEMMA DeliverStep ==
    ASSUME IInv, Op \in GoodOps, NEW out \in Outs, Deliver(out)
    PROVE  CallsStep
  <1> DEFINE d == Op.call
             f == Finished(d, out)
             r == [calls[d] EXCEPT !.pc = "saved", !.out = out]
  <1>1. CASE d = Background
    BY <1>1, CallsUnchanged DEF Deliver, IInv
  <1>2. CASE d # Background
    <2>1. d \in Calls /\ CallsOK /\ calls[d] \in CallRecords
      BY <1>2 DEF GoodOps, Operations, Actors, IInv, CallsOK
    <2>2. calls' = [calls EXCEPT ![d] = IF calls[d].api = "apply" THEN r ELSE f]
      BY <1>2 DEF Deliver
    <2>3. Advances(calls[d], f)
      <3> HIDE DEF d
      <3>1. QED
        BY <2>1, FinishedGood
    <2>4. Advances(calls[d], r)
      <3> HIDE DEF d
      <3>1. "saved" \in Places
        BY DEF Places
      <3>2. /\ r \in CallRecords /\ r.pc = "saved" /\ r.persona = calls[d].persona
            /\ r.api = calls[d].api /\ r.n = calls[d].n /\ r.loaded = calls[d].loaded
            /\ r.then = calls[d].then
        BY <2>1, <3>1 DEF CallRecords
      <3> HIDE DEF r
      <3>3. QED
        BY <2>1, <3>2 DEF CallsOK, GoodCall, Advances
    <2> HIDE DEF d, f, r
    <2>5. calls' = [calls EXCEPT ![d] = r] \/ calls' = [calls EXCEPT ![d] = f]
      BY <2>2
    <2>6. QED
      BY <2>1, <2>3, <2>4, <2>5, OneCallStep
  <1>3. QED
    BY <1>1, <1>2

LEMMA ServeIInv ==
    ASSUME IInv, NEW names, Serving(names), CallsStep, DocsOK',
           stores' \in Seq(Stores), Len(stores') = Len(stores),
           \A i \in 1 .. Len(stores) : /\ stores'[i].ok = stores[i].ok
                                       /\ stores'[i].persona = stores[i].persona,
           UNCHANGED <<target, runtime, state>>
    PROVE  IInv'
  <1>1. QueueOK'
    <2>1. stores \in Seq(Stores) /\ Len(stores) <= Len(stores')
      BY LenProperties DEF IInv, StoresOK
    <2>2. GoodOps \subseteq GoodOps'
      BY <2>1, OpsStayGood
    <2>3. QED
      BY <2>2, QueueTail DEF Serving, IInv
  <1>2. StoresOK'
    BY DEF IInv, StoresOK
  <1>3. QED
    BY <1>1, <1>2, CallsStepOK DEF IInv, RuntimeOK, StateOK

LEMMA WriteDocs ==
    ASSUME DocsOK, NEW p \in Personas, NEW doc \in Docs, GoodTurns(doc.turns, p),
           docs' = [docs EXCEPT ![p] = doc]
    PROVE  DocsOK'
  BY DEF DocsOK

LEMMA DocumentTyped ==
    ASSUME NEW p, NEW turns, GoodTurns(turns, p)
    PROVE  Document(turns) \in Docs /\ Document(turns).turns = turns
  BY DEF Document, Docs, Kinds, GoodTurns

LEMMA ServeSaveIInv == ASSUME IInv, ServeSave PROVE IInv'
  <1> DEFINE i == Op.store
             n == Op.n
             written == [stores[i] EXCEPT !.latest = n, !.tried = n]
             tried == [stores[i] EXCEPT !.tried = n]
  <1>1. Op \in GoodOps /\ Op \in Operations /\ Op.op = "save" /\ Serving({"save"})
    BY HeadGood DEF ServeSave, Serving
  <1>2. i \in 1 .. Len(stores) /\ n \in Nat /\ stores \in Seq(Stores) /\ DocsOK
    BY <1>1 DEF GoodOps, Operations, IInv, StoresOK
  <1>3. CallsStep
    <2>1. Deliver("ok") \/ Deliver("error")
      BY DEF ServeSave, Write, Fail
    <2>2. QED
      BY <1>1, <2>1, DeliverStep DEF Outs
  <1>4. DocsOK'
    <2>1. CASE docs' = docs
      BY <1>2, <2>1 DEF DocsOK
    <2>2. CASE docs' = [docs EXCEPT ![Op.persona] = Document(Op.turns)]
      <3>1. Op.persona \in Personas /\ GoodTurns(Op.turns, Op.persona)
        BY <1>1 DEF GoodOps, Operations
      <3>2. QED
        BY <1>2, <2>2, <3>1, WriteDocs, DocumentTyped
    <2>3. QED
      BY <2>1, <2>2 DEF ServeSave, Write, Fail
  <1>5. /\ stores' \in Seq(Stores) /\ Len(stores') = Len(stores)
        /\ \A j \in 1 .. Len(stores) : /\ stores'[j].ok = stores[j].ok
                                       /\ stores'[j].persona = stores[j].persona
    <2>1. stores' = stores \/ stores' = [stores EXCEPT ![i] = written]
          \/ stores' = [stores EXCEPT ![i] = tried]
      BY <1>2 DEF ServeSave
    <2>2. stores[i] \in Stores
      BY <1>2, ElementOfSeq
    <2> HIDE DEF i, n
    <2>3. /\ written \in Stores /\ written.ok = stores[i].ok
          /\ written.persona = stores[i].persona
      BY <1>2, <2>2 DEF Stores
    <2>4. tried \in Stores /\ tried.ok = stores[i].ok /\ tried.persona = stores[i].persona
      BY <1>2, <2>2 DEF Stores
    <2> HIDE DEF written, tried
    <2>5. CASE stores' = stores
      BY <1>2, <2>5
    <2>6. ASSUME NEW e \in Stores, e.ok = stores[i].ok, e.persona = stores[i].persona,
                 stores' = [stores EXCEPT ![i] = e]
          PROVE  /\ stores' \in Seq(Stores) /\ Len(stores') = Len(stores)
                 /\ \A j \in 1 .. Len(stores) : /\ stores'[j].ok = stores[j].ok
                                                /\ stores'[j].persona = stores[j].persona
      <3>1. /\ stores' \in Seq(Stores) /\ Len(stores') = Len(stores)
            /\ \A j \in 1 .. Len(stores) : stores'[j] = IF j = i THEN e ELSE stores[j]
        BY <1>2, <2>6, ExceptSeq
      <3>2. QED
        BY <3>1, <2>6
    <2>7. QED
      BY <2>1, <2>3, <2>4, <2>5, <2>6
  <1>6. QED
    BY <1>1, <1>3, <1>4, <1>5, ServeIInv DEF ServeSave

\* Operations other than saves leave the stores alone.
LEMMA ServeOtherIInv ==
    ASSUME IInv, NEW names, Serving(names), CallsStep, DocsOK',
           UNCHANGED <<target, runtime, state, stores>>
    PROVE  IInv'
  <1>1. stores' \in Seq(Stores) /\ Len(stores') = Len(stores)
    BY DEF IInv, StoresOK
  <1>2. QED
    BY <1>1, ServeIInv

LEMMA ServeLoadIInv == ASSUME IInv, ServeLoad PROVE IInv'
  <1> DEFINE d == Op.call
             p == Op.persona
  <1>1. Op \in GoodOps /\ Op \in Operations /\ Serving({"load"})
        /\ d \in Calls /\ p \in Personas /\ p = calls[d].persona /\ calls[d].pc # "idle"
    BY HeadGood DEF ServeLoad, Serving, GoodOps, Operations
  <1>2. ASSUME NEW session, QuietSession(session, p), NEW out \in Outs, Loaded(session, out)
        PROVE  CallsStep
    <2> DEFINE r == [calls[d] EXCEPT !.pc = "loaded", !.loaded = session, !.out = out]
    <2>1. calls' = [calls EXCEPT ![d] = r]
      BY <1>2 DEF Loaded
    <2>2. calls[d] \in CallRecords /\ session \in Sessions /\ "loaded" \in Places
      BY <1>1, <1>2 DEF IInv, CallsOK, QuietSession, GoodSession, Places
    <2> HIDE DEF d
    <2>3. /\ r \in CallRecords /\ r.pc = "loaded" /\ r.persona = calls[d].persona
          /\ r.api = calls[d].api /\ r.n = calls[d].n /\ r.loaded = session
          /\ r.then = calls[d].then
      BY <2>2 DEF CallRecords
    <2> HIDE DEF r, p
    <2>4. Advances(calls[d], r)
      BY <1>1, <1>2, <2>3 DEF IInv, CallsOK, GoodCall, Advances, QuietSession
    <2>5. QED
      BY <1>1, <2>1, <2>4, OneCallStep DEF IInv
  <1>3. \/ Loaded(NoSession(p), "unavailable")
        \/ Loaded(LoadResult(p, docs[p]), "ok")
        \/ Loaded(LoadResult(p, docs[p]), "unavailable")
    BY DEF ServeLoad
  <1>4. CallsStep
    <2>1. QuietSession(NoSession(p), p)
      BY <1>1, NoSessionQuiet
    <2>2. QuietSession(LoadResult(p, docs[p]), p)
      BY <1>1, LoadResultQuiet DEF IInv, DocsOK
    <2>3. "ok" \in Outs /\ "unavailable" \in Outs
      BY DEF Outs
    <2> HIDE DEF p, d
    <2>4. QED
      BY <1>2, <1>3, <2>1, <2>2, <2>3
  <1>5. DocsOK'
    BY DEF ServeLoad, IInv, DocsOK
  <1>6. QED
    BY <1>1, <1>4, <1>5, ServeOtherIInv DEF ServeLoad

LEMMA ServeEditIInv == ASSUME IInv, ServeEdit PROVE IInv'
  <1> DEFINE p == Op.persona
             turns == Restored(p, docs[p].turns).turns
             edited == Mutated(Op.op, turns, Op.n)
  <1>1. Op \in GoodOps /\ Serving({"delete", "edit"}) /\ p \in Personas
    BY HeadGood DEF ServeEdit, Operations
  <1>2. GoodTurns(turns, p)
    BY <1>1, RestoredQuiet DEF IInv, DocsOK, QuietSession, GoodSession
  <1>3. GoodTurns(edited, p)
    <2> HIDE DEF turns
    <2>1. QED
      BY <1>2, MutatedTurns
  <1>4. CallsStep
    <2>1. Deliver("ok") \/ Deliver("error")
      BY DEF ServeEdit, Write, Fail
    <2>2. QED
      BY <1>1, <2>1, DeliverStep DEF Outs
  <1>5. DocsOK'
    <2>1. docs' = docs \/ docs' = [docs EXCEPT ![p] = Document(edited)]
      BY DEF ServeEdit, Write, Fail
    <2> HIDE DEF edited, p
    <2>2. QED
      BY <1>1, <1>3, <2>1, WriteDocs, DocumentTyped DEF IInv, DocsOK
  <1>6. QED
    BY <1>1, <1>4, <1>5, ServeOtherIInv DEF ServeEdit

LEMMA ServeClearIInv == ASSUME IInv, ServeClear PROVE IInv'
  <1> DEFINE p == Op.persona
             none == [kind |-> "none", turns |-> {}]
  <1>1. Op \in GoodOps /\ Serving({"clear"}) /\ p \in Personas
    BY HeadGood DEF ServeClear, Operations
  <1>2. none \in Docs /\ GoodTurns(none.turns, p)
    BY DEF Docs, Kinds, GoodTurns
  <1>3. CallsStep
    <2>1. Deliver("ok") \/ Deliver("error")
      BY DEF ServeClear, Write, Fail
    <2>2. QED
      BY <1>1, <2>1, DeliverStep DEF Outs
  <1>4. DocsOK'
    <2>1. docs' = docs \/ docs' = [docs EXCEPT ![p] = none]
      BY DEF ServeClear, Write, Fail
    <2> HIDE DEF none, p
    <2>2. QED
      BY <1>1, <1>2, <2>1, WriteDocs DEF IInv, DocsOK
  <1>5. QED
    BY <1>1, <1>3, <1>4, ServeOtherIInv DEF ServeClear

-----------------------------------------------------------------------------
LEMMA InitIInv == ASSUME Init PROVE IInv
  <1>1. PICK kinds \in FirstDocs :
           docs = [p \in Personas |->
                [kind |-> kinds[p],
                 turns |-> IF kinds[p] = "ok" THEN {[id |-> 1, home |-> p, st |-> "complete"]} ELSE {}]]
    BY DEF Init
  <1>2. DocsOK
    <2> SUFFICES ASSUME NEW p \in Personas PROVE docs[p] \in Docs /\ GoodTurns(docs[p].turns, p)
      BY <1>1 DEF DocsOK
    <2>1. docs[p] = [kind |-> kinds[p], turns |-> IF kinds[p] = "ok"
                       THEN {[id |-> 1, home |-> p, st |-> "complete"]} ELSE {}]
      BY <1>1
    <2>2. kinds[p] \in Kinds
      BY AgentAssumption DEF AgentAssumption, Kinds
    <2> DEFINE t == [id |-> 1, home |-> p, st |-> "complete"]
    <2>3. t \in Turns /\ t.home = p /\ t.id = 1
      BY DEF Turns, Terminal
    <2> HIDE DEF t
    <2>4. {t} \in SUBSET Turns /\ {} \in SUBSET Turns /\ GoodTurns({t}, p) /\ GoodTurns({}, p)
      <3>1. 2 \in Nat /\ \A u \in {t} : u.id < 2
        BY <2>3
      <3>2. QED
        BY <2>3, <3>1 DEF GoodTurns
    <2>5. docs[p] = [kind |-> kinds[p], turns |-> {t}] \/ docs[p] = [kind |-> kinds[p], turns |-> {}]
      BY <2>1 DEF t
    <2>6. QED
      BY <2>2, <2>4, <2>5 DEF Docs
  <1> DEFINE f == FirstPersona
             ok == Writable(docs[f])
             new == NewStore(f, ok)
             q == LoadResult(f, docs[f])
  <1>3. f \in Personas /\ QuietSession(q, f) /\ q \in Sessions
    <2>1. f \in Personas
      BY AgentAssumption DEF AgentAssumption
    <2>2. QuietSession(LoadResult(f, docs[f]), f)
      BY <1>2, <2>1, LoadResultQuiet DEF DocsOK
    <2>3. QED
      BY <2>1, <2>2 DEF QuietSession, GoodSession
  <1>4. new \in Stores /\ new.persona = f
    <2>1. ok \in BOOLEAN
      BY DEF Writable
    <2> HIDE DEF ok, f
    <2>2. QED
      BY <1>3, <2>1 DEF NewStore, Stores
  <1>5. stores = <<new>>
    BY DEF Init
  <1>6. state = [session |-> q, store |-> 1,
                 persist_revision |-> 0, active_request |-> NoRequest, request_revision |-> 1,
                 pending_cfg |-> 0, switching |-> FALSE, suspended |-> FALSE,
                 shutting_down |-> FALSE, pending_voice |-> NoVoice]
    BY DEF Init
  <1>7. runtime = [persona |-> f, rev |-> 1, cfg |-> 0] /\ target \in [1 .. MaxConfig -> Personas]
    BY DEF Init
  <1>8. RuntimeOK /\ runtime.persona = f
    <2>1. 0 \in Configs
      BY AgentAssumption DEF AgentAssumption, Configs
    <2> HIDE DEF f
    <2>2. QED
      BY <1>3, <1>7, <2>1 DEF RuntimeOK, Runtimes
  <1>9. StateOK /\ state.store = 1
    <2> HIDE DEF q, f
    <2>1. state \in States /\ state.session = q /\ state.active_request = NoRequest /\ state.store = 1
      BY <1>3, <1>6, NoRequestTyped, NoVoiceTyped DEF States
    <2>2. QED
      BY <1>3, <1>8, <2>1, QuietStateGood DEF StateOK
  <1>10. StoresOK
    <2> HIDE DEF new, f
    <2>1. stores \in Seq(Stores) /\ Len(stores) = 1 /\ stores[1] = new
      BY <1>4, <1>5
    <2>2. QED
      BY <1>4, <1>8, <1>9, <2>1 DEF StoresOK
  <1>11. QueueOK
    <2>1. queue = <<>>
      BY DEF Init
    <2>2. QED
      BY <2>1, EmptySeq DEF QueueOK
  <1>12. CallsOK
    BY IdleCallGood DEF Init, CallsOK
  <1>13. QED
    BY <1>2, <1>8, <1>9, <1>10, <1>11, <1>12 DEF IInv

LEMMA StartIInv == ASSUME IInv, NEW c \in Calls, Start(c) PROVE IInv'
  <1>1. CASE \E rev \in 1 .. MaxConfig : Refresh(c, rev)
    BY <1>1, RefreshIInv
  <1>2. CASE SendInput(c)
    BY <1>2, SendInputIInv
  <1>3. CASE UiCall(c)
    <2>1. "voice" \in {"voice", "take"} /\ "take" \in {"voice", "take"}
      OBVIOUS
    <2>2. QED
      BY <1>3, <2>1, CancelIInv, SuspendIInv, ResumeIInv, VoiceCloneIInv, CancelVoiceIInv DEF UiCall
  <1>4. CASE EditCall(c)
    <2>1. PICK p \in Personas :
             \/ \E n \in Visible(p) : EditClone(c, "delete", p, n) \/ EditClone(c, "edit", p, n)
             \/ EditClone(c, "clear", p, 0)
      BY <1>4 DEF EditCall
    <2>2. Visible(p) \subseteq Nat /\ "delete" \in Edits /\ "edit" \in Edits /\ "clear" \in Edits
      BY VisibleNumbers DEF Edits
    <2>3. QED
      BY <2>1, <2>2, EditCloneIInv
  <1>5. CASE Shutdown(c)
    BY <1>5, ShutdownIInv
  <1>6. QED
    BY <1>1, <1>2, <1>3, <1>4, <1>5 DEF Start

LEMMA AdvanceIInv == ASSUME IInv, NEW c \in Calls, Advance(c) PROVE IInv'
  <1>1. CASE Persist(c)
    BY <1>1, PersistIInv
  <1>2. CASE ApplyStep(c)
    BY <1>2, ApplyRejectIInv, ApplySamePersonaIInv, ApplyDoneIInv, ApplySwitchIInv, ApplyLoadIInv,
       ApplySaveFailedIInv, ApplyInstallIInv, ApplyDiscardIInv, DropApplyIInv DEF ApplyStep
  <1>3. CASE SendStep(c)
    BY <1>3, SendCloneIInv, SendStartIInv, StreamEventIInv, StreamClosedIInv, SendEndIInv
    DEF SendStep
  <1>4. CASE VoiceStep(c)
    BY <1>4, VoiceStartedIInv, TakeTranscriptIInv DEF VoiceStep
  <1>5. CASE EditStep(c)
    BY <1>5, EditElsewhereIInv, EditHereIInv, ClearHereIInv DEF EditStep
  <1>6. CASE Finish(c)
    BY <1>6, FinishIInv
  <1>7. QED
    BY <1>1, <1>2, <1>3, <1>4, <1>5, <1>6 DEF Advance

LEMMA NextIInv == ASSUME IInv, [Next]_vars PROVE IInv'
  <1>1. CASE Serve
    BY <1>1, ServeSaveIInv, ServeLoadIInv, ServeEditIInv, ServeClearIInv DEF Serve
  <1>2. CASE UNCHANGED vars
    BY <1>2, CallsUnchanged, FrameIInv DEF vars, IInv, StateOK
  <1>3. CASE \E c \in Calls : Start(c) \/ Advance(c)
    BY <1>3, StartIInv, AdvanceIInv
  <1>4. QED
    BY <1>1, <1>2, <1>3 DEF Next, Rest

\* The invariant of the Agent.
LEMMA AgentInvariant == Spec => []IInv
  BY InitIInv, NextIInv, PTL DEF Spec

-----------------------------------------------------------------------------
\* In every state the Agent's state is well typed and the turn ids of the
\* session are distinct and below the next one (from_snapshot, start_turn).
THEOREM AgentTypeCorrect == Spec => []TypeOK
  <1>1. IInv => TypeOK
    <2> SUFFICES ASSUME IInv PROVE TypeOK
      OBVIOUS
    <2>1. runtime \in [persona : Personas, rev : Nat, cfg : 0 .. MaxConfig]
      BY DEF IInv, RuntimeOK, Runtimes, Configs
    <2>2. GoodSession(state.session) /\ state \in States /\ state.session \in Sessions
      BY DEF IInv, StateOK, GoodState, GoodSession
    <2>3. state.session.turns \subseteq Turns /\ state.session.home \in Personas
          /\ state.active_request \in Requests
      BY <2>2 DEF States, Sessions
    <2>4. state.store \in DOMAIN stores
      BY LenProperties DEF IInv, StoresOK
    <2>5. \A p \in Personas : docs[p].turns \subseteq Turns
      BY DEF IInv, DocsOK, GoodTurns
    <2>6. \A i \in DOMAIN queue : queue[i].call \in Calls \cup {Background}
      <3>1. DOMAIN queue = 1 .. Len(queue) /\ \A i \in 1 .. Len(queue) : queue[i] \in GoodOps
        BY LenProperties, ElementOfSeq DEF IInv, QueueOK
      <3>2. QED
        BY <3>1 DEF GoodOps, Operations, Actors
    <2>7. \A c \in Calls : calls[c].api \in Apis \cup {"none"}
      BY DEF IInv, CallsOK, CallRecords, ApiNames
    <2>8. /\ \A t, u \in state.session.turns : t.id = u.id => t = u
          /\ \A t \in state.session.turns : t.id < state.session.next
      BY <2>2 DEF GoodSession, GoodTurns
    <2>9. QED
      BY <2>1, <2>3, <2>4, <2>5, <2>6, <2>7, <2>8 DEF TypeOK
  <1>2. QED
    BY <1>1, AgentInvariant, PTL

\* An answer never streams without its request and no two stream at once,
\* for any number of calls, personas and configurations.
THEOREM AnswersHaveOneOwner == Spec => []ActiveRequestOwnsResponse
  <1>1. IInv => ActiveRequestOwnsResponse
    <2> SUFFICES ASSUME IInv PROVE ActiveRequestOwnsResponse
      OBVIOUS
    <2> DEFINE streaming == {t \in state.session.turns : t.st = "streaming"}
    <2>1. /\ state.active_request.rid = state.session.active
          /\ state.session.active = 0 => streaming = {}
          /\ state.session.active # 0 => \E t : streaming = {t}
      BY DEF IInv, StateOK, GoodState, GoodSession, Streaming
    <2>2. Cardinality({}) = 0 /\ \A t : Cardinality({t}) = 1
      BY FS_EmptySet, FS_Singleton
    <2>3. Cardinality(streaming) = IF state.session.active = 0 THEN 0 ELSE 1
      <3> HIDE DEF streaming
      <3>1. QED
        BY <2>1, <2>2
    <2>4. QED
      BY <2>1, <2>3 DEF ActiveRequestOwnsResponse
  <1>2. QED
    BY <1>1, AgentInvariant, PTL

\* No answer is produced while the pet is hidden or after a shutdown, whatever
\* calls were on their way then (suspend_and_discard_active_turn, shutdown).
THEOREM SilencedPetStaysSilent == Spec => []SilenceHolds
  <1>1. IInv => HiddenPetIsSilent
    BY DEF IInv, StateOK, GoodState, HiddenPetIsSilent
  <1>2. IInv => NoReplyAfterShutdown
    BY DEF IInv, StateOK, GoodState, NoReplyAfterShutdown
  <1>3. QED
    BY <1>1, <1>2, AgentInvariant, PTL DEF SilenceHolds

\* However switches, saves, edits and answers interleave, a turn is only ever
\* in the session, the queued saves and the document of its own persona, and
\* the running session and its store belong to the persona the runtime
\* answers as.
THEOREM PersonasStayApart == Spec => []ConversationsStayApart
  <1>1. IInv => TurnsKeepTheirPersona
    <2> SUFFICES ASSUME IInv PROVE TurnsKeepTheirPersona
      OBVIOUS
    <2>1. \A p \in Personas : \A t \in docs[p].turns : t.home = p
      BY DEF IInv, DocsOK, GoodTurns
    <2>2. \A i \in DOMAIN queue : \A t \in queue[i].turns : t.home = queue[i].persona
      <3>1. DOMAIN queue = 1 .. Len(queue) /\ \A i \in 1 .. Len(queue) : queue[i] \in GoodOps
        BY LenProperties, ElementOfSeq DEF IInv, QueueOK
      <3>2. QED
        BY <3>1 DEF GoodOps, GoodTurns
    <2>3. \A t \in state.session.turns : t.home = state.session.home
      BY DEF IInv, StateOK, GoodState, GoodSession, GoodTurns
    <2>4. QED
      BY <2>1, <2>2, <2>3 DEF TurnsKeepTheirPersona
  <1>2. IInv => SessionFollowsRuntime
    BY DEF IInv, StateOK, GoodState, StoresOK, SessionFollowsRuntime, StoreOf
  <1>3. QED
    BY <1>1, <1>2, AgentInvariant, PTL DEF ConversationsStayApart
=============================================================================
