------------------------ MODULE VoicePipelineProofs ------------------------
(***************************************************************************)
(* The safety properties of voice input, proved for any configurations,    *)
(* any number of utterances, presses and incidents.                        *)
(*                                                                         *)
(* A handler of the worker is a chain of functions on the record of what   *)
(* the worker owns, so the parts of the invariant take that record (s, or  *)
(* its fields w, m, q, ev, ends) and the rest of the state (d the desired  *)
(* revision, cs the commands, n the window, h the Whisper thread) as       *)
(* parameters, and there is one lemma for each function.                   *)
(***************************************************************************)
EXTENDS VoicePipeline, FiniteSetTheorems, SequenceTheorems, TLAPS

EndTypes == {"UtteranceCancelled", "TranscriptReady"}
EventTypes == EndTypes \cup {"SpeechStarted", "TranscriptionRequested", "Error"}

Events == {e \in [type : EventTypes, rev : Nat, utt : 0..MaxUtterances] :
               e.type = "Error" => e.utt = None}
Workers == [pc : {"wait", "drain", "join", "done"}, rev : Nat,
            mode : {"off", "push", "auto"}, backend : {"local", "remote", "none"},
            vad : BOOLEAN, capture : Nat, manual : {"none", "short", "long"},
            active : 0..MaxUtterances, next : 1..(MaxUtterances + 1),
            pending : BOOLEAN, trans : 0..MaxUtterances]
Mics == [wake : BOOLEAN, buffered : BOOLEAN, overflow : BOOLEAN]
Queues == [job : Job, cancelled : Job, shutdown : BOOLEAN]
Whispers == [pc : {"wait", "taken", "infer", "send", "done"}, job : Job, ok : BOOLEAN]
Windows == [mode : {"off", "push", "auto"}, remote : Job, pending : 0..MaxUtterances,
            sent : 0..MaxUtterances, held : BOOLEAN, presses : Nat, closed : BOOLEAN]
Ends == [Utterances -> Nat]

Commands ==
    [type : {"Configure"}, rev : Nat, setting : Settings]
        \cup [type : {"PushToTalk"}, rev : Nat, pressed : BOOLEAN]
        \cup [type : {"AudioReady", "CaptureFailed"}, rev : Nat, capture : Nat \ {None}]
        \cup [type : {"TranscriptionFinished"}, rev : Nat, utt : Utterances, ok : BOOLEAN]
        \cup [type : {"CancelTranscription"}, rev : Nat, utt : Utterances]
        \cup {Shutdown}

Works(w) == w.pc \in {"wait", "drain"}

\* A record of the handlers' state.
Owned == [w : Workers, m : Mics, q : Queues, ev : Seq(Events), ends : Ends]

Typed(s, d, cs, n, h) ==
    /\ s \in Owned /\ d \in Nat /\ n \in Windows /\ h \in Whispers
    /\ cs \in Seq(Commands)

-----------------------------------------------------------------------------

\* The worker's own fields: at most one utterance is recorded or transcribed, and
\* it is the newest.
Fields(w) ==
    /\ w.active # None => w.active + 1 = w.next /\ w.trans = None
    /\ w.trans # None => w.trans + 1 = w.next /\ w.backend # "none"
    /\ w.pending <=> w.trans # None
    /\ ~Works(w) => w.active = None /\ w.trans = None

\* What is recorded, and by whom.
Recording(w) ==
    /\ w.pc = "drain" => w.capture # None
    /\ w.capture # None => /\ Works(w)
                           /\ \/ w.mode = "auto" /\ w.vad
                              \/ w.mode = "push" /\ w.manual # "none"
    /\ (Works(w) /\ w.manual # "none") => w.trans = None
    /\ (Works(w) /\ w.manual = "long") => w.active # None
    /\ (Works(w) /\ w.mode = "auto" /\ ~w.vad) =>
           w.active = None /\ w.trans = None /\ w.manual = "none"

\* What the microphone holds has a wake-up under way.
Wakes(w, m, cs, d) ==
    w.capture # None =>
        /\ (m.wake /\ w.rev = d) =>
               \E i \in 1..Len(cs) : cs[i] = AudioReady(w.rev, w.capture)
        /\ (m.buffered /\ w.pc = "wait") => m.wake

\* An utterance whose recording is over.
Past(u, w) == u < w.next /\ (u = w.active => u = None)

JobOK(job, w) ==
    job # NoJob => /\ job.rev <= w.rev /\ job.utt # None /\ Past(job.utt, w)
                   /\ job.rev = w.rev => w.backend = "local"

Jobs(w, q, h) ==
    /\ JobOK(q.job, w) /\ JobOK(h.job, w)
    /\ h.pc \in {"wait", "done"} <=> h.job = NoJob
    /\ Past(q.cancelled.utt, w)
    /\ q.cancelled.utt = w.trans => w.trans = None
    /\ q.shutdown => ~Works(w)

\* Every utterance ends at most once, and one that has not ended yet is not behind the worker.
EndsOK(w, ends) ==
    /\ \A u \in Utterances : ends[u] <= 1
    /\ \A u \in Utterances : (u >= w.next \/ u \in {w.active, w.trans}) => ends[u] = 0

\* The end of an utterance is among the events after the i-th.
EndAfter(ev, i, d, types, u) ==
    \E j \in 1..Len(ev) : /\ i < j /\ ev[j].rev = d
                          /\ ev[j].type = "Error" \/ (ev[j].type \in types /\ ev[j].utt = u)

Requests(ev, d, u) ==
    \E i \in 1..Len(ev) : ev[i] = Event("TranscriptionRequested", d, u)

\* The order of events.
Stream(w, ev, ends, d) ==
    /\ w.rev <= d
    /\ \A i \in 1..Len(ev) :
        /\ ev[i].rev <= w.rev
        /\ ev[i].type # "Error" => ev[i].utt # None /\ ev[i].utt < w.next
        /\ ev[i].type \in EndTypes => ends[ev[i].utt] = 1
        /\ ev[i].type = "SpeechStarted" =>
               \A j \in 1..Len(ev) : (i < j /\ ev[j].type = "SpeechStarted") => ev[i].utt < ev[j].utt
        /\ ev[i].type = "TranscriptionRequested" =>
               /\ ev[i].utt # w.active
               /\ \A j \in 1..Len(ev) : (i < j /\ ev[j].type = "TranscriptionRequested") => ev[i].utt < ev[j].utt

\* What an event begins, a later one or the worker ends.
Owed(w, ev, d) ==
    \A i \in 1..Len(ev) :
        /\ (ev[i].type = "SpeechStarted" /\ ev[i].rev = d) =>
               ev[i].utt \in {w.active, w.trans} \/ EndAfter(ev, i, d, EndTypes, ev[i].utt)
        /\ (ev[i].type = "TranscriptionRequested" /\ ev[i].rev = d) =>
               /\ w.backend = "remote"
               /\ ev[i].utt = w.trans \/ EndAfter(ev, i, d, {"UtteranceCancelled"}, ev[i].utt)

\* What the window holds is of the current revision, and the worker or an event ends it.
Holds(w, ev, ends, d, n) ==
    /\ n.pending # None =>
           /\ w.rev = d /\ n.pending < w.next /\ n.sent < n.pending
           /\ n.pending \in {w.active, w.trans} \/ EndAfter(ev, 0, d, EndTypes, n.pending)
    /\ n.remote # NoJob =>
           /\ w.rev = d /\ n.remote.rev = d /\ n.remote.utt # None /\ Past(n.remote.utt, w)
           /\ w.backend = "remote"
           /\ n.remote.utt = w.trans \/ EndAfter(ev, 0, d, {"UtteranceCancelled"}, n.remote.utt)
           /\ ~Requests(ev, d, n.remote.utt)
    /\ n.sent < w.next
    /\ n.sent # None => ends[n.sent] = 1
    /\ \A i \in 1..Len(ev) : ev[i].type = "SpeechStarted" => n.pending < ev[i].utt /\ n.sent < ev[i].utt

\* A result is of a request that nobody else answers.
Results(w, ev, d, cs, n) ==
    \A i \in 1..Len(cs) :
        /\ cs[i].type = "Configure" => cs[i].rev <= d
        /\ cs[i].type = "TranscriptionFinished" =>
               /\ cs[i].rev <= w.rev /\ Past(cs[i].utt, w)
               /\ cs[i].rev = d => /\ ~Requests(ev, d, cs[i].utt)
                                   /\ n.remote # [rev |-> d, utt |-> cs[i].utt]

\* Someone transcribes what the worker waits for.
Served(w, q, ev, d, cs, n, h) ==
    (w.trans # None /\ w.rev = d /\ ~n.closed) =>
        \/ \E i \in 1..Len(cs) : \E ok \in BOOLEAN : cs[i] = Finished(d, w.trans, ok)
        \/ /\ w.backend = "local"
           /\ [rev |-> d, utt |-> w.trans] \in {q.job, h.job}
        \/ /\ w.backend = "remote"
           /\ \/ Requests(ev, d, w.trans)
              \/ n.remote = [rev |-> d, utt |-> w.trans]
              \/ \E i \in 1..Len(cs) : cs[i] = Cancel(d, w.trans)

\* What an event, a result or the window says of the worker's utterances.
Related(w, ev, ends, d, cs, n) ==
    /\ Stream(w, ev, ends, d)
    /\ Owed(w, ev, d)
    /\ Holds(w, ev, ends, d, n)
    /\ Results(w, ev, d, cs, n)

\* What every function of the worker keeps.
Kept(s, d, cs, n, h) ==
    /\ Typed(s, d, cs, n, h)
    /\ Fields(s.w)
    /\ Jobs(s.w, s.q, h)
    /\ EndsOK(s.w, s.ends)
    /\ Related(s.w, s.ev, s.ends, d, cs, n)
    /\ Served(s.w, s.q, s.ev, d, cs, n, h)

\* The inductive invariant: what the worker's functions keep, why the microphone
\* is open, and that what it holds is read.
IInv ==
    /\ Kept(Own, desired, commands, window, whisper)
    /\ Recording(worker)
    /\ Wakes(worker, mic, commands, desired)
    /\ incidents \in 0..MaxIncidents

-----------------------------------------------------------------------------
(* Sequences and records.                                                  *)

LEMMA Appended ==
    ASSUME NEW S, NEW q \in Seq(S), NEW e \in S
    PROVE  /\ Append(q, e) \in Seq(S)
           /\ Len(q) \in Nat /\ Len(Append(q, e)) = Len(q) + 1
           /\ Append(q, e)[Len(q) + 1] = e
           /\ \A i \in 1..Len(q) : Append(q, e)[i] = q[i]
  OBVIOUS

LEMMA Taken ==
    ASSUME NEW S, NEW q \in Seq(S), q # <<>>
    PROVE  /\ Tail(q) \in Seq(S) /\ Head(q) = q[1] /\ Head(q) \in S
           /\ Len(q) \in Nat \ {0} /\ Len(Tail(q)) = Len(q) - 1
           /\ \A i \in 1..Len(Tail(q)) : i + 1 \in 1..Len(q) /\ Tail(q)[i] = q[i + 1]
           /\ \A i \in 1..Len(q) : i # 1 => i - 1 \in 1..Len(Tail(q)) /\ Tail(q)[i - 1] = q[i]
  OBVIOUS

LEMMA Bounds == MaxUtterances \in Nat /\ MaxPresses \in Nat /\ MaxIncidents \in Nat
  BY VoiceAssumption

LEMMA UtteranceIs ==
    \A u : u \in Utterances <=> u \in 0..MaxUtterances /\ u # None
  BY Bounds DEF Utterances, None

LEMMA WorkerFields ==
    ASSUME NEW w \in Workers
    PROVE  /\ w.pc \in {"wait", "drain", "join", "done"} /\ w.rev \in Nat
           /\ w.mode \in {"off", "push", "auto"} /\ w.backend \in {"local", "remote", "none"}
           /\ w.vad \in BOOLEAN /\ w.capture \in Nat /\ w.manual \in {"none", "short", "long"}
           /\ w.active \in Nat /\ w.active <= MaxUtterances
           /\ w.next \in Nat /\ 1 <= w.next /\ w.next <= MaxUtterances + 1
           /\ w.pending \in BOOLEAN /\ w.trans \in Nat /\ w.trans <= MaxUtterances
  BY Bounds DEF Workers

LEMMA JobFields ==
    ASSUME NEW job \in Job
    PROVE  /\ job.rev \in Nat /\ job.utt \in Nat /\ job.utt <= MaxUtterances
           /\ job.rev = 0 /\ job.utt = 0 => job = NoJob
  BY Bounds DEF Job, NoJob, None

LEMMA EventFields ==
    ASSUME NEW e \in Events
    PROVE  /\ e.type \in EventTypes /\ e.rev \in Nat /\ e.utt \in Nat /\ e.utt <= MaxUtterances
           /\ e = Event(e.type, e.rev, e.utt)
           /\ e.type = "Error" => e.utt = None
  BY Bounds DEF Events, Event

LEMMA EventIs ==
    ASSUME NEW type \in EventTypes, NEW rev \in Nat, NEW u \in 0..MaxUtterances,
           type = "Error" => u = None
    PROVE  /\ Event(type, rev, u) \in Events
           /\ Event(type, rev, u).type = type /\ Event(type, rev, u).rev = rev
           /\ Event(type, rev, u).utt = u
  BY DEF Events, Event

LEMMA CommandFields ==
    ASSUME NEW c \in Commands
    PROVE  /\ c.type = "Configure" => c.rev \in Nat /\ c.setting \in Settings
           /\ c.type = "TranscriptionFinished" =>
                  c.rev \in Nat /\ c.utt \in Utterances /\ c.ok \in BOOLEAN
           /\ c.type = "CancelTranscription" => c.rev \in Nat /\ c.utt \in Utterances
           /\ c.type = "PushToTalk" => c.rev \in Nat /\ c.pressed \in BOOLEAN
           /\ c.type \in {"AudioReady", "CaptureFailed"} => c.rev \in Nat /\ c.capture \in Nat \ {None}
  BY DEF Commands, Shutdown

LEMMA CommandIs ==
    /\ Shutdown \in Commands /\ Shutdown.type = "Shutdown"
    /\ \A rev \in Nat :
        /\ \A setting \in Settings : /\ Configure(rev, setting) \in Commands
                                     /\ Configure(rev, setting).type = "Configure"
                                     /\ Configure(rev, setting).rev = rev
        /\ \A pressed \in BOOLEAN : /\ Talk(rev, pressed) \in Commands
                                    /\ Talk(rev, pressed).type = "PushToTalk"
        /\ \A id \in Nat \ {None} :
               /\ AudioReady(rev, id) \in Commands /\ CaptureFailed(rev, id) \in Commands
               /\ AudioReady(rev, id).type = "AudioReady"
               /\ CaptureFailed(rev, id).type = "CaptureFailed"
        /\ \A u \in Utterances : /\ Cancel(rev, u) \in Commands
                                 /\ Cancel(rev, u).type = "CancelTranscription"
        /\ \A u \in Utterances, ok \in BOOLEAN :
               /\ Finished(rev, u, ok) \in Commands
               /\ Finished(rev, u, ok).type = "TranscriptionFinished"
               /\ Finished(rev, u, ok).rev = rev /\ Finished(rev, u, ok).utt = u
  BY DEF Commands, Shutdown, Configure, Talk, AudioReady, CaptureFailed, Cancel, Finished

LEMMA EndAppended ==
    ASSUME NEW ev \in Seq(Events), NEW e \in Events, NEW i \in Nat, NEW d, NEW types, NEW u
    PROVE  /\ EndAfter(ev, i, d, types, u) => EndAfter(Append(ev, e), i, d, types, u)
           /\ (/\ i <= Len(ev) /\ e.rev = d
               /\ e.type = "Error" \/ (e.type \in types /\ e.utt = u))
                  => EndAfter(Append(ev, e), i, d, types, u)
<1> DEFINE ev2 == Append(ev, e)
<1>1. /\ Len(ev) \in Nat /\ Len(ev2) = Len(ev) + 1 /\ ev2[Len(ev) + 1] = e
      /\ \A j \in 1..Len(ev) : ev2[j] = ev[j]
  BY Appended
<1> HIDE DEF ev2
<1>2. EndAfter(ev, i, d, types, u) => EndAfter(ev2, i, d, types, u)
  BY <1>1 DEF EndAfter
<1>3. (/\ i <= Len(ev) /\ e.rev = d
       /\ e.type = "Error" \/ (e.type \in types /\ e.utt = u)) => EndAfter(ev2, i, d, types, u)
  BY <1>1 DEF EndAfter
<1> QED
  BY <1>2, <1>3 DEF ev2

LEMMA EndTaken ==
    ASSUME NEW ev \in Seq(Events), ev # <<>>, NEW d, NEW types, NEW u
    PROVE  /\ \A i \in 1..Len(ev) : EndAfter(ev, i, d, types, u) => EndAfter(Tail(ev), i - 1, d, types, u)
           /\ EndAfter(ev, 0, d, types, u) =>
                  \/ EndAfter(Tail(ev), 0, d, types, u)
                  \/ /\ Head(ev).rev = d
                     /\ Head(ev).type = "Error" \/ (Head(ev).type \in types /\ Head(ev).utt = u)
<1> DEFINE ev2 == Tail(ev)
<1>1. /\ Len(ev) \in Nat \ {0} /\ Len(ev2) = Len(ev) - 1 /\ Head(ev) = ev[1]
      /\ \A j \in 1..Len(ev) : j # 1 => j - 1 \in 1..Len(ev2) /\ ev2[j - 1] = ev[j]
  BY Taken
<1> HIDE DEF ev2
<1>2. ASSUME NEW i \in 1..Len(ev), EndAfter(ev, i, d, types, u)
      PROVE  EndAfter(ev2, i - 1, d, types, u)
  <2>1. PICK j \in 1..Len(ev) : /\ i < j /\ ev[j].rev = d
                                /\ ev[j].type = "Error" \/ (ev[j].type \in types /\ ev[j].utt = u)
    BY <1>2 DEF EndAfter
  <2>2. j # 1 /\ i - 1 < j - 1
    BY <2>1, <1>1
  <2> QED
    BY <1>1, <2>1, <2>2 DEF EndAfter
<1>3. ASSUME EndAfter(ev, 0, d, types, u)
      PROVE  \/ EndAfter(ev2, 0, d, types, u)
             \/ /\ Head(ev).rev = d
                /\ Head(ev).type = "Error" \/ (Head(ev).type \in types /\ Head(ev).utt = u)
  <2>1. PICK j \in 1..Len(ev) : /\ 0 < j /\ ev[j].rev = d
                                /\ ev[j].type = "Error" \/ (ev[j].type \in types /\ ev[j].utt = u)
    BY <1>3 DEF EndAfter
  <2>2. CASE j = 1
    BY <1>1, <2>1, <2>2
  <2>3. CASE j # 1
    BY <1>1, <2>1, <2>3 DEF EndAfter
  <2> QED
    BY <2>2, <2>3
<1> QED
  BY <1>2, <1>3 DEF ev2

LEMMA RequestsAppended ==
    ASSUME NEW ev \in Seq(Events), NEW e \in Events, NEW d, NEW u
    PROVE  Requests(Append(ev, e), d, u)
               <=> (Requests(ev, d, u) \/ e = Event("TranscriptionRequested", d, u))
<1> DEFINE ev2 == Append(ev, e)
<1>1. /\ Len(ev) \in Nat /\ Len(ev2) = Len(ev) + 1 /\ ev2[Len(ev) + 1] = e
      /\ \A j \in 1..Len(ev) : ev2[j] = ev[j]
  BY Appended
<1> HIDE DEF ev2
<1>2. Requests(ev2, d, u) <=> (Requests(ev, d, u) \/ e = Event("TranscriptionRequested", d, u))
  BY <1>1 DEF Requests
<1> QED
  BY <1>2 DEF ev2

LEMMA RequestsTaken ==
    ASSUME NEW ev \in Seq(Events), ev # <<>>, NEW d, NEW u
    PROVE  Requests(ev, d, u)
               <=> (Requests(Tail(ev), d, u) \/ Head(ev) = Event("TranscriptionRequested", d, u))
<1> DEFINE ev2 == Tail(ev)
<1>1. /\ Len(ev) \in Nat \ {0} /\ Len(ev2) = Len(ev) - 1 /\ Head(ev) = ev[1]
      /\ \A j \in 1..Len(ev2) : j + 1 \in 1..Len(ev) /\ ev2[j] = ev[j + 1]
      /\ \A j \in 1..Len(ev) : j # 1 => j - 1 \in 1..Len(ev2) /\ ev2[j - 1] = ev[j]
  BY Taken
<1> HIDE DEF ev2
<1>2. Requests(ev2, d, u) => Requests(ev, d, u)
  BY <1>1 DEF Requests
<1>3. Head(ev) = Event("TranscriptionRequested", d, u) => Requests(ev, d, u)
  BY <1>1 DEF Requests
<1>4. Requests(ev, d, u) => Requests(ev2, d, u) \/ Head(ev) = Event("TranscriptionRequested", d, u)
  BY <1>1 DEF Requests
<1> QED
  BY <1>2, <1>3, <1>4 DEF ev2

-----------------------------------------------------------------------------
(* The parts that relate the worker to the events and to the window, when  *)
(* the worker goes from w to w2.                                           *)

\* What is past stays so.
Later(w, w2) ==
    /\ w2.rev = w.rev /\ w2.backend = w.backend
    /\ w.next <= w2.next
    /\ w2.active \in {None, w.active} \/ w2.active = w.next

LEMMA PastStays ==
    ASSUME NEW w \in Workers, NEW w2 \in Workers, Later(w, w2), NEW u \in Nat, Past(u, w)
    PROVE  Past(u, w2)
  BY WorkerFields DEF Later, Past

\* Nothing is said: nobody listens any more, or nothing is given up.
LEMMA Silently ==
    ASSUME NEW w \in Workers, NEW w2 \in Workers, NEW ev \in Seq(Events), NEW ends \in Ends,
           NEW d \in Nat, NEW cs \in Seq(Commands), NEW n \in Windows,
           Related(w, ev, ends, d, cs, n), Later(w, w2),
           w.rev # d \/ /\ w.active # None => w.active \in {w2.active, w2.trans}
                        /\ w.trans # None => w.trans = w2.trans
    PROVE  Related(w2, ev, ends, d, cs, n)
<1> USE WorkerFields
<1>e. \A i \in 1..Len(ev) : ev[i] \in Events /\ ev[i].utt \in Nat /\ ev[i].rev \in Nat
  BY EventFields
<1>n. n.remote.utt \in Nat /\ n.pending \in Nat /\ n.sent \in Nat
  BY JobFields, Bounds DEF Windows
<1>r. /\ w2.rev = w.rev /\ w2.backend = w.backend /\ w.rev <= d
      /\ w.next <= w2.next /\ w.next \in Nat /\ w2.next \in Nat
  BY DEF Later, Related, Stream
<1>1. Stream(w2, ev, ends, d)
  <2>1. \A i \in 1..Len(ev) :
            (ev[i].type # "Error" => ev[i].utt # None /\ ev[i].utt < w2.next)
    BY <1>e, <1>r DEF Related, Stream
  <2>2. ASSUME NEW i \in 1..Len(ev), ev[i].type = "TranscriptionRequested"
        PROVE  ev[i].utt # w2.active
    BY <2>2, <1>e DEF Related, Stream, Later, None
  <2> QED
    BY <1>r, <2>1, <2>2 DEF Related, Stream
<1>2. Owed(w2, ev, d)
  <2>1. CASE w.rev # d
    <3>1. \A i \in 1..Len(ev) : ev[i].rev # d
      BY <2>1, <1>e, <1>r DEF Related, Stream
    <3> QED
      BY <3>1 DEF Owed
  <2>2. CASE w.rev = d
    <3>1. \A i \in 1..Len(ev) : ev[i].type # "Error" => ev[i].utt # None
      BY DEF Related, Stream
    <3> QED
      BY <2>2, <1>r, <3>1 DEF Owed, Related
  <2> QED
    BY <2>1, <2>2
<1>3. Holds(w2, ev, ends, d, n)
  <2>1. n.pending # None =>
           /\ w2.rev = d /\ n.pending < w2.next /\ n.sent < n.pending
           /\ n.pending \in {w2.active, w2.trans} \/ EndAfter(ev, 0, d, EndTypes, n.pending)
    BY <1>r, <1>n DEF Related, Holds
  <2>2. n.remote # NoJob =>
           /\ w2.rev = d /\ n.remote.rev = d /\ n.remote.utt # None /\ Past(n.remote.utt, w2)
           /\ w2.backend = "remote"
           /\ n.remote.utt = w2.trans \/ EndAfter(ev, 0, d, {"UtteranceCancelled"}, n.remote.utt)
           /\ ~Requests(ev, d, n.remote.utt)
    BY <1>r, <1>n, PastStays DEF Related, Holds
  <2>3. n.sent < w2.next
    BY <1>r, <1>n DEF Related, Holds
  <2> QED
    BY <2>1, <2>2, <2>3 DEF Related, Holds
<1>4. Results(w2, ev, d, cs, n)
  <2>1. ASSUME NEW i \in 1..Len(cs), cs[i].type = "TranscriptionFinished"
        PROVE  Past(cs[i].utt, w2)
    <3>1. cs[i].utt \in Nat
      BY <2>1, CommandFields DEF Utterances
    <3> QED
      BY <2>1, <3>1, PastStays DEF Related, Results
  <2> QED
    BY <1>r, <2>1 DEF Related, Results
<1> QED
  BY <1>1, <1>2, <1>3, <1>4 DEF Related

\* An event is sent: it says of what the worker gives up how it ended.
Says(e, w, w2, ev, ends, ends2, d, n) ==
    /\ e.rev = d /\ w.rev = d
    /\ e.type # "Error" => e.utt # None /\ e.utt < w2.next
    /\ \A u \in Utterances : ends[u] = 1 => ends2[u] = 1
    /\ e.type \in EndTypes => ends2[e.utt] = 1
    /\ e.type = "SpeechStarted" => e.utt = w.next /\ e.utt = w2.active
    /\ e.type = "TranscriptionRequested" =>
           /\ e.utt = w.active /\ e.utt = w2.trans /\ w2.active = None /\ w2.backend = "remote"
           /\ w.active + 1 = w.next
    /\ e.type # "Error" =>
           \A u \in {w.active, w.trans} \ {None} :
               u \in {w2.active, w2.trans} \/ (e.type \in EndTypes /\ e.utt = u)
    /\ w.trans # None =>
           \/ w2.trans = w.trans
           \/ e.type = "Error" \/ (e.type = "UtteranceCancelled" /\ e.utt = w.trans)
           \/ ~Requests(ev, d, w.trans) /\ n.remote # [rev |-> d, utt |-> w.trans]

LEMMA Announced ==
    ASSUME NEW w \in Workers, NEW w2 \in Workers, NEW ev \in Seq(Events), NEW e \in Events,
           NEW ends \in Ends, NEW ends2 \in Ends,
           NEW d \in Nat, NEW cs \in Seq(Commands), NEW n \in Windows,
           Related(w, ev, ends, d, cs, n), Later(w, w2), Says(e, w, w2, ev, ends, ends2, d, n)
    PROVE  Related(w2, Append(ev, e), ends2, d, cs, n)
<1> USE WorkerFields
<1> DEFINE ev2 == Append(ev, e)
<1>a. /\ ev2 \in Seq(Events) /\ Len(ev) \in Nat /\ Len(ev2) = Len(ev) + 1 /\ ev2[Len(ev) + 1] = e
      /\ \A i \in 1..Len(ev) : ev2[i] = ev[i]
  BY Appended
<1>b. \A i \in Nat : \A types, u :
         /\ EndAfter(ev, i, d, types, u) => EndAfter(ev2, i, d, types, u)
         /\ (/\ i <= Len(ev) /\ e.rev = d
             /\ e.type = "Error" \/ (e.type \in types /\ e.utt = u)) => EndAfter(ev2, i, d, types, u)
  BY EndAppended
<1>c. \A u : Requests(ev2, d, u) <=> (Requests(ev, d, u) \/ e = Event("TranscriptionRequested", d, u))
  BY RequestsAppended
<1> HIDE DEF ev2
<1>e. /\ \A i \in 1..Len(ev) : ev[i] \in Events /\ ev[i].utt \in Nat /\ ev[i].utt <= MaxUtterances
                               /\ ev[i].rev \in Nat
      /\ e.utt \in Nat /\ e.rev \in Nat /\ e.utt <= MaxUtterances
      /\ \A u : e = Event("TranscriptionRequested", d, u) => e.type = "TranscriptionRequested" /\ e.utt = u
  BY EventFields DEF Event
<1>n. n.remote.utt \in Nat /\ n.pending \in Nat /\ n.sent \in Nat /\ n.sent <= MaxUtterances
  BY JobFields, Bounds DEF Windows
<1>r. /\ w2.rev = d /\ w.rev = d /\ w2.backend = w.backend /\ w.next <= w2.next /\ e.rev = d
  BY DEF Later, Says
<1>i. \A i \in 1..Len(ev2) : i \in 1..Len(ev) \/ i = Len(ev) + 1
  BY <1>a
<1>1. Stream(w2, ev2, ends2, d)
  <2>1. ASSUME NEW i \in 1..Len(ev2)
        PROVE  /\ ev2[i].rev <= w2.rev
               /\ ev2[i].type # "Error" => ev2[i].utt # None /\ ev2[i].utt < w2.next
               /\ ev2[i].type \in EndTypes => ends2[ev2[i].utt] = 1
               /\ ev2[i].type = "TranscriptionRequested" => ev2[i].utt # w2.active
    <3>1. CASE i \in 1..Len(ev)
      <4>1. ev[i].utt # None => ev[i].utt \in Utterances
        BY <3>1, <1>e, Bounds DEF Utterances, None
      <4>2. ev2[i] = ev[i] /\ ev[i].rev <= w.rev
        BY <3>1, <1>a DEF Related, Stream
      <4>3. ev[i].type # "Error" => ev[i].utt # None /\ ev[i].utt < w2.next
        BY <3>1, <1>e, <1>r DEF Related, Stream
      <4>4. ev[i].type \in EndTypes => ends2[ev[i].utt] = 1
        BY <3>1, <4>1, <4>3 DEF Related, Stream, Says, EndTypes
      <4>5. ev[i].type = "TranscriptionRequested" => ev[i].utt # w2.active
        BY <3>1, <1>e, <4>3 DEF Related, Stream, Later
      <4> QED
        BY <1>r, <4>2, <4>3, <4>4, <4>5
    <3>2. CASE i = Len(ev) + 1
      BY <3>2, <1>a, <1>r DEF Says
    <3> QED
      BY <3>1, <3>2, <1>i
  <2>2. ASSUME NEW i \in 1..Len(ev2), NEW j \in 1..Len(ev2), i < j,
               ev2[i].type = "SpeechStarted", ev2[j].type = "SpeechStarted"
        PROVE  ev2[i].utt < ev2[j].utt
    <3>1. i \in 1..Len(ev) /\ ev2[i] = ev[i]
      BY <2>2, <1>a, <1>i
    <3>2. CASE j \in 1..Len(ev)
      BY <2>2, <3>1, <3>2, <1>a DEF Related, Stream
    <3>3. CASE j = Len(ev) + 1
      BY <2>2, <3>1, <3>3, <1>a DEF Related, Stream, Says
    <3> QED
      BY <3>2, <3>3, <1>i
  <2>3. ASSUME NEW i \in 1..Len(ev2), NEW j \in 1..Len(ev2), i < j,
               ev2[i].type = "TranscriptionRequested", ev2[j].type = "TranscriptionRequested"
        PROVE  ev2[i].utt < ev2[j].utt
    <3>1. i \in 1..Len(ev) /\ ev2[i] = ev[i]
      BY <2>3, <1>a, <1>i
    <3>2. CASE j \in 1..Len(ev)
      BY <2>3, <3>1, <3>2, <1>a DEF Related, Stream
    <3>3. CASE j = Len(ev) + 1
      <4>1. ev[i].utt < w.next /\ ev[i].utt # w.active /\ ev[i].utt \in Nat
        BY <2>3, <3>1, <1>e DEF Related, Stream
      <4>2. ev2[j].utt = w.active /\ w.active + 1 = w.next
        BY <2>3, <3>3, <1>a DEF Says
      <4> QED
        BY <3>1, <4>1, <4>2
    <3> QED
      BY <3>2, <3>3, <1>i
  <2> QED
    BY <1>r, <2>1, <2>2, <2>3 DEF Stream
<1>2. Owed(w2, ev2, d)
  <2>1. ASSUME NEW i \in 1..Len(ev2), ev2[i].type = "SpeechStarted", ev2[i].rev = d
        PROVE  ev2[i].utt \in {w2.active, w2.trans} \/ EndAfter(ev2, i, d, EndTypes, ev2[i].utt)
    <3>1. CASE i \in 1..Len(ev)
      <4>1. ev2[i] = ev[i] /\ i \in Nat /\ i <= Len(ev)
        BY <3>1, <1>a
      <4>2. ev[i].utt # None
        BY <2>1, <3>1, <4>1 DEF Related, Stream
      <4>3. CASE EndAfter(ev, i, d, EndTypes, ev[i].utt)
        BY <4>1, <4>3, <1>b
      <4>4. CASE ev[i].utt \in {w.active, w.trans}
        <5>1. \/ ev[i].utt \in {w2.active, w2.trans}
              \/ e.type = "Error" \/ (e.type \in EndTypes /\ e.utt = ev[i].utt)
          BY <4>2, <4>4 DEF Says
        <5> QED
          BY <4>1, <5>1, <1>b, <1>r
      <4> QED
        BY <2>1, <3>1, <4>1, <4>3, <4>4 DEF Related, Owed
    <3>2. CASE i = Len(ev) + 1
      BY <2>1, <3>2, <1>a DEF Says
    <3> QED
      BY <3>1, <3>2, <1>i
  <2>2. ASSUME NEW i \in 1..Len(ev2), ev2[i].type = "TranscriptionRequested", ev2[i].rev = d
        PROVE  /\ w2.backend = "remote"
               /\ \/ ev2[i].utt = w2.trans
                  \/ EndAfter(ev2, i, d, {"UtteranceCancelled"}, ev2[i].utt)
    <3>1. CASE i \in 1..Len(ev)
      <4>1. ev2[i] = ev[i] /\ i \in Nat /\ i <= Len(ev)
        BY <3>1, <1>a
      <4>2. ev[i].utt # None
        BY <2>2, <3>1, <4>1 DEF Related, Stream
      <4>3. CASE EndAfter(ev, i, d, {"UtteranceCancelled"}, ev[i].utt)
        BY <2>2, <3>1, <4>1, <4>3, <1>b, <1>r DEF Related, Owed
      <4>4. CASE ev[i].utt = w.trans
        <5>1. ev[i] = Event("TranscriptionRequested", d, ev[i].utt)
          BY <2>2, <3>1, <4>1, EventFields, <1>e
        <5>2. Requests(ev, d, w.trans)
          BY <3>1, <4>4, <5>1 DEF Requests
        <5>3. \/ w2.trans = w.trans
              \/ e.type = "Error" \/ (e.type = "UtteranceCancelled" /\ e.utt = w.trans)
          BY <4>2, <4>4, <5>2 DEF Says
        <5>4. w2.backend = "remote"
          BY <2>2, <3>1, <4>1, <1>r DEF Related, Owed
        <5> QED
          BY <4>1, <4>4, <5>3, <5>4, <1>b, <1>r
      <4> QED
        BY <2>2, <3>1, <4>1, <4>3, <4>4 DEF Related, Owed
    <3>2. CASE i = Len(ev) + 1
      BY <2>2, <3>2, <1>a DEF Says
    <3> QED
      BY <3>1, <3>2, <1>i
  <2> QED
    BY <2>1, <2>2 DEF Owed
<1>3. Holds(w2, ev2, ends2, d, n)
  <2>1. ASSUME n.pending # None
        PROVE  /\ n.pending < w2.next /\ n.sent < n.pending
               /\ n.pending \in {w2.active, w2.trans} \/ EndAfter(ev2, 0, d, EndTypes, n.pending)
    <3>1. n.pending < w2.next /\ n.sent < n.pending
      BY <2>1, <1>r, <1>n DEF Related, Holds
    <3>2. CASE EndAfter(ev, 0, d, EndTypes, n.pending)
      BY <3>1, <3>2, <1>b
    <3>3. CASE n.pending \in {w.active, w.trans}
      <4>1. \/ n.pending \in {w2.active, w2.trans}
            \/ e.type = "Error" \/ (e.type \in EndTypes /\ e.utt = n.pending)
        BY <2>1, <3>3 DEF Says
      <4> QED
        BY <3>1, <4>1, <1>a, <1>b, <1>r
    <3> QED
      BY <2>1, <3>2, <3>3 DEF Related, Holds
  <2>2. ASSUME n.remote # NoJob
        PROVE  /\ n.remote.rev = d /\ n.remote.utt # None /\ Past(n.remote.utt, w2)
               /\ w2.backend = "remote"
               /\ n.remote.utt = w2.trans \/ EndAfter(ev2, 0, d, {"UtteranceCancelled"}, n.remote.utt)
               /\ ~Requests(ev2, d, n.remote.utt)
    <3>1. n.remote.rev = d /\ n.remote.utt # None /\ Past(n.remote.utt, w) /\ w2.backend = "remote"
      BY <2>2, <1>r DEF Related, Holds
    <3>2. Past(n.remote.utt, w2)
      BY <3>1, <1>n, PastStays
    <3>3. ~Requests(ev2, d, n.remote.utt)
      <4>1. ~Requests(ev, d, n.remote.utt)
        BY <2>2 DEF Related, Holds
      <4>2. e.type = "TranscriptionRequested" => e.utt # n.remote.utt
        BY <3>1 DEF Says, Past
      <4> QED
        BY <4>1, <4>2, <1>c, <1>e
    <3>4. CASE EndAfter(ev, 0, d, {"UtteranceCancelled"}, n.remote.utt)
      BY <3>1, <3>2, <3>3, <3>4, <1>b
    <3>5. CASE n.remote.utt = w.trans
      <4>1. n.remote = [rev |-> d, utt |-> w.trans]
        BY <3>1, <3>5 DEF Windows, Job
      <4>2. \/ w2.trans = w.trans
            \/ e.type = "Error" \/ (e.type = "UtteranceCancelled" /\ e.utt = w.trans)
        BY <3>1, <3>5, <4>1 DEF Says
      <4> QED
        BY <3>1, <3>2, <3>3, <3>5, <4>2, <1>a, <1>b, <1>r
    <3> QED
      BY <2>2, <3>4, <3>5 DEF Related, Holds
  <2>3. n.sent < w2.next /\ (n.sent # None => ends2[n.sent] = 1)
    <3>1. n.sent # None => n.sent \in Utterances
      BY <1>n, Bounds DEF Utterances, None
    <3> QED
      BY <1>r, <1>n, <3>1 DEF Related, Holds, Says
  <2>4. ASSUME NEW i \in 1..Len(ev2), ev2[i].type = "SpeechStarted"
        PROVE  n.pending < ev2[i].utt /\ n.sent < ev2[i].utt
    <3>1. CASE i \in 1..Len(ev)
      BY <2>4, <3>1, <1>a DEF Related, Holds
    <3>2. CASE i = Len(ev) + 1
      <4>1. ev2[i].utt = w.next
        BY <2>4, <3>2, <1>a DEF Says
      <4> QED
        BY <4>1, <1>n DEF Related, Holds, None
    <3> QED
      BY <3>1, <3>2, <1>i
  <2> QED
    BY <1>r, <2>1, <2>2, <2>3, <2>4 DEF Holds
<1>4. Results(w2, ev2, d, cs, n)
  <2>1. ASSUME NEW i \in 1..Len(cs), cs[i].type = "TranscriptionFinished"
        PROVE  /\ Past(cs[i].utt, w2)
               /\ cs[i].rev = d => ~Requests(ev2, d, cs[i].utt)
    <3>1. cs[i].utt \in Nat /\ cs[i].utt # None /\ Past(cs[i].utt, w)
      <4>1. cs[i].utt \in Utterances
        BY <2>1, CommandFields
      <4>2. cs[i].utt \in Nat /\ cs[i].utt # None
        BY <4>1, UtteranceIs, Bounds
      <4>3. Past(cs[i].utt, w)
        BY <2>1 DEF Related, Results
      <4> QED
        BY <4>2, <4>3
    <3>2. Past(cs[i].utt, w2)
      BY <3>1, PastStays
    <3>3. e.type = "TranscriptionRequested" => e.utt # cs[i].utt
      BY <3>1 DEF Says, Past
    <3> QED
      BY <2>1, <3>2, <3>3, <1>c, <1>e DEF Related, Results
  <2> QED
    BY <1>r, <2>1 DEF Related, Results
<1> QED
  BY <1>1, <1>2, <1>3, <1>4 DEF Related, ev2

-----------------------------------------------------------------------------
(* The functions of the worker.                                            *)

LEMMA OwnedFields ==
    ASSUME NEW s \in Owned
    PROVE  /\ s.w \in Workers /\ s.m \in Mics /\ s.q \in Queues /\ s.ev \in Seq(Events)
           /\ s.ends \in Ends
           /\ s = [w |-> s.w, m |-> s.m, q |-> s.q, ev |-> s.ev, ends |-> s.ends]
  BY DEF Owned

LEMMA OwnedIs ==
    ASSUME NEW w \in Workers, NEW m \in Mics, NEW q \in Queues, NEW ev \in Seq(Events),
           NEW ends \in Ends, NEW s,
           s = [w |-> w, m |-> m, q |-> q, ev |-> ev, ends |-> ends]
    PROVE  s \in Owned /\ s.w = w /\ s.m = m /\ s.q = q /\ s.ev = ev /\ s.ends = ends
  BY DEF Owned

\* One more end of an utterance was published.
OneMore(ends, u) == [ends EXCEPT ![u] = @ + 1]

LEMMA PublishIs ==
    ASSUME NEW s \in Owned, NEW type \in EventTypes, NEW u \in 0..MaxUtterances,
           type \in EndTypes => u # None, type = "Error" => u = None,
           desired \in Nat, NEW t, t = Publish(s, type, u)
    PROVE  /\ t \in Owned /\ t.w = s.w /\ t.m = s.m /\ t.q = s.q
           /\ s.w.rev # desired => t.ev = s.ev /\ t.ends = s.ends
           /\ s.w.rev = desired =>
                  /\ t.ev = Append(s.ev, Event(type, desired, u))
                  /\ type \in EndTypes => t.ends = OneMore(s.ends, u)
                  /\ type \notin EndTypes => t.ends = s.ends
<1> DEFINE ev2 == Append(s.ev, Event(type, desired, u))
           ends2 == IF type \in EndTypes THEN OneMore(s.ends, u) ELSE s.ends
<1>1. s.w \in Workers /\ s.m \in Mics /\ s.q \in Queues /\ s.ev \in Seq(Events) /\ s.ends \in Ends
  BY OwnedFields
<1>2. ev2 \in Seq(Events)
  BY <1>1, EventIs, Appended
<1>3. ends2 \in Ends
  <2>1. type \in EndTypes => u \in Utterances
    BY UtteranceIs
  <2> QED
    BY <1>1, <2>1 DEF Ends, OneMore
<1>4. CASE s.w.rev # desired
  BY <1>4, <1>1 DEF Publish
<1>5. CASE s.w.rev = desired
  <2>1. t = [s EXCEPT !.ev = ev2, !.ends = ends2]
    <3>1. CASE type \in EndTypes
      BY <1>5, <3>1 DEF Publish, EndTypes, OneMore
    <3>2. CASE type \notin EndTypes
      BY <1>5, <3>2, Zenon DEF Publish, EndTypes
    <3> QED
      BY <3>1, <3>2
  <2> HIDE DEF ev2, ends2
  <2>2. t = [w |-> s.w, m |-> s.m, q |-> s.q, ev |-> ev2, ends |-> ends2]
    BY <2>1 DEF Owned
  <2>3. t \in Owned /\ t.w = s.w /\ t.m = s.m /\ t.q = s.q /\ t.ev = ev2 /\ t.ends = ends2
    BY <2>2, <1>1, <1>2, <1>3, OwnedIs
  <2> QED
    BY <1>5, <2>3 DEF ev2, ends2
<1> QED
  BY <1>4, <1>5

LEMMA PublishEnd ==
    ASSUME NEW s \in Owned, NEW type \in EndTypes, NEW u \in Utterances, desired \in Nat,
           NEW t, t = Publish(s, type, u)
    PROVE  /\ t \in Owned /\ t.w = s.w /\ t.m = s.m /\ t.q = s.q
           /\ s.w.rev # desired => t.ev = s.ev /\ t.ends = s.ends
           /\ s.w.rev = desired => /\ t.ev = Append(s.ev, Event(type, desired, u))
                                  /\ t.ends = OneMore(s.ends, u)
           /\ Event(type, desired, u) \in Events
           /\ Event(type, desired, u).type = type
           /\ Event(type, desired, u).rev = desired /\ Event(type, desired, u).utt = u
<1>1. u \in 0..MaxUtterances /\ u # None /\ type \in EventTypes /\ type # "Error"
  BY UtteranceIs DEF EventTypes, EndTypes
<1>2. /\ t \in Owned /\ t.w = s.w /\ t.m = s.m /\ t.q = s.q
      /\ s.w.rev # desired => t.ev = s.ev /\ t.ends = s.ends
      /\ s.w.rev = desired => /\ t.ev = Append(s.ev, Event(type, desired, u))
                             /\ t.ends = OneMore(s.ends, u)
  BY <1>1, PublishIs
<1> QED
  BY <1>1, <1>2, EventIs

LEMMA PublishOther ==
    ASSUME NEW s \in Owned, NEW type \in EventTypes \ EndTypes, NEW u \in 0..MaxUtterances,
           type = "Error" => u = None, desired \in Nat, NEW t, t = Publish(s, type, u)
    PROVE  /\ t \in Owned /\ t.w = s.w /\ t.m = s.m /\ t.q = s.q /\ t.ends = s.ends
           /\ s.w.rev # desired => t.ev = s.ev
           /\ s.w.rev = desired => t.ev = Append(s.ev, Event(type, desired, u))
           /\ Event(type, desired, u) \in Events
           /\ Event(type, desired, u).type = type
           /\ Event(type, desired, u).rev = desired /\ Event(type, desired, u).utt = u
<1>1. type \in EventTypes /\ type \notin EndTypes
  OBVIOUS
<1>2. /\ t \in Owned /\ t.w = s.w /\ t.m = s.m /\ t.q = s.q /\ t.ends = s.ends
      /\ s.w.rev # desired => t.ev = s.ev
      /\ s.w.rev = desired => t.ev = Append(s.ev, Event(type, desired, u))
  BY <1>1, PublishIs
<1> QED
  BY <1>1, <1>2, EventIs

\* An utterance that had not ended ends.
LEMMA EndsOnce ==
    ASSUME NEW w \in Workers, NEW w2 \in Workers, NEW ends \in Ends, EndsOK(w, ends), Fields(w),
           NEW u \in Utterances, u \in {w.active, w.trans}, NEW ends2, Later(w, w2),
           ends2 \in {ends, OneMore(ends, u)},
           u \notin {w2.active, w2.trans}, w2.trans \in {None, w.trans}, w2.active \in {None, w.active}
    PROVE  EndsOK(w2, ends2) /\ \A v \in Utterances : ends[v] = 1 => ends2[v] = 1
<1>1. w.next <= w2.next /\ w.next \in Nat /\ w2.next \in Nat
  BY WorkerFields DEF Later
<1>2. ends[u] = 0 /\ \A v \in Utterances : ends2[v] \in Nat /\ (v # u => ends2[v] = ends[v])
                                           /\ v \in Nat /\ v # None
  BY UtteranceIs, Bounds DEF EndsOK, Ends, OneMore
<1>3. u < w.next
  BY WorkerFields, UtteranceIs, Bounds DEF Fields
<1>4. /\ ends2[u] \in {0, 1}
      /\ ends2[u] = ends[u] \/ ends2[u] = ends[u] + 1
  BY <1>2 DEF Ends, OneMore
<1>5. \A v \in Utterances : ends2[v] <= 1
  BY <1>2, <1>4 DEF EndsOK
<1>6. ASSUME NEW v \in Utterances, v >= w2.next \/ v \in {w2.active, w2.trans}
      PROVE  ends2[v] = 0
  BY <1>1, <1>2, <1>3, <1>6 DEF EndsOK
<1>7. \A v \in Utterances : ends[v] = 1 => ends2[v] = 1
  BY <1>2
<1> QED
  BY <1>5, <1>6, <1>7 DEF EndsOK

LEMMA JobsStay ==
    ASSUME NEW w \in Workers, NEW w2 \in Workers, NEW q \in Queues, NEW h \in Whispers,
           Jobs(w, q, h), Later(w, w2), Works(w2) <=> Works(w),
           w2.trans \in {None, w.trans, w.active}, w2.trans # None => w2.trans # q.cancelled.utt
    PROVE  Jobs(w2, q, h)
<1>1. \A job \in Job : JobOK(job, w) => JobOK(job, w2)
  BY JobFields, WorkerFields, PastStays DEF JobOK, Later
<1>2. q.job \in Job /\ h.job \in Job /\ q.cancelled.utt \in Nat
  BY JobFields DEF Queues, Whispers
<1> QED
  BY <1>1, <1>2, PastStays DEF Jobs

\* Fields that the relation to the others does not depend on.
Alike(w, w2) ==
    /\ w2.rev = w.rev /\ w2.backend = w.backend /\ w2.active = w.active /\ w2.next = w.next
    /\ w2.pending = w.pending /\ w2.trans = w.trans /\ (Works(w2) <=> Works(w))

LEMMA Unconcerned ==
    ASSUME NEW cs, NEW n, NEW h, NEW s, Kept(s, desired, cs, n, h), NEW t \in Owned,
           Alike(s.w, t.w), t.q = s.q, t.ev = s.ev, t.ends = s.ends
    PROVE  Kept(t, desired, cs, n, h)
<1>1. s \in Owned /\ s.w \in Workers /\ t.w \in Workers /\ s.q \in Queues /\ s.ev \in Seq(Events)
      /\ s.ends \in Ends /\ desired \in Nat /\ cs \in Seq(Commands) /\ n \in Windows /\ h \in Whispers
  BY OwnedFields DEF Kept, Typed
<1>2. Later(s.w, t.w)
  BY <1>1, WorkerFields DEF Alike, Later
<1>3. Related(t.w, t.ev, t.ends, desired, cs, n)
  BY <1>1, <1>2, Silently DEF Kept, Alike
<1>4. Jobs(t.w, t.q, h)
  <2>1. t.w.trans # None => t.w.trans # s.q.cancelled.utt
    BY DEF Kept, Jobs, Alike
  <2> QED
    BY <1>1, <1>2, <2>1, JobsStay DEF Kept, Alike
<1>5. Fields(t.w) /\ EndsOK(t.w, t.ends)
  BY DEF Kept, Fields, EndsOK, Alike
<1>6. Served(t.w, t.q, t.ev, desired, cs, n, h)
  BY DEF Kept, Served, Alike
<1> QED
  BY <1>1, <1>3, <1>4, <1>5, <1>6 DEF Kept, Typed

\* What a function leaves alone.
SameSetting(w2, w) ==
    w2.pc = w.pc /\ w2.rev = w.rev /\ w2.mode = w.mode /\ w2.backend = w.backend

SameDevice(t, s) ==
    t.m = s.m /\ t.w.capture = s.w.capture /\ t.w.vad = s.w.vad /\ t.w.manual = s.w.manual

LEMMA KeptFields ==
    ASSUME NEW cs, NEW n, NEW h, NEW s, Kept(s, desired, cs, n, h)
    PROVE  /\ s \in Owned /\ s.w \in Workers /\ s.m \in Mics /\ s.q \in Queues
           /\ s.ev \in Seq(Events) /\ s.ends \in Ends
           /\ desired \in Nat /\ cs \in Seq(Commands) /\ n \in Windows /\ h \in Whispers
           /\ Fields(s.w) /\ Jobs(s.w, s.q, h) /\ EndsOK(s.w, s.ends)
           /\ Related(s.w, s.ev, s.ends, desired, cs, n)
           /\ Served(s.w, s.q, s.ev, desired, cs, n, h)
           /\ s.w.rev <= desired
  BY OwnedFields DEF Kept, Typed, Related, Stream

LEMMA StopKeeps ==
    ASSUME NEW cs, NEW n, NEW h, NEW s, Kept(s, desired, cs, n, h), NEW t, t = StopCapture(s)
    PROVE  /\ Kept(t, desired, cs, n, h)
           /\ SameSetting(t.w, s.w) /\ t.w.capture = None /\ t.m = SilentMic
           /\ t.w.vad = s.w.vad /\ t.w.manual = s.w.manual /\ t.w.active = s.w.active
           /\ t.w.next = s.w.next /\ t.w.pending = s.w.pending /\ t.w.trans = s.w.trans
           /\ t.q = s.q /\ t.ev = s.ev /\ t.ends = s.ends /\ t \in Owned
<1> DEFINE w2 == [s.w EXCEPT !.capture = None]
<1>t. /\ s \in Owned /\ s.w \in Workers /\ s.m \in Mics /\ s.q \in Queues
      /\ s.ev \in Seq(Events) /\ s.ends \in Ends
      /\ desired \in Nat /\ cs \in Seq(Commands) /\ n \in Windows /\ h \in Whispers
  BY KeptFields
<1>1. w2 \in Workers /\ Alike(s.w, w2)
  BY <1>t DEF Workers, Alike, Works, None
<1>w. /\ SameSetting(w2, s.w) /\ w2.capture = None
      /\ w2.vad = s.w.vad /\ w2.manual = s.w.manual /\ w2.active = s.w.active
      /\ w2.next = s.w.next /\ w2.pending = s.w.pending /\ w2.trans = s.w.trans
  BY <1>t DEF Workers, SameSetting
<1>2. SilentMic \in Mics
  BY DEF Mics, SilentMic
<1>3. t = [s EXCEPT !.w = w2, !.m = SilentMic]
  BY DEF StopCapture
<1> HIDE DEF w2
<1>4. t = [w |-> w2, m |-> SilentMic, q |-> s.q, ev |-> s.ev, ends |-> s.ends]
  BY <1>3, <1>t DEF Owned
<1>5. t \in Owned /\ t.w = w2 /\ t.m = SilentMic /\ t.q = s.q /\ t.ev = s.ev /\ t.ends = s.ends
  BY <1>1, <1>2, <1>4, <1>t, OwnedIs
<1> QED
  BY <1>1, <1>w, <1>5, Unconcerned

LEMMA ActiveEnded ==
    ASSUME NEW w \in Workers, NEW w2, w2 = [w EXCEPT !.active = None]
    PROVE  /\ w2 \in Workers /\ SameSetting(w2, w) /\ w2.active = None
           /\ w2.next = w.next /\ w2.pending = w.pending /\ w2.trans = w.trans
           /\ w2.capture = w.capture /\ w2.vad = w.vad /\ w2.manual = w.manual
<1>1. None \in 0..MaxUtterances
  BY Bounds DEF None
<1> QED
  BY <1>1 DEF Workers, SameSetting

LEMMA TranscribingEnded ==
    ASSUME NEW w \in Workers, NEW w2, w2 = [w EXCEPT !.pending = FALSE, !.trans = None]
    PROVE  /\ w2 \in Workers /\ SameSetting(w2, w) /\ w2.active = w.active
           /\ w2.next = w.next /\ w2.pending = FALSE /\ w2.trans = None
           /\ w2.capture = w.capture /\ w2.vad = w.vad /\ w2.manual = w.manual
<1>1. None \in 0..MaxUtterances
  BY Bounds DEF None
<1> QED
  BY <1>1 DEF Workers, SameSetting

LEMMA CancelActiveKeeps ==
    ASSUME NEW cs, NEW n, NEW h, NEW s, Kept(s, desired, cs, n, h), NEW t, t = CancelActive(s)
    PROVE  /\ Kept(t, desired, cs, n, h)
           /\ SameSetting(t.w, s.w) /\ SameDevice(t, s) /\ t.w.active = None
           /\ t.w.next = s.w.next /\ t.w.pending = s.w.pending /\ t.w.trans = s.w.trans
           /\ t.q = s.q
<1>t. /\ s \in Owned /\ s.w \in Workers /\ s.m \in Mics /\ s.q \in Queues
      /\ s.ev \in Seq(Events) /\ s.ends \in Ends
      /\ desired \in Nat /\ cs \in Seq(Commands) /\ n \in Windows /\ h \in Whispers
  BY KeptFields
<1>k. /\ Fields(s.w) /\ Jobs(s.w, s.q, h) /\ EndsOK(s.w, s.ends)
      /\ Related(s.w, s.ev, s.ends, desired, cs, n)
      /\ Served(s.w, s.q, s.ev, desired, cs, n, h)
  BY KeptFields
<1>1. CASE s.w.active = None
  BY <1>1, <1>t, <1>k DEF CancelActive, SameSetting, SameDevice
<1>2. CASE s.w.active # None
  <2> DEFINE u == s.w.active
             w2 == [s.w EXCEPT !.active = None]
             r == [s EXCEPT !.w = w2]
  <2>1. /\ w2 \in Workers /\ SameSetting(w2, s.w) /\ w2.active = None
        /\ w2.next = s.w.next /\ w2.pending = s.w.pending /\ w2.trans = s.w.trans
        /\ w2.capture = s.w.capture /\ w2.vad = s.w.vad /\ w2.manual = s.w.manual
    BY <1>t, ActiveEnded
  <2> HIDE DEF w2
  <2>2. r = [w |-> w2, m |-> s.m, q |-> s.q, ev |-> s.ev, ends |-> s.ends]
    BY <1>t DEF Owned
  <2>3. r \in Owned /\ r.w = w2 /\ r.m = s.m /\ r.q = s.q /\ r.ev = s.ev /\ r.ends = s.ends
    BY <2>1, <2>2, <1>t, OwnedIs
  <2>4. t = Publish(r, "UtteranceCancelled", u)
    BY <1>2 DEF CancelActive, w2
  <2> HIDE DEF r
  <2>5. u \in Utterances /\ u \in 0..MaxUtterances /\ u # None
        /\ "UtteranceCancelled" \in EventTypes /\ "UtteranceCancelled" \in EndTypes
    BY <1>2, <1>t, UtteranceIs, WorkerFields, Bounds DEF EventTypes, EndTypes
  <2> DEFINE e == Event("UtteranceCancelled", desired, u)
             ends2 == OneMore(s.ends, u)
  <2>6. /\ t \in Owned /\ t.w = w2 /\ t.m = s.m /\ t.q = s.q
        /\ s.w.rev # desired => t.ev = s.ev /\ t.ends = s.ends
        /\ s.w.rev = desired => t.ev = Append(s.ev, e) /\ t.ends = ends2
    BY <2>1, <2>3, <2>4, <2>5, <1>t, PublishEnd DEF SameSetting
  <2>7. e \in Events /\ e.type = "UtteranceCancelled" /\ e.rev = desired /\ e.utt = u
    BY <2>3, <2>4, <2>5, <1>t, PublishEnd
  <2> HIDE DEF e, ends2
  <2>8. Later(s.w, w2) /\ w2.trans = None /\ s.w.trans = None
    <3>1. s.w.next \in Nat /\ s.w.next <= s.w.next
      BY <1>t, WorkerFields
    <3>2. s.w.trans = None
      BY <1>2, <1>k DEF Fields
    <3> QED
      BY <2>1, <3>1, <3>2 DEF Later, SameSetting
  <2>9. Fields(w2)
    BY <1>2, <1>k, <2>1, <2>8 DEF Fields, SameSetting, Works
  <2>10. t.ends \in {s.ends, ends2}
    BY <2>6
  <2>11. EndsOK(w2, t.ends) /\ \A v \in Utterances : s.ends[v] = 1 => t.ends[v] = 1
    BY <2>1, <2>5, <2>8, <2>10, <1>t, <1>k, EndsOnce DEF ends2, None
  <2>12. Jobs(w2, s.q, h)
    BY <2>1, <2>8, <1>t, <1>k, JobsStay DEF SameSetting, Works
  <2>13. Related(w2, t.ev, t.ends, desired, cs, n)
    <3>1. CASE s.w.rev # desired
      BY <2>1, <2>6, <2>8, <3>1, <1>t, <1>k, Silently
    <3>2. CASE s.w.rev = desired
      <4>1. u < w2.next
        BY <1>2, <1>t, <1>k, <2>1, WorkerFields DEF Fields
      <4>2. t.ends[u] = 1
        <5>1. s.ends[u] = 0
          BY <2>5, <1>k DEF EndsOK
        <5> QED
          BY <2>5, <2>6, <3>2, <5>1, <1>t DEF ends2, OneMore, Ends
      <4>3. Says(e, s.w, w2, s.ev, s.ends, t.ends, desired, n)
        BY <2>1, <2>5, <2>7, <2>8, <2>11, <3>2, <4>1, <4>2 DEF Says
      <4>4. t.ends \in Ends
        BY <2>6, OwnedFields
      <4>5. Related(w2, Append(s.ev, e), t.ends, desired, cs, n)
        BY <2>1, <2>7, <2>8, <4>3, <4>4, <1>t, <1>k, Announced
      <4> QED
        BY <2>6, <3>2, <4>5
    <3> QED
      BY <3>1, <3>2
  <2>14. Served(w2, s.q, t.ev, desired, cs, n, h)
    BY <2>8 DEF Served
  <2> QED
    BY <2>1, <2>6, <2>9, <2>11, <2>12, <2>13, <2>14, <1>t DEF Kept, Typed, SameDevice
<1> QED
  BY <1>1, <1>2

LEMMA CancelledUtterance ==
    ASSUME NEW q \in Queues, NEW rev \in Nat, NEW u \in 0..MaxUtterances, NEW q2,
           q2 = CancelUtterance(q, rev, u)
    PROVE  /\ q2 \in Queues /\ q2.shutdown = q.shutdown
           /\ q2.job \in {q.job, NoJob}
           /\ q2.cancelled.utt \in {q.cancelled.utt, u}
<1> DEFINE job2 == IF q.job = [rev |-> rev, utt |-> u] THEN NoJob ELSE q.job
           c2 == [rev |-> rev,
                  utt |-> IF q.cancelled.rev = rev /\ q.cancelled.utt > u THEN q.cancelled.utt ELSE u]
<1>1. q2 = [q EXCEPT !.job = job2, !.cancelled = c2]
  BY DEF CancelUtterance
<1>2. job2 \in Job /\ job2 \in {q.job, NoJob}
  BY Bounds DEF Queues, Job, NoJob, None
<1>3. c2 \in Job /\ c2.utt \in {q.cancelled.utt, u}
  BY Bounds DEF Queues, Job
<1> HIDE DEF job2, c2
<1> QED
  BY <1>1, <1>2, <1>3 DEF Queues

LEMMA CancelTranscribingKeeps ==
    ASSUME NEW cs, NEW n, NEW h, NEW s, Kept(s, desired, cs, n, h), NEW t,
           t = CancelTranscribing(s)
    PROVE  /\ Kept(t, desired, cs, n, h)
           /\ SameSetting(t.w, s.w) /\ SameDevice(t, s) /\ t.w.active = s.w.active
           /\ t.w.next = s.w.next /\ ~t.w.pending /\ t.w.trans = None
           /\ t.q.job \in {s.q.job, NoJob} /\ t.q.shutdown = s.q.shutdown
<1>t. /\ s \in Owned /\ s.w \in Workers /\ s.m \in Mics /\ s.q \in Queues
      /\ s.ev \in Seq(Events) /\ s.ends \in Ends
      /\ desired \in Nat /\ cs \in Seq(Commands) /\ n \in Windows /\ h \in Whispers
  BY KeptFields
<1>k. /\ Fields(s.w) /\ Jobs(s.w, s.q, h) /\ EndsOK(s.w, s.ends)
      /\ Related(s.w, s.ev, s.ends, desired, cs, n)
      /\ Served(s.w, s.q, s.ev, desired, cs, n, h)
  BY KeptFields
<1>1. CASE s.w.trans = None
  <2>1. t = s
    BY <1>1 DEF CancelTranscribing
  <2> QED
    BY <1>1, <1>k, <2>1 DEF SameSetting, SameDevice, Fields
<1>2. CASE s.w.trans # None
  <2> DEFINE u == s.w.trans
             w2 == [s.w EXCEPT !.pending = FALSE, !.trans = None]
             q2 == CancelUtterance(s.q, s.w.rev, u)
             r == [s EXCEPT !.q = q2, !.w = w2]
  <2>1. /\ w2 \in Workers /\ SameSetting(w2, s.w) /\ w2.active = s.w.active
        /\ w2.next = s.w.next /\ w2.pending = FALSE /\ w2.trans = None
        /\ w2.capture = s.w.capture /\ w2.vad = s.w.vad /\ w2.manual = s.w.manual
    BY <1>t, TranscribingEnded
  <2>4. t = Publish(r, "UtteranceCancelled", u)
    BY <1>2, <1>t DEF CancelTranscribing, Owned
  <2>p. q2 = CancelUtterance(s.q, s.w.rev, u) /\ u \in 0..MaxUtterances /\ s.w.rev \in Nat
    BY <1>t, WorkerFields, Bounds
  <2>r. r = [s EXCEPT !.q = q2, !.w = w2]
    OBVIOUS
  <2>u. u = s.w.trans
    OBVIOUS
  <2> HIDE DEF w2, q2, r, u
  <2>q. /\ q2 \in Queues /\ q2.shutdown = s.q.shutdown /\ q2.job \in {s.q.job, NoJob}
        /\ q2.cancelled.utt \in {s.q.cancelled.utt, u}
    <3>1. s.q \in Queues /\ u \in 0..MaxUtterances /\ s.w.rev \in Nat
      BY <1>t, <2>p
    <3>2. q2 = CancelUtterance(s.q, s.w.rev, u)
      BY <2>p
    <3> QED
      BY ONLY <3>1, <3>2, CancelledUtterance
  <2>3. r \in Owned /\ r.w = w2 /\ r.m = s.m /\ r.q = q2 /\ r.ev = s.ev /\ r.ends = s.ends
    BY <2>1, <2>q, <2>r, <1>t DEF Owned
  <2> USE DEF u
  <2>5. u \in Utterances /\ u \in 0..MaxUtterances /\ u # None
        /\ "UtteranceCancelled" \in EventTypes /\ "UtteranceCancelled" \in EndTypes
    BY <1>2, <1>t, UtteranceIs, WorkerFields, Bounds DEF EventTypes, EndTypes
  <2> DEFINE e == Event("UtteranceCancelled", desired, u)
             ends2 == OneMore(s.ends, u)
  <2>6. /\ t \in Owned /\ t.w = w2 /\ t.m = s.m /\ t.q = q2
        /\ s.w.rev # desired => t.ev = s.ev /\ t.ends = s.ends
        /\ s.w.rev = desired => t.ev = Append(s.ev, e) /\ t.ends = ends2
    BY <2>1, <2>3, <2>4, <2>5, <1>t, PublishEnd DEF SameSetting
  <2>7. e \in Events /\ e.type = "UtteranceCancelled" /\ e.rev = desired /\ e.utt = u
    BY <2>3, <2>4, <2>5, <1>t, PublishEnd
  <2> HIDE DEF e, ends2
  <2>8. Later(s.w, w2) /\ s.w.active = None /\ w2.active = None
    <3>1. s.w.next \in Nat /\ s.w.next <= s.w.next
      BY <1>t, WorkerFields
    <3>2. s.w.active = None
      BY <1>2, <1>k DEF Fields
    <3> QED
      BY <2>1, <3>1, <3>2 DEF Later, SameSetting
  <2>9. Fields(w2)
    BY <1>2, <1>k, <2>1, <2>8 DEF Fields, SameSetting, Works
  <2>10. t.ends \in {s.ends, ends2}
    BY <2>6
  <2>11. EndsOK(w2, t.ends) /\ \A v \in Utterances : s.ends[v] = 1 => t.ends[v] = 1
    BY <2>1, <2>5, <2>8, <2>10, <1>t, <1>k, EndsOnce DEF ends2, None
  <2>12. Jobs(w2, q2, h)
    <3>1. Jobs(w2, s.q, h)
      BY <2>1, <2>8, <1>t, <1>k, JobsStay DEF SameSetting, Works
    <3>2. Past(u, w2)
      BY <1>2, <1>t, <1>k, <2>1, <2>8, WorkerFields DEF Past, Fields
    <3> QED
      BY <2>1, <2>q, <3>1, <3>2 DEF Jobs, JobOK
  <2>13. Related(w2, t.ev, t.ends, desired, cs, n)
    <3>1. CASE s.w.rev # desired
      BY <2>1, <2>6, <2>8, <3>1, <1>t, <1>k, Silently
    <3>2. CASE s.w.rev = desired
      <4>1. u < w2.next
        BY <1>2, <1>t, <1>k, <2>1, WorkerFields DEF Fields
      <4>2. t.ends[u] = 1
        <5>1. s.ends[u] = 0
          BY <2>5, <1>k DEF EndsOK
        <5> QED
          BY <2>5, <2>6, <3>2, <5>1, <1>t DEF ends2, OneMore, Ends
      <4>3. Says(e, s.w, w2, s.ev, s.ends, t.ends, desired, n)
        BY <2>1, <2>5, <2>7, <2>8, <2>11, <3>2, <4>1, <4>2 DEF Says
      <4>4. t.ends \in Ends
        BY <2>6, OwnedFields
      <4>5. Related(w2, Append(s.ev, e), t.ends, desired, cs, n)
        BY <2>1, <2>7, <2>8, <4>3, <4>4, <1>t, <1>k, Announced
      <4> QED
        BY <2>6, <3>2, <4>5
    <3> QED
      BY <3>1, <3>2
  <2>14. Served(w2, q2, t.ev, desired, cs, n, h)
    BY <2>1 DEF Served
  <2> QED
    BY <2>1, <2>q, <2>6, <2>9, <2>11, <2>12, <2>13, <2>14, <1>t DEF Kept, Typed, SameDevice
<1> QED
  BY <1>1, <1>2

\* A step of the worker that says nothing, or one thing.
LEMMA Stepped ==
    ASSUME NEW cs, NEW n, NEW h, NEW s, Kept(s, desired, cs, n, h), NEW t \in Owned,
           Later(s.w, t.w), Fields(t.w), Jobs(t.w, t.q, h), EndsOK(t.w, t.ends),
           Served(t.w, t.q, t.ev, desired, cs, n, h),
           \/ /\ t.ev = s.ev /\ t.ends = s.ends
              /\ s.w.rev # desired \/ /\ s.w.active # None => s.w.active \in {t.w.active, t.w.trans}
                                      /\ s.w.trans # None => s.w.trans = t.w.trans
           \/ \E e \in Events : /\ t.ev = Append(s.ev, e)
                                /\ Says(e, s.w, t.w, s.ev, s.ends, t.ends, desired, n)
    PROVE  Kept(t, desired, cs, n, h)
<1>t. /\ s \in Owned /\ s.w \in Workers /\ s.ev \in Seq(Events) /\ s.ends \in Ends
      /\ desired \in Nat /\ cs \in Seq(Commands) /\ n \in Windows /\ h \in Whispers
      /\ Related(s.w, s.ev, s.ends, desired, cs, n)
  BY KeptFields
<1>o. t.w \in Workers /\ t.ev \in Seq(Events) /\ t.ends \in Ends
  BY OwnedFields
<1>1. CASE /\ t.ev = s.ev /\ t.ends = s.ends
           /\ s.w.rev # desired \/ /\ s.w.active # None => s.w.active \in {t.w.active, t.w.trans}
                                   /\ s.w.trans # None => s.w.trans = t.w.trans
  <2>1. Related(t.w, s.ev, s.ends, desired, cs, n)
    BY <1>1, <1>t, <1>o, Silently
  <2> QED
    BY <1>1, <1>t, <2>1 DEF Kept, Typed
<1>2. ASSUME NEW e \in Events, t.ev = Append(s.ev, e),
             Says(e, s.w, t.w, s.ev, s.ends, t.ends, desired, n)
      PROVE  Kept(t, desired, cs, n, h)
  <2>1. Related(t.w, Append(s.ev, e), t.ends, desired, cs, n)
    BY <1>2, <1>t, <1>o, Announced
  <2> QED
    BY <1>2, <1>t, <2>1 DEF Kept, Typed
<1> QED
  BY <1>1, <1>2

LEMMA ServedOn ==
    ASSUME NEW w, NEW q, NEW ev \in Seq(Events), NEW e \in Events, NEW cs, NEW n, NEW h,
           Served(w, q, ev, desired, cs, n, h)
    PROVE  Served(w, q, Append(ev, e), desired, cs, n, h)
<1>1. \A u : Requests(ev, desired, u) => Requests(Append(ev, e), desired, u)
  BY RequestsAppended
<1> QED
  BY <1>1 DEF Served

LEMMA LaterSame ==
    ASSUME NEW w \in Workers
    PROVE  Later(w, w)
  BY WorkerFields DEF Later

LEMMA ErrorKeeps ==
    ASSUME NEW cs, NEW n, NEW h, NEW s, Kept(s, desired, cs, n, h), NEW t,
           t = Publish(s, "Error", None)
    PROVE  Kept(t, desired, cs, n, h) /\ t.w = s.w /\ t.m = s.m /\ t.q = s.q
<1>t. /\ s \in Owned /\ s.w \in Workers /\ s.ev \in Seq(Events) /\ s.ends \in Ends
      /\ desired \in Nat /\ Fields(s.w) /\ Jobs(s.w, s.q, h) /\ EndsOK(s.w, s.ends)
      /\ Served(s.w, s.q, s.ev, desired, cs, n, h)
  BY KeptFields
<1>e. "Error" \in EventTypes \ EndTypes /\ None \in 0..MaxUtterances
  BY Bounds DEF EventTypes, EndTypes, None
<1> DEFINE e == Event("Error", desired, None)
<1>1. /\ t \in Owned /\ t.w = s.w /\ t.m = s.m /\ t.q = s.q /\ t.ends = s.ends
      /\ s.w.rev # desired => t.ev = s.ev
      /\ s.w.rev = desired => t.ev = Append(s.ev, e)
      /\ e \in Events /\ e.type = "Error" /\ e.rev = desired /\ e.utt = None
  BY <1>t, <1>e, PublishOther
<1> HIDE DEF e
<1>2. Later(s.w, t.w)
  BY <1>1, <1>t, LaterSame
<1>3. CASE s.w.rev # desired
  <2>1. Served(t.w, t.q, t.ev, desired, cs, n, h)
    BY <1>1, <1>3, <1>t
  <2> QED
    BY <1>1, <1>2, <1>3, <1>t, <2>1, Stepped
<1>4. CASE s.w.rev = desired
  <2>1. Served(t.w, t.q, t.ev, desired, cs, n, h)
    BY <1>1, <1>4, <1>t, ServedOn
  <2>2. Says(e, s.w, t.w, s.ev, s.ends, t.ends, desired, n)
    BY <1>1, <1>4 DEF Says, EndTypes
  <2> QED
    BY <1>1, <1>2, <1>4, <1>t, <2>1, <2>2, Stepped
<1> QED
  BY <1>3, <1>4

\* The parts of fail that are no functions of their own.
Quieted(s) == [s EXCEPT !.w.vad = FALSE, !.w.manual = "none"]
NotPending(s) == [s EXCEPT !.w.pending = FALSE]

LEMMA QuietedIs ==
    ASSUME NEW s \in Owned, NEW t, t = Quieted(s)
    PROVE  /\ t \in Owned /\ t.m = s.m /\ t.q = s.q /\ t.ev = s.ev /\ t.ends = s.ends
           /\ SameSetting(t.w, s.w) /\ t.w.capture = s.w.capture
           /\ ~t.w.vad /\ t.w.manual = "none" /\ t.w.active = s.w.active /\ t.w.next = s.w.next
           /\ t.w.pending = s.w.pending /\ t.w.trans = s.w.trans
<1>t. /\ s.w \in Workers /\ s.m \in Mics /\ s.q \in Queues /\ s.ev \in Seq(Events) /\ s.ends \in Ends
  BY OwnedFields
<1> DEFINE w2 == [s.w EXCEPT !.vad = FALSE, !.manual = "none"]
<1>1. /\ w2 \in Workers /\ SameSetting(w2, s.w) /\ w2.capture = s.w.capture
      /\ ~w2.vad /\ w2.manual = "none" /\ w2.active = s.w.active /\ w2.next = s.w.next
      /\ w2.pending = s.w.pending /\ w2.trans = s.w.trans
  BY <1>t DEF Workers, SameSetting
<1>2. t = [s EXCEPT !.w = w2]
  BY DEF Owned, Quieted
<1> HIDE DEF w2
<1>3. t = [w |-> w2, m |-> s.m, q |-> s.q, ev |-> s.ev, ends |-> s.ends]
  BY <1>2 DEF Owned
<1> QED
  BY <1>1, <1>3, <1>t, OwnedIs

LEMMA NotPendingIs ==
    ASSUME NEW s \in Owned, NEW t, t = NotPending(s)
    PROVE  /\ t \in Owned /\ t.m = s.m /\ t.q = s.q /\ t.ev = s.ev /\ t.ends = s.ends
           /\ SameSetting(t.w, s.w) /\ SameDevice(t, s) /\ t.w.active = s.w.active
           /\ t.w.next = s.w.next /\ ~t.w.pending /\ t.w.trans = s.w.trans
<1>t. /\ s.w \in Workers /\ s.m \in Mics /\ s.q \in Queues /\ s.ev \in Seq(Events) /\ s.ends \in Ends
  BY OwnedFields
<1> DEFINE w2 == [s.w EXCEPT !.pending = FALSE]
<1>1. /\ w2 \in Workers /\ SameSetting(w2, s.w) /\ w2.capture = s.w.capture
      /\ w2.vad = s.w.vad /\ w2.manual = s.w.manual /\ w2.active = s.w.active /\ w2.next = s.w.next
      /\ ~w2.pending /\ w2.trans = s.w.trans
  BY <1>t DEF Workers, SameSetting
<1>2. t = [s EXCEPT !.w = w2]
  BY DEF Owned, NotPending
<1> HIDE DEF w2
<1>3. t = [w |-> w2, m |-> s.m, q |-> s.q, ev |-> s.ev, ends |-> s.ends]
  BY <1>2 DEF Owned
<1>4. t \in Owned /\ t.w = w2 /\ t.m = s.m /\ t.q = s.q /\ t.ev = s.ev /\ t.ends = s.ends
  BY <1>1, <1>3, <1>t, OwnedIs
<1> QED
  BY <1>1, <1>4 DEF SameDevice

LEMMA FailKeeps ==
    ASSUME NEW cs, NEW n, NEW h, NEW s, Kept(s, desired, cs, n, h), NEW t, t = Fail(s)
    PROVE  /\ Kept(t, desired, cs, n, h)
           /\ SameSetting(t.w, s.w) /\ t.w.capture = None /\ ~t.w.vad /\ t.w.manual = "none"
           /\ t.w.active = None /\ t.w.trans = None /\ t.w.next = s.w.next
           /\ t.m = SilentMic
<1> DEFINE a == StopCapture(s)
           b == Quieted(a)
           c == CancelActive(b)
           d == CancelTranscribing(c)
           f == NotPending(d)
<1>f. /\ a = StopCapture(s) /\ b = Quieted(a) /\ c = CancelActive(b)
      /\ d = CancelTranscribing(c) /\ f = NotPending(d) /\ t = Publish(f, "Error", None)
  BY Zenon DEF Fail, Quieted, NotPending
<1> HIDE DEF a, b, c, d, f
<1>1. /\ Kept(a, desired, cs, n, h) /\ SameSetting(a.w, s.w) /\ a.w.capture = None /\ a.m = SilentMic
      /\ a.w.active = s.w.active /\ a.w.next = s.w.next
      /\ a.w.pending = s.w.pending /\ a.w.trans = s.w.trans /\ a \in Owned
  BY <1>f, StopKeeps
<1>2. /\ b \in Owned /\ b.m = a.m /\ b.q = a.q /\ b.ev = a.ev /\ b.ends = a.ends
      /\ SameSetting(b.w, a.w) /\ b.w.capture = a.w.capture
      /\ ~b.w.vad /\ b.w.manual = "none" /\ b.w.active = a.w.active /\ b.w.next = a.w.next
      /\ b.w.pending = a.w.pending /\ b.w.trans = a.w.trans
  BY <1>1, <1>f, QuietedIs
<1>3. Kept(b, desired, cs, n, h)
  <2>1. Alike(a.w, b.w)
    BY <1>2 DEF Alike, SameSetting, Works
  <2> QED
    BY <1>1, <1>2, <2>1, Unconcerned
<1>4. /\ Kept(c, desired, cs, n, h) /\ SameSetting(c.w, b.w) /\ SameDevice(c, b)
      /\ c.w.active = None /\ c.w.next = b.w.next
  BY <1>3, <1>f, CancelActiveKeeps
<1>5. /\ Kept(d, desired, cs, n, h) /\ SameSetting(d.w, c.w) /\ SameDevice(d, c)
      /\ d.w.active = c.w.active /\ d.w.next = c.w.next /\ ~d.w.pending /\ d.w.trans = None
  BY <1>4, <1>f, CancelTranscribingKeeps
<1>d. d \in Owned
  BY <1>5, KeptFields
<1>6. /\ f \in Owned /\ f.m = d.m /\ f.q = d.q /\ f.ev = d.ev /\ f.ends = d.ends
      /\ SameSetting(f.w, d.w) /\ SameDevice(f, d) /\ f.w.active = d.w.active
      /\ f.w.next = d.w.next /\ ~f.w.pending /\ f.w.trans = d.w.trans
  BY <1>d, <1>f, NotPendingIs
<1>7. Kept(f, desired, cs, n, h)
  <2>1. f.w.pending = d.w.pending
    BY <1>d, <1>5, <1>6, OwnedFields, WorkerFields
  <2>2. Alike(d.w, f.w)
    BY <1>6, <2>1 DEF Alike, SameSetting, Works
  <2> QED
    BY <1>5, <1>6, <2>2, Unconcerned
<1>8. Kept(t, desired, cs, n, h) /\ t.w = f.w /\ t.m = f.m
  BY <1>7, <1>f, ErrorKeeps
<1> QED
  BY <1>1, <1>2, <1>4, <1>5, <1>6, <1>8 DEF SameSetting, SameDevice

\* A handler's record, and what it may have done to the microphone.
Sound(s, cs, n, h) == Kept(s, desired, cs, n, h) /\ s.w.pc = "wait" /\ Recording(s.w)

MicKept(t, s) ==
    \/ t.w.capture = s.w.capture /\ t.m = s.m
    \/ t.w.capture = None
    \/ t.m = SilentMic

\* What a handler makes of it.
Outcome(t, s, cs, n, h) == Sound(t, cs, n, h) /\ t.w.rev = s.w.rev /\ MicKept(t, s)

LEMMA OutcomeTrans ==
    ASSUME NEW cs, NEW n, NEW h, NEW s, NEW t, NEW r, Outcome(t, r, cs, n, h),
           r.w.rev = s.w.rev, MicKept(r, s)
    PROVE  Outcome(t, s, cs, n, h)
  BY DEF Outcome, MicKept

\* The new fields of begin_utterance and start_capture.
Begun(s) == [s EXCEPT !.w.active = s.w.next, !.w.next = @ + 1]
Opened(s) == [s EXCEPT !.w.capture = NextCapture, !.m = SilentMic]

LEMMA BegunIs ==
    ASSUME NEW s \in Owned, s.w.next <= MaxUtterances, NEW t, t = Begun(s)
    PROVE  /\ t \in Owned /\ t.m = s.m /\ t.q = s.q /\ t.ev = s.ev /\ t.ends = s.ends
           /\ SameSetting(t.w, s.w) /\ SameDevice(t, s)
           /\ t.w.active = s.w.next /\ t.w.next = s.w.next + 1
           /\ t.w.pending = s.w.pending /\ t.w.trans = s.w.trans
<1>t. /\ s.w \in Workers /\ s.m \in Mics /\ s.q \in Queues /\ s.ev \in Seq(Events) /\ s.ends \in Ends
  BY OwnedFields
<1>u. s.w.next \in 0..MaxUtterances /\ s.w.next + 1 \in 1..(MaxUtterances + 1)
  BY <1>t, WorkerFields, Bounds
<1> DEFINE w2 == [s.w EXCEPT !.active = s.w.next, !.next = s.w.next + 1]
<1>1. /\ w2 \in Workers /\ SameSetting(w2, s.w) /\ w2.capture = s.w.capture
      /\ w2.vad = s.w.vad /\ w2.manual = s.w.manual
      /\ w2.active = s.w.next /\ w2.next = s.w.next + 1
      /\ w2.pending = s.w.pending /\ w2.trans = s.w.trans
  BY <1>t, <1>u DEF Workers, SameSetting
<1>2. t = [s EXCEPT !.w = w2]
  BY <1>t DEF Owned, Begun, Workers
<1> HIDE DEF w2
<1>3. t = [w |-> w2, m |-> s.m, q |-> s.q, ev |-> s.ev, ends |-> s.ends]
  BY <1>2 DEF Owned
<1>4. t \in Owned /\ t.w = w2 /\ t.m = s.m /\ t.q = s.q /\ t.ev = s.ev /\ t.ends = s.ends
  BY <1>1, <1>3, <1>t, OwnedIs
<1> QED
  BY <1>1, <1>4 DEF SameDevice

LEMMA OpenedIs ==
    ASSUME NEW s \in Owned, NextCapture \in Nat, NEW t, t = Opened(s)
    PROVE  /\ t \in Owned /\ t.m = SilentMic /\ t.q = s.q /\ t.ev = s.ev /\ t.ends = s.ends
           /\ SameSetting(t.w, s.w) /\ t.w.capture = NextCapture
           /\ t.w.vad = s.w.vad /\ t.w.manual = s.w.manual
           /\ t.w.active = s.w.active /\ t.w.next = s.w.next
           /\ t.w.pending = s.w.pending /\ t.w.trans = s.w.trans
<1>t. /\ s.w \in Workers /\ s.m \in Mics /\ s.q \in Queues /\ s.ev \in Seq(Events) /\ s.ends \in Ends
  BY OwnedFields
<1> DEFINE w2 == [s.w EXCEPT !.capture = NextCapture]
<1>1. /\ w2 \in Workers /\ SameSetting(w2, s.w) /\ w2.capture = NextCapture
      /\ w2.vad = s.w.vad /\ w2.manual = s.w.manual
      /\ w2.active = s.w.active /\ w2.next = s.w.next
      /\ w2.pending = s.w.pending /\ w2.trans = s.w.trans
  BY <1>t DEF Workers, SameSetting
<1>s. SilentMic \in Mics
  BY DEF Mics, SilentMic
<1>2. t = [s EXCEPT !.w = w2, !.m = SilentMic]
  BY DEF Owned, Opened
<1> HIDE DEF w2
<1>3. t = [w |-> w2, m |-> SilentMic, q |-> s.q, ev |-> s.ev, ends |-> s.ends]
  BY <1>2 DEF Owned
<1> QED
  BY <1>1, <1>s, <1>3, <1>t, OwnedIs

LEMMA BeginKeeps ==
    ASSUME NEW cs, NEW n, NEW h, NEW s, Kept(s, desired, cs, n, h), Works(s.w),
           s.w.active # None \/ (s.w.next <= MaxUtterances /\ s.w.trans = None),
           NEW t, t = Begin(s)
    PROVE  /\ Kept(t, desired, cs, n, h)
           /\ SameSetting(t.w, s.w) /\ SameDevice(t, s) /\ t.w.active # None
           /\ t.w.trans = s.w.trans
<1>t. /\ s \in Owned /\ s.w \in Workers /\ s.m \in Mics /\ s.q \in Queues
      /\ s.ev \in Seq(Events) /\ s.ends \in Ends
      /\ desired \in Nat /\ cs \in Seq(Commands) /\ n \in Windows /\ h \in Whispers
  BY KeptFields
<1>k. /\ Fields(s.w) /\ Jobs(s.w, s.q, h) /\ EndsOK(s.w, s.ends)
      /\ Related(s.w, s.ev, s.ends, desired, cs, n)
      /\ Served(s.w, s.q, s.ev, desired, cs, n, h)
  BY KeptFields
<1>1. CASE s.w.active # None
  BY <1>1 DEF Begin, SameSetting, SameDevice
<1>2. CASE s.w.active = None
  <2> DEFINE u == s.w.next
             r == Begun(s)
  <2>r. r = Begun(s) /\ t = Publish(r, "SpeechStarted", u)
    BY <1>2, Zenon DEF Begin, Begun
  <2> HIDE DEF r
  <2>1. /\ r \in Owned /\ r.m = s.m /\ r.q = s.q /\ r.ev = s.ev /\ r.ends = s.ends
        /\ SameSetting(r.w, s.w) /\ SameDevice(r, s)
        /\ r.w.active = s.w.next /\ r.w.next = s.w.next + 1
        /\ r.w.pending = s.w.pending /\ r.w.trans = s.w.trans
    BY <1>2, <1>t, <2>r, BegunIs
  <2>5. u \in 0..MaxUtterances /\ u # None /\ u \in Utterances
        /\ "SpeechStarted" \in EventTypes \ EndTypes
    BY <1>2, <1>t, UtteranceIs, WorkerFields, Bounds DEF EventTypes, EndTypes, None
  <2> DEFINE e == Event("SpeechStarted", desired, u)
  <2>6. /\ t \in Owned /\ t.w = r.w /\ t.m = s.m /\ t.q = s.q /\ t.ends = s.ends
        /\ s.w.rev # desired => t.ev = s.ev
        /\ s.w.rev = desired => t.ev = Append(s.ev, e)
        /\ e \in Events /\ e.type = "SpeechStarted" /\ e.rev = desired /\ e.utt = u
    BY <1>t, <2>1, <2>5, <2>r, PublishOther DEF SameSetting
  <2> HIDE DEF e
  <2>w. s.w.trans = None /\ t.w.trans = None
    BY <1>2, <2>1, <2>6
  <2>7. Later(s.w, t.w)
    BY <2>1, <2>6, <1>t, WorkerFields DEF Later, SameSetting
  <2>8. Fields(t.w)
    BY <2>1, <2>6, <2>w, <1>k DEF Fields, SameSetting, Works
  <2>9. Jobs(t.w, t.q, h)
    <3>1. t.w \in Workers
      BY <2>6, OwnedFields
    <3> QED
      BY <2>1, <2>6, <2>7, <2>w, <3>1, <1>t, <1>k, JobsStay DEF SameSetting, Works
  <2>10. EndsOK(t.w, t.ends)
    BY <2>1, <2>6, <2>w, <2>5, <1>t, <1>k, WorkerFields, UtteranceIs, Bounds DEF EndsOK
  <2>11. Served(t.w, t.q, t.ev, desired, cs, n, h)
    BY <2>w DEF Served
  <2>12. Kept(t, desired, cs, n, h)
    <3>1. CASE s.w.rev # desired
      BY <2>6, <2>7, <2>8, <2>9, <2>10, <2>11, <3>1, Stepped
    <3>2. CASE s.w.rev = desired
      <4>1. u < t.w.next
        BY <2>1, <2>6, <1>t, WorkerFields
      <4>2. Says(e, s.w, t.w, s.ev, s.ends, t.ends, desired, n)
        BY <1>2, <2>1, <2>5, <2>6, <2>w, <3>2, <4>1 DEF Says, EndTypes
      <4> QED
        BY <2>6, <2>7, <2>8, <2>9, <2>10, <2>11, <3>2, <4>2, Stepped
    <3> QED
      BY <3>1, <3>2
  <2> QED
    BY <2>1, <2>5, <2>6, <2>w, <2>12 DEF SameDevice
<1> QED
  BY <1>1, <1>2

LEMMA StartKeeps ==
    ASSUME NEW cs, NEW n, NEW h, NEW s, Kept(s, desired, cs, n, h),
           NextCapture \in Nat \ {None}, NEW t, t = StartCapture(s)
    PROVE  /\ Kept(t, desired, cs, n, h)
           /\ SameSetting(t.w, s.w) /\ t.w.capture # None
           /\ t.w.vad = s.w.vad /\ t.w.manual = s.w.manual /\ t.w.active = s.w.active
           /\ t.w.next = s.w.next /\ t.w.trans = s.w.trans
           /\ MicKept(t, s)
<1>t. s \in Owned
  BY KeptFields
<1>1. CASE s.w.capture # None
  BY <1>1 DEF StartCapture, SameSetting, MicKept
<1>2. CASE s.w.capture = None
  <2>1. t = Opened(s)
    BY <1>2, Zenon DEF StartCapture, Opened
  <2>2. /\ t \in Owned /\ t.m = SilentMic /\ t.q = s.q /\ t.ev = s.ev /\ t.ends = s.ends
        /\ SameSetting(t.w, s.w) /\ t.w.capture = NextCapture
        /\ t.w.vad = s.w.vad /\ t.w.manual = s.w.manual
        /\ t.w.active = s.w.active /\ t.w.next = s.w.next
        /\ t.w.pending = s.w.pending /\ t.w.trans = s.w.trans
    BY <1>t, <2>1, OpenedIs
  <2>3. Alike(s.w, t.w)
    BY <2>2 DEF Alike, SameSetting, Works
  <2>4. Kept(t, desired, cs, n, h)
    BY <2>2, <2>3, Unconcerned
  <2> QED
    BY <2>2, <2>4 DEF MicKept
<1> QED
  BY <1>1, <1>2

LEMMA ResumeKeeps ==
    ASSUME NEW cs, NEW n, NEW h, NEW s, Sound(s, cs, n, h), s.w.mode = "auto" => s.w.vad,
           NextCapture \in Nat \ {None}, NEW ok \in BOOLEAN, NEW t, t = Resume(s, ok)
    PROVE  Outcome(t, s, cs, n, h)
<1>s. Kept(s, desired, cs, n, h) /\ s.w.pc = "wait" /\ Recording(s.w)
  BY DEF Sound
<1>1. CASE t = s
  BY <1>1, <1>s DEF Outcome, Sound, MicKept
<1>2. CASE t = StartCapture(s) /\ s.w.mode = "auto"
  BY <1>2, <1>s, StartKeeps DEF Outcome, Sound, SameSetting, Recording, Works
<1>3. CASE t = Fail(s)
  BY <1>3, <1>s, FailKeeps DEF Outcome, Sound, SameSetting, Recording, Works, MicKept
<1> QED
  BY <1>1, <1>2, <1>3, Zenon DEF Resume

\* The parts of dispatch_transcription.
Handed(s) == [StopCapture(s) EXCEPT !.w.active = None, !.w.pending = TRUE, !.w.trans = s.w.active]
Queued(s, job) == [s EXCEPT !.q.job = job]
Dropped(s) == [s EXCEPT !.w.pending = FALSE, !.w.trans = None]

LEMMA HandedIs ==
    ASSUME NEW s \in Owned, NEW t, t = Handed(s)
    PROVE  /\ t \in Owned /\ t.m = SilentMic /\ t.q = s.q /\ t.ev = s.ev /\ t.ends = s.ends
           /\ SameSetting(t.w, s.w) /\ t.w.capture = None
           /\ t.w.vad = s.w.vad /\ t.w.manual = s.w.manual
           /\ t.w.active = None /\ t.w.next = s.w.next
           /\ t.w.pending = TRUE /\ t.w.trans = s.w.active
<1>t. /\ s.w \in Workers /\ s.m \in Mics /\ s.q \in Queues /\ s.ev \in Seq(Events) /\ s.ends \in Ends
  BY OwnedFields
<1> DEFINE w2 == [s.w EXCEPT !.capture = None, !.active = None, !.pending = TRUE,
                             !.trans = s.w.active]
<1>n. None \in 0..MaxUtterances /\ None \in Nat
  BY Bounds DEF None
<1>1. /\ w2 \in Workers /\ SameSetting(w2, s.w) /\ w2.capture = None
      /\ w2.vad = s.w.vad /\ w2.manual = s.w.manual
      /\ w2.active = None /\ w2.next = s.w.next
      /\ w2.pending = TRUE /\ w2.trans = s.w.active
  BY <1>t, <1>n DEF Workers, SameSetting
<1>s. SilentMic \in Mics
  BY DEF Mics, SilentMic
<1>2. t = [s EXCEPT !.w = w2, !.m = SilentMic]
  BY <1>t DEF Owned, Workers, Handed, StopCapture
<1> HIDE DEF w2
<1>3. t = [w |-> w2, m |-> SilentMic, q |-> s.q, ev |-> s.ev, ends |-> s.ends]
  BY <1>2 DEF Owned
<1> QED
  BY <1>1, <1>s, <1>3, <1>t, OwnedIs

LEMMA QueuedIs ==
    ASSUME NEW s \in Owned, NEW job \in Job, NEW t, t = Queued(s, job)
    PROVE  /\ t \in Owned /\ t.w = s.w /\ t.m = s.m /\ t.ev = s.ev /\ t.ends = s.ends
           /\ t.q.job = job /\ t.q.cancelled = s.q.cancelled /\ t.q.shutdown = s.q.shutdown
<1>t. /\ s.w \in Workers /\ s.m \in Mics /\ s.q \in Queues /\ s.ev \in Seq(Events) /\ s.ends \in Ends
  BY OwnedFields
<1> DEFINE q2 == [s.q EXCEPT !.job = job]
<1>1. /\ q2 \in Queues /\ q2.job = job /\ q2.cancelled = s.q.cancelled
      /\ q2.shutdown = s.q.shutdown
  BY <1>t DEF Queues
<1>2. t = [s EXCEPT !.q = q2]
  BY DEF Owned, Queued
<1> HIDE DEF q2
<1>3. t = [w |-> s.w, m |-> s.m, q |-> q2, ev |-> s.ev, ends |-> s.ends]
  BY <1>2 DEF Owned
<1> QED
  BY <1>1, <1>3, <1>t, OwnedIs

LEMMA DroppedIs ==
    ASSUME NEW s \in Owned, NEW t, t = Dropped(s)
    PROVE  /\ t \in Owned /\ t.m = s.m /\ t.q = s.q /\ t.ev = s.ev /\ t.ends = s.ends
           /\ SameSetting(t.w, s.w) /\ SameDevice(t, s) /\ t.w.active = s.w.active
           /\ t.w.next = s.w.next /\ ~t.w.pending /\ t.w.trans = None
<1>t. /\ s.w \in Workers /\ s.m \in Mics /\ s.q \in Queues /\ s.ev \in Seq(Events) /\ s.ends \in Ends
  BY OwnedFields
<1> DEFINE w2 == [s.w EXCEPT !.pending = FALSE, !.trans = None]
<1>1. /\ w2 \in Workers /\ SameSetting(w2, s.w) /\ w2.active = s.w.active
      /\ w2.next = s.w.next /\ w2.pending = FALSE /\ w2.trans = None
      /\ w2.capture = s.w.capture /\ w2.vad = s.w.vad /\ w2.manual = s.w.manual
  BY <1>t, TranscribingEnded
<1>2. t = [s EXCEPT !.w = w2]
  BY DEF Owned, Dropped
<1> HIDE DEF w2
<1>3. t = [w |-> w2, m |-> s.m, q |-> s.q, ev |-> s.ev, ends |-> s.ends]
  BY <1>2 DEF Owned
<1>4. t \in Owned /\ t.w = w2 /\ t.m = s.m /\ t.q = s.q /\ t.ev = s.ev /\ t.ends = s.ends
  BY <1>1, <1>3, <1>t, OwnedIs
<1> QED
  BY <1>1, <1>4 DEF SameDevice

\* A recording goes to Whisper.
LEMMA QueuedKeeps ==
    ASSUME NEW cs, NEW n, NEW h, NEW s, Sound(s, cs, n, h), s.w.active # None,
           s.w.manual = "none", s.w.backend = "local", s.w.rev = desired,
           NEW t, t = Queued(Handed(s), [rev |-> s.w.rev, utt |-> s.w.active])
    PROVE  Outcome(t, s, cs, n, h) /\ t.w.mode = s.w.mode /\ t.w.vad = s.w.vad
<1> DEFINE job == [rev |-> s.w.rev, utt |-> s.w.active]
           r == Handed(s)
<1>t. /\ s \in Owned /\ s.w \in Workers /\ s.q \in Queues
      /\ s.ev \in Seq(Events) /\ s.ends \in Ends
      /\ desired \in Nat /\ cs \in Seq(Commands) /\ n \in Windows /\ h \in Whispers
      /\ Fields(s.w) /\ Jobs(s.w, s.q, h) /\ EndsOK(s.w, s.ends)
      /\ Kept(s, desired, cs, n, h) /\ s.w.pc = "wait" /\ Recording(s.w)
  BY KeptFields DEF Sound
<1>j. job \in Job /\ job.rev = s.w.rev /\ job.utt = s.w.active
  BY <1>t DEF Workers, Job
<1>r. r = Handed(s) /\ t = Queued(r, job)
  OBVIOUS
<1> HIDE DEF job, r
<1>1. /\ r \in Owned /\ r.m = SilentMic /\ r.q = s.q /\ r.ev = s.ev /\ r.ends = s.ends
      /\ SameSetting(r.w, s.w) /\ r.w.capture = None
      /\ r.w.vad = s.w.vad /\ r.w.manual = s.w.manual
      /\ r.w.active = None /\ r.w.next = s.w.next
      /\ r.w.pending = TRUE /\ r.w.trans = s.w.active
  BY <1>t, <1>r, HandedIs
<1>2. /\ t \in Owned /\ t.w = r.w /\ t.m = r.m /\ t.ev = r.ev /\ t.ends = r.ends
      /\ t.q.job = job /\ t.q.cancelled = s.q.cancelled /\ t.q.shutdown = s.q.shutdown
  BY <1>1, <1>j, <1>r, QueuedIs
<1>w. t.w \in Workers /\ s.w.trans = None /\ s.w.active + 1 = s.w.next
      /\ s.w.active \in Nat /\ s.w.next \in Nat /\ t.q \in Queues
  BY <1>t, <1>2, OwnedFields, WorkerFields DEF Fields
<1>3. Later(s.w, t.w)
  BY <1>1, <1>2, <1>w DEF Later, SameSetting
<1>4. Fields(t.w)
  BY <1>1, <1>2, <1>t, <1>w DEF Fields, SameSetting, Works
<1>5. Jobs(t.w, t.q, h)
  <2>1. s.q.cancelled.utt # s.w.active
    BY <1>t DEF Jobs, Past
  <2>2. Jobs(t.w, s.q, h)
    BY <1>1, <1>2, <1>3, <1>w, <1>t, <2>1, JobsStay DEF SameSetting, Works
  <2>3. JobOK(job, t.w)
    BY <1>1, <1>2, <1>j, <1>t, <1>w, WorkerFields DEF JobOK, Past, SameSetting
  <2> QED
    BY <1>2, <2>2, <2>3 DEF Jobs
<1>6. EndsOK(t.w, t.ends)
  BY <1>1, <1>2, <1>t, <1>w, UtteranceIs DEF EndsOK
<1>7. Served(t.w, t.q, t.ev, desired, cs, n, h)
  <2>1. [rev |-> desired, utt |-> t.w.trans] = t.q.job /\ t.w.backend = "local"
    BY <1>1, <1>2 DEF SameSetting, job
  <2> QED
    BY <2>1 DEF Served
<1>8. Kept(t, desired, cs, n, h)
  <2>1. t.ev = s.ev /\ t.ends = s.ends /\ s.w.active \in {t.w.active, t.w.trans}
    BY <1>1, <1>2
  <2> QED
    BY <1>t, <1>2, <1>3, <1>4, <1>5, <1>6, <1>7, <1>w, <2>1, Stepped
<1>9. Recording(t.w)
  BY <1>1, <1>2, <1>t DEF Recording, SameSetting, Works
<1> QED
  BY <1>1, <1>2, <1>8, <1>9, <1>t DEF Outcome, Sound, SameSetting, MicKept

\* A recording goes to the window.
LEMMA RequestedKeeps ==
    ASSUME NEW cs, NEW n, NEW h, NEW s, Sound(s, cs, n, h), s.w.active # None,
           s.w.manual = "none", s.w.backend = "remote",
           NEW t, t = Publish(Handed(s), "TranscriptionRequested", s.w.active)
    PROVE  Outcome(t, s, cs, n, h) /\ t.w.mode = s.w.mode /\ t.w.vad = s.w.vad
<1> DEFINE u == s.w.active
           r == Handed(s)
           e == Event("TranscriptionRequested", desired, u)
<1>t. /\ s \in Owned /\ s.w \in Workers /\ s.q \in Queues
      /\ s.ev \in Seq(Events) /\ s.ends \in Ends
      /\ desired \in Nat /\ cs \in Seq(Commands) /\ n \in Windows /\ h \in Whispers
      /\ Fields(s.w) /\ Jobs(s.w, s.q, h) /\ EndsOK(s.w, s.ends)
      /\ Kept(s, desired, cs, n, h) /\ s.w.pc = "wait" /\ Recording(s.w)
  BY KeptFields DEF Sound
<1>r. r = Handed(s) /\ t = Publish(r, "TranscriptionRequested", u)
  OBVIOUS
<1>u. u \in 0..MaxUtterances /\ u # None /\ u \in Utterances
      /\ "TranscriptionRequested" \in EventTypes \ EndTypes
  BY <1>t, UtteranceIs, WorkerFields, Bounds DEF EventTypes, EndTypes
<1> HIDE DEF r
<1>1. /\ r \in Owned /\ r.m = SilentMic /\ r.q = s.q /\ r.ev = s.ev /\ r.ends = s.ends
      /\ SameSetting(r.w, s.w) /\ r.w.capture = None
      /\ r.w.vad = s.w.vad /\ r.w.manual = s.w.manual
      /\ r.w.active = None /\ r.w.next = s.w.next
      /\ r.w.pending = TRUE /\ r.w.trans = s.w.active
  BY <1>t, <1>r, HandedIs
<1>2. /\ t \in Owned /\ t.w = r.w /\ t.m = r.m /\ t.q = s.q /\ t.ends = s.ends
      /\ s.w.rev # desired => t.ev = s.ev
      /\ s.w.rev = desired => t.ev = Append(s.ev, e)
      /\ e \in Events /\ e.type = "TranscriptionRequested" /\ e.rev = desired /\ e.utt = u
  BY <1>t, <1>1, <1>u, <1>r, PublishOther DEF SameSetting
<1>e. e = Event("TranscriptionRequested", desired, u)
  OBVIOUS
<1> HIDE DEF e
<1>w. t.w \in Workers /\ s.w.trans = None /\ s.w.active + 1 = s.w.next
      /\ s.w.active \in Nat /\ s.w.next \in Nat
  BY <1>t, <1>2, OwnedFields, WorkerFields DEF Fields
<1>3. Later(s.w, t.w)
  BY <1>1, <1>2, <1>w DEF Later, SameSetting
<1>4. Fields(t.w)
  BY <1>1, <1>2, <1>t, <1>w DEF Fields, SameSetting, Works
<1>5. Jobs(t.w, t.q, h)
  <2>1. s.q.cancelled.utt # s.w.active
    BY <1>t DEF Jobs, Past
  <2> QED
    BY <1>1, <1>2, <1>3, <1>w, <1>t, <2>1, JobsStay DEF SameSetting, Works
<1>6. EndsOK(t.w, t.ends)
  BY <1>1, <1>2, <1>t, <1>w, UtteranceIs DEF EndsOK
<1>8. Kept(t, desired, cs, n, h)
  <2>1. CASE s.w.rev # desired
    <3>1. Served(t.w, t.q, t.ev, desired, cs, n, h)
      BY <1>1, <1>2, <2>1 DEF Served, SameSetting
    <3> QED
      BY <1>t, <1>2, <1>3, <1>4, <1>5, <1>6, <2>1, <3>1, Stepped
  <2>2. CASE s.w.rev = desired
    <3>1. Requests(t.ev, desired, t.w.trans)
      <4>1. Requests(Append(s.ev, e), desired, u)
        BY <1>2, <1>t, <1>e, RequestsAppended
      <4> QED
        BY <1>1, <1>2, <2>2, <4>1
    <3>2. Served(t.w, t.q, t.ev, desired, cs, n, h)
      BY <1>1, <1>2, <3>1 DEF Served, SameSetting
    <3>3. Says(e, s.w, t.w, s.ev, s.ends, t.ends, desired, n)
      BY <1>1, <1>2, <1>u, <1>w, <2>2 DEF Says, EndTypes, SameSetting
    <3> QED
      BY <1>t, <1>2, <1>3, <1>4, <1>5, <1>6, <2>2, <3>2, <3>3, Stepped
  <2> QED
    BY <2>1, <2>2
<1>9. Recording(t.w)
  BY <1>1, <1>2, <1>t DEF Recording, SameSetting, Works
<1> QED
  BY <1>1, <1>2, <1>8, <1>9, <1>t DEF Outcome, Sound, SameSetting, MicKept

\* The queue refuses a recording of a superseded configuration.
LEMMA RefusedKeeps ==
    ASSUME NEW cs, NEW n, NEW h, NEW s, Sound(s, cs, n, h), s.w.active # None,
           s.w.manual = "none", s.w.rev # desired, NEW t, t = Dropped(Handed(s))
    PROVE  Outcome(t, s, cs, n, h)
<1> DEFINE r == Handed(s)
<1>t. /\ s \in Owned /\ s.w \in Workers /\ s.q \in Queues
      /\ s.ev \in Seq(Events) /\ s.ends \in Ends
      /\ desired \in Nat /\ cs \in Seq(Commands) /\ n \in Windows /\ h \in Whispers
      /\ Fields(s.w) /\ Jobs(s.w, s.q, h) /\ EndsOK(s.w, s.ends)
      /\ Kept(s, desired, cs, n, h) /\ s.w.pc = "wait" /\ Recording(s.w)
  BY KeptFields DEF Sound
<1>r. r = Handed(s) /\ t = Dropped(r)
  OBVIOUS
<1> HIDE DEF r
<1>1. /\ r \in Owned /\ r.m = SilentMic /\ r.q = s.q /\ r.ev = s.ev /\ r.ends = s.ends
      /\ SameSetting(r.w, s.w) /\ r.w.capture = None
      /\ r.w.vad = s.w.vad /\ r.w.manual = s.w.manual
      /\ r.w.active = None /\ r.w.next = s.w.next
      /\ r.w.pending = TRUE /\ r.w.trans = s.w.active
  BY <1>t, <1>r, HandedIs
<1>2. /\ t \in Owned /\ t.m = r.m /\ t.q = r.q /\ t.ev = r.ev /\ t.ends = r.ends
      /\ SameSetting(t.w, r.w) /\ SameDevice(t, r) /\ t.w.active = r.w.active
      /\ t.w.next = r.w.next /\ ~t.w.pending /\ t.w.trans = None
  BY <1>1, <1>r, DroppedIs
<1>w. t.w \in Workers /\ s.w.trans = None /\ s.w.next \in Nat
  BY <1>t, <1>2, OwnedFields, WorkerFields DEF Fields
<1>3. Later(s.w, t.w)
  BY <1>1, <1>2, <1>w DEF Later, SameSetting
<1>4. Fields(t.w)
  BY <1>1, <1>2, <1>t, <1>w DEF Fields, SameSetting, Works
<1>5. Jobs(t.w, t.q, h)
  BY <1>1, <1>2, <1>3, <1>w, <1>t, JobsStay DEF SameSetting, Works
<1>6. EndsOK(t.w, t.ends)
  BY <1>1, <1>2, <1>t, <1>w, UtteranceIs DEF EndsOK
<1>7. Served(t.w, t.q, t.ev, desired, cs, n, h)
  BY <1>2 DEF Served
<1>8. Kept(t, desired, cs, n, h)
  BY <1>t, <1>1, <1>2, <1>3, <1>4, <1>5, <1>6, <1>7, Stepped
<1>9. Recording(t.w)
  BY <1>1, <1>2, <1>t DEF Recording, SameSetting, SameDevice, Works
<1> QED
  BY <1>1, <1>2, <1>8, <1>9, <1>t DEF Outcome, Sound, SameSetting, SameDevice, MicKept

LEMMA StoppedAlready ==
    ASSUME NEW s \in Owned, s.w.capture = None, s.m = SilentMic
    PROVE  StopCapture(s) = s
<1>1. s.w \in Workers /\ s = [w |-> s.w, m |-> s.m, q |-> s.q, ev |-> s.ev, ends |-> s.ends]
  BY OwnedFields
<1>2. [s.w EXCEPT !.capture = None] = s.w
  BY <1>1 DEF Workers
<1>3. StopCapture(s) = [s EXCEPT !.w = [s.w EXCEPT !.capture = None], !.m = SilentMic]
  BY DEF StopCapture
<1>4. StopCapture(s) = [s EXCEPT !.w = s.w, !.m = s.m]
  BY <1>2, <1>3, Zenon
<1> QED
  BY <1>4 DEF Owned

\* There is nobody who could transcribe.
LEMMA NobodyKeeps ==
    ASSUME NEW cs, NEW n, NEW h, NEW s, Sound(s, cs, n, h), s.w.active # None,
           s.w.manual = "none", NEW t, t = Fail(Dropped(Handed(s)))
    PROVE  Outcome(t, s, cs, n, h)
<1> DEFINE r == Handed(s)
           a == Dropped(r)
           b == StopCapture(a)
           c == Quieted(b)
           f == NotPending(c)
           e == Event("Error", desired, None)
<1>t. /\ s \in Owned /\ s.w \in Workers /\ s.q \in Queues
      /\ s.ev \in Seq(Events) /\ s.ends \in Ends
      /\ desired \in Nat /\ cs \in Seq(Commands) /\ n \in Windows /\ h \in Whispers
      /\ Fields(s.w) /\ Jobs(s.w, s.q, h) /\ EndsOK(s.w, s.ends)
      /\ Served(s.w, s.q, s.ev, desired, cs, n, h)
      /\ Kept(s, desired, cs, n, h) /\ s.w.pc = "wait" /\ Recording(s.w)
  BY KeptFields DEF Sound
<1>f. /\ t = Publish(NotPending(CancelTranscribing(CancelActive(c))), "Error", None)
      /\ r = Handed(s) /\ a = Dropped(r) /\ b = StopCapture(a) /\ c = Quieted(b) /\ f = NotPending(c)
      /\ e = Event("Error", desired, None)
  BY Zenon DEF Fail, Quieted, NotPending
<1> HIDE DEF r, a, b, c, f, e
<1>1. /\ r \in Owned /\ r.m = SilentMic /\ r.q = s.q /\ r.ev = s.ev /\ r.ends = s.ends
      /\ SameSetting(r.w, s.w) /\ r.w.capture = None
      /\ r.w.vad = s.w.vad /\ r.w.manual = s.w.manual
      /\ r.w.active = None /\ r.w.next = s.w.next
      /\ r.w.pending = TRUE /\ r.w.trans = s.w.active
  BY <1>t, <1>f, HandedIs
<1>2. /\ a \in Owned /\ a.m = r.m /\ a.q = r.q /\ a.ev = r.ev /\ a.ends = r.ends
      /\ SameSetting(a.w, r.w) /\ SameDevice(a, r) /\ a.w.active = r.w.active
      /\ a.w.next = r.w.next /\ ~a.w.pending /\ a.w.trans = None
  BY <1>1, <1>f, DroppedIs
<1>3. b = a
  BY <1>1, <1>2, <1>f, StoppedAlready DEF SameDevice
<1>b. b \in Owned
  BY <1>2, <1>3
<1>4. /\ c \in Owned /\ c.m = b.m /\ c.q = b.q /\ c.ev = b.ev /\ c.ends = b.ends
      /\ SameSetting(c.w, b.w) /\ c.w.capture = b.w.capture
      /\ ~c.w.vad /\ c.w.manual = "none" /\ c.w.active = b.w.active /\ c.w.next = b.w.next
      /\ c.w.pending = b.w.pending /\ c.w.trans = b.w.trans
  BY <1>b, <1>f, QuietedIs
<1>5. t = Publish(f, "Error", None)
  <2>1. c.w.active = None /\ c.w.trans = None
    BY <1>1, <1>2, <1>3, <1>4
  <2>2. CancelActive(c) = c
    BY <2>1, Zenon DEF CancelActive
  <2>3. CancelTranscribing(c) = c
    BY <2>1, Zenon DEF CancelTranscribing
  <2> QED
    BY <1>f, <2>2, <2>3, Zenon
<1>6. /\ f \in Owned /\ f.m = c.m /\ f.q = c.q /\ f.ev = c.ev /\ f.ends = c.ends
      /\ SameSetting(f.w, c.w) /\ SameDevice(f, c) /\ f.w.active = c.w.active
      /\ f.w.next = c.w.next /\ ~f.w.pending /\ f.w.trans = c.w.trans
  BY <1>4, <1>f, NotPendingIs
<1>7. "Error" \in EventTypes \ EndTypes /\ None \in 0..MaxUtterances
  BY Bounds DEF EventTypes, EndTypes, None
<1>8. /\ t \in Owned /\ t.w = f.w /\ t.m = f.m /\ t.q = f.q /\ t.ends = f.ends
      /\ f.w.rev # desired => t.ev = f.ev
      /\ f.w.rev = desired => t.ev = Append(f.ev, e)
      /\ e \in Events /\ e.type = "Error" /\ e.rev = desired /\ e.utt = None
  BY <1>5, <1>6, <1>7, <1>f, <1>t, PublishOther
<1>9. /\ SameSetting(t.w, s.w) /\ t.w.capture = None /\ ~t.w.vad /\ t.w.manual = "none"
      /\ t.w.active = None /\ t.w.trans = None /\ t.w.next = s.w.next /\ ~t.w.pending
      /\ t.m = SilentMic /\ t.q = s.q /\ t.ends = s.ends
      /\ s.w.rev # desired => t.ev = s.ev
      /\ s.w.rev = desired => t.ev = Append(s.ev, e)
  BY <1>1, <1>2, <1>3, <1>4, <1>6, <1>8 DEF SameSetting, SameDevice
<1>w. t.w \in Workers /\ s.w.trans = None /\ s.w.next \in Nat
  BY <1>t, <1>8, OwnedFields, WorkerFields DEF Fields
<1>10. Later(s.w, t.w)
  BY <1>9, <1>w DEF Later, SameSetting
<1>11. Fields(t.w)
  BY <1>9, <1>t, <1>w DEF Fields, SameSetting, Works
<1>12. Jobs(t.w, t.q, h)
  BY <1>9, <1>10, <1>w, <1>t, JobsStay DEF SameSetting, Works
<1>13. EndsOK(t.w, t.ends)
  BY <1>9, <1>t, <1>w, UtteranceIs DEF EndsOK
<1>14. Served(t.w, t.q, t.ev, desired, cs, n, h)
  BY <1>9 DEF Served
<1>15. Kept(t, desired, cs, n, h)
  <2>1. CASE s.w.rev # desired
    BY <1>t, <1>8, <1>9, <1>10, <1>11, <1>12, <1>13, <1>14, <2>1, Stepped
  <2>2. CASE s.w.rev = desired
    <3>1. Says(e, s.w, t.w, s.ev, s.ends, t.ends, desired, n)
      BY <1>8, <1>9, <1>w, <2>2 DEF Says, EndTypes
    <3> QED
      BY <1>t, <1>8, <1>9, <1>10, <1>11, <1>12, <1>13, <1>14, <2>2, <3>1, Stepped
  <2> QED
    BY <2>1, <2>2
<1>16. Recording(t.w)
  BY <1>9, <1>t DEF Recording, SameSetting, Works
<1> QED
  BY <1>9, <1>15, <1>16, <1>t DEF Outcome, Sound, SameSetting, MicKept

LEMMA DispatchKeeps ==
    ASSUME NEW cs, NEW n, NEW h, NEW s, Sound(s, cs, n, h), s.w.manual = "none",
           NextCapture \in Nat \ {None}, NEW ok \in BOOLEAN, NEW t, t = Dispatch(s, ok)
    PROVE  Outcome(t, s, cs, n, h)
<1> DEFINE job == [rev |-> s.w.rev, utt |-> s.w.active]
<1>t. s \in Owned /\ s.w \in Workers /\ s.w.pc = "wait" /\ Recording(s.w)
  BY KeptFields DEF Sound
<1>b. s.w.backend \in {"local", "remote", "none"}
  BY <1>t, WorkerFields
<1>j. job.utt = s.w.active
  OBVIOUS
<1>1. CASE s.w.active = None
  <2>1. t = s
    BY <1>1, Zenon DEF Dispatch
  <2> QED
    BY <2>1 DEF Outcome, Sound, MicKept
<1>2. CASE s.w.active # None /\ s.w.backend = "local" /\ s.w.rev = desired
  <2> DEFINE r == Queued(Handed(s), job)
  <2>1. t = Resume(r, ok)
    BY <1>2, Zenon DEF Dispatch, Handed, Queued
  <2>2. Outcome(r, s, cs, n, h) /\ r.w.mode = s.w.mode /\ r.w.vad = s.w.vad
    BY <1>2, QueuedKeeps
  <2> HIDE DEF r
  <2>3. r.w.mode = "auto" => r.w.vad
    BY <1>2, <1>t, <2>2 DEF Recording, Works
  <2>4. Sound(r, cs, n, h)
    BY <2>2 DEF Outcome
  <2>5. Outcome(t, r, cs, n, h)
    BY <2>1, <2>3, <2>4, ResumeKeeps
  <2> QED
    BY <2>2, <2>5, OutcomeTrans DEF Outcome
<1>3. CASE s.w.active # None /\ s.w.backend = "local" /\ s.w.rev # desired
  <2>1. t = Dropped(Handed(s))
    BY <1>3, Zenon DEF Dispatch, Handed, Dropped
  <2> QED
    BY <1>3, <2>1, RefusedKeeps
<1>4. CASE s.w.active # None /\ s.w.backend = "remote"
  <2> DEFINE r == Publish(Handed(s), "TranscriptionRequested", s.w.active)
  <2>1. t = Resume(r, ok)
    BY <1>4, <1>j DEF Dispatch, Handed
  <2>2. Outcome(r, s, cs, n, h) /\ r.w.mode = s.w.mode /\ r.w.vad = s.w.vad
    BY <1>4, RequestedKeeps
  <2> HIDE DEF r
  <2>3. r.w.mode = "auto" => r.w.vad
    BY <1>4, <1>t, <2>2 DEF Recording, Works
  <2>4. Sound(r, cs, n, h)
    BY <2>2 DEF Outcome
  <2>5. Outcome(t, r, cs, n, h)
    BY <2>1, <2>3, <2>4, ResumeKeeps
  <2> QED
    BY <2>2, <2>5, OutcomeTrans DEF Outcome
<1>5. CASE s.w.active # None /\ s.w.backend = "none"
  <2>1. t = Fail(Dropped(Handed(s)))
    BY <1>5, Zenon DEF Dispatch, Handed, Dropped
  <2> QED
    BY <1>5, <2>1, NobodyKeeps
<1> QED
  BY <1>b, <1>1, <1>2, <1>3, <1>4, <1>5

ManualSet(s, manual) == [s EXCEPT !.w.manual = manual]

LEMMA ManualIs ==
    ASSUME NEW s \in Owned, NEW manual \in {"none", "short", "long"}, NEW t, t = ManualSet(s, manual)
    PROVE  /\ t \in Owned /\ t.m = s.m /\ t.q = s.q /\ t.ev = s.ev /\ t.ends = s.ends
           /\ SameSetting(t.w, s.w) /\ t.w.capture = s.w.capture /\ t.w.vad = s.w.vad
           /\ t.w.manual = manual /\ t.w.active = s.w.active /\ t.w.next = s.w.next
           /\ t.w.pending = s.w.pending /\ t.w.trans = s.w.trans
<1>t. /\ s.w \in Workers /\ s.m \in Mics /\ s.q \in Queues /\ s.ev \in Seq(Events) /\ s.ends \in Ends
  BY OwnedFields
<1> DEFINE w2 == [s.w EXCEPT !.manual = manual]
<1>1. /\ w2 \in Workers /\ SameSetting(w2, s.w) /\ w2.capture = s.w.capture /\ w2.vad = s.w.vad
      /\ w2.manual = manual /\ w2.active = s.w.active /\ w2.next = s.w.next
      /\ w2.pending = s.w.pending /\ w2.trans = s.w.trans
  BY <1>t DEF Workers, SameSetting
<1>2. t = [s EXCEPT !.w = w2]
  BY DEF Owned, ManualSet
<1> HIDE DEF w2
<1>3. t = [w |-> w2, m |-> s.m, q |-> s.q, ev |-> s.ev, ends |-> s.ends]
  BY <1>2 DEF Owned
<1> QED
  BY <1>1, <1>3, <1>t, OwnedIs

LEMMA ManualKeeps ==
    ASSUME NEW cs, NEW n, NEW h, NEW s, Kept(s, desired, cs, n, h),
           NEW manual \in {"none", "short", "long"}, NEW t, t = ManualSet(s, manual)
    PROVE  /\ Kept(t, desired, cs, n, h)
           /\ SameSetting(t.w, s.w) /\ t.w.capture = s.w.capture /\ t.w.vad = s.w.vad
           /\ t.w.manual = manual /\ t.w.active = s.w.active /\ t.w.next = s.w.next
           /\ t.w.trans = s.w.trans /\ t.m = s.m
<1>t. s \in Owned
  BY KeptFields
<1>1. /\ t \in Owned /\ t.m = s.m /\ t.q = s.q /\ t.ev = s.ev /\ t.ends = s.ends
      /\ SameSetting(t.w, s.w) /\ t.w.capture = s.w.capture /\ t.w.vad = s.w.vad
      /\ t.w.manual = manual /\ t.w.active = s.w.active /\ t.w.next = s.w.next
      /\ t.w.pending = s.w.pending /\ t.w.trans = s.w.trans
  BY <1>t, ManualIs
<1>2. Alike(s.w, t.w)
  BY <1>1 DEF Alike, SameSetting, Works
<1> QED
  BY <1>1, <1>2, Unconcerned

LEMMA DiscontinuityKeeps ==
    ASSUME NEW cs, NEW n, NEW h, NEW s, Sound(s, cs, n, h), s.w.mode = "auto" => s.w.vad,
           NextCapture \in Nat \ {None}, NEW ok \in BOOLEAN, NEW t, t = Discontinuity(s, ok)
    PROVE  Outcome(t, s, cs, n, h)
<1> DEFINE a == ManualSet(s, "none")
           b == CancelActive(a)
<1>d. a = ManualSet(s, "none") /\ b = CancelActive(a)
  OBVIOUS
<1>s. Kept(s, desired, cs, n, h) /\ s.w.pc = "wait" /\ Recording(s.w)
  BY DEF Sound
<1>f. /\ s.w.mode = "push" => t = Publish(StopCapture(b), "Error", None)
      /\ s.w.mode # "push" => \/ t = Fail(b)
                              \/ t = Publish(Resume(b, ok), "Error", None)
  BY Zenon DEF Discontinuity, ManualSet
<1> HIDE DEF a, b
<1>1. /\ Kept(a, desired, cs, n, h)
      /\ SameSetting(a.w, s.w) /\ a.w.capture = s.w.capture /\ a.w.vad = s.w.vad
      /\ a.w.manual = "none" /\ a.w.active = s.w.active /\ a.w.next = s.w.next
      /\ a.w.trans = s.w.trans /\ a.m = s.m
  BY <1>s, <1>d, ManualKeeps
<1>2. /\ Kept(b, desired, cs, n, h) /\ SameSetting(b.w, a.w) /\ SameDevice(b, a)
      /\ b.w.active = None /\ b.w.trans = a.w.trans
  BY <1>1, <1>d, CancelActiveKeeps
<1>3. CASE s.w.mode = "push"
  <2> DEFINE c == StopCapture(b)
  <2>d. c = StopCapture(b) /\ t = Publish(c, "Error", None)
    BY <1>f, <1>3
  <2> HIDE DEF c
  <2>1. /\ Kept(c, desired, cs, n, h) /\ SameSetting(c.w, b.w) /\ c.w.capture = None
        /\ c.w.vad = b.w.vad /\ c.w.manual = b.w.manual /\ c.w.active = b.w.active
        /\ c.w.trans = b.w.trans
    BY <1>2, <2>d, StopKeeps
  <2>2. Kept(t, desired, cs, n, h) /\ t.w = c.w
    BY <2>1, <2>d, ErrorKeeps
  <2>3. Recording(t.w)
    BY <1>1, <1>2, <1>3, <1>s, <2>1, <2>2 DEF Recording, SameSetting, SameDevice, Works
  <2> QED
    BY <1>1, <1>2, <1>s, <2>1, <2>2, <2>3 DEF Outcome, Sound, MicKept, SameSetting
<1>4. CASE s.w.mode # "push"
  <2>1. Sound(b, cs, n, h) /\ (b.w.mode = "auto" => b.w.vad)
    BY <1>1, <1>2, <1>4, <1>s DEF Sound, Recording, SameSetting, SameDevice, Works
  <2>2. b.w.rev = s.w.rev /\ MicKept(b, s)
    BY <1>1, <1>2 DEF SameSetting, SameDevice, MicKept
  <2>3. CASE t = Fail(b)
    <3>1. /\ Kept(t, desired, cs, n, h)
          /\ SameSetting(t.w, b.w) /\ t.w.capture = None /\ ~t.w.vad /\ t.w.manual = "none"
          /\ t.w.active = None /\ t.w.trans = None
      BY <1>2, <2>3, FailKeeps
    <3> QED
      BY <2>1, <2>2, <3>1 DEF Outcome, Sound, MicKept, Recording, SameSetting, Works
  <2>4. CASE t = Publish(Resume(b, ok), "Error", None)
    <3> DEFINE c == Resume(b, ok)
    <3>1. Outcome(c, b, cs, n, h)
      BY <2>1, ResumeKeeps
    <3> HIDE DEF c
    <3>2. Kept(c, desired, cs, n, h)
      BY <3>1 DEF Outcome, Sound
    <3>3. t = Publish(c, "Error", None)
      BY <2>4 DEF c
    <3>4. Kept(t, desired, cs, n, h) /\ t.w = c.w /\ t.m = c.m
      BY <3>2, <3>3, ErrorKeeps
    <3>5. Outcome(t, b, cs, n, h)
      BY <3>1, <3>4 DEF Outcome, Sound, MicKept
    <3> QED
      BY <2>2, <3>5, OutcomeTrans
  <2> QED
    BY <1>4, <1>f, <2>3, <2>4
<1> QED
  BY <1>3, <1>4

LEMMA FinishManualKeeps ==
    ASSUME NEW cs, NEW n, NEW h, NEW s, Sound(s, cs, n, h), NextCapture \in Nat \ {None},
           NEW long \in BOOLEAN, long => s.w.active # None \/ s.w.next <= MaxUtterances,
           NEW ok \in BOOLEAN, NEW t, t = FinishManual(s, long, ok)
    PROVE  Outcome(t, s, cs, n, h)
<1> DEFINE a == StopCapture(s)
           b == ManualSet(a, "none")
<1>d. a = StopCapture(s) /\ b = ManualSet(a, "none")
  OBVIOUS
<1>s. Kept(s, desired, cs, n, h) /\ s.w.pc = "wait" /\ Recording(s.w)
  BY DEF Sound
<1>f. /\ s.w.manual = "none" => t = s
      /\ s.w.manual # "none" => \/ t = Discontinuity(a, ok)
                                \/ long /\ t = Dispatch(Begin(b), ok)
                                \/ t = Resume(CancelActive(b), ok)
  BY Zenon DEF FinishManual, ManualSet
<1> HIDE DEF a, b
<1>1. CASE s.w.manual = "none"
  BY <1>1, <1>f DEF Outcome, Sound, MicKept
<1>2. CASE s.w.manual # "none"
  <2>m. s.w.trans = None /\ (s.w.mode = "auto" => s.w.vad)
    BY <1>2, <1>s DEF Recording, Works
  <2>1. /\ Kept(a, desired, cs, n, h) /\ SameSetting(a.w, s.w) /\ a.w.capture = None
        /\ a.w.vad = s.w.vad /\ a.w.manual = s.w.manual /\ a.w.active = s.w.active
        /\ a.w.next = s.w.next /\ a.w.trans = s.w.trans
    BY <1>s, <1>d, StopKeeps
  <2>2. Sound(a, cs, n, h) /\ (a.w.mode = "auto" => a.w.vad) /\ a.w.rev = s.w.rev /\ MicKept(a, s)
    BY <1>s, <2>1, <2>m DEF Sound, Recording, SameSetting, Works, MicKept
  <2>3. /\ Kept(b, desired, cs, n, h)
        /\ SameSetting(b.w, a.w) /\ b.w.capture = a.w.capture /\ b.w.vad = a.w.vad
        /\ b.w.manual = "none" /\ b.w.active = a.w.active /\ b.w.next = a.w.next
        /\ b.w.trans = a.w.trans
    BY <2>1, <1>d, ManualKeeps
  <2>4. CASE t = Discontinuity(a, ok)
    <3>1. Outcome(t, a, cs, n, h)
      BY <2>2, <2>4, DiscontinuityKeeps
    <3> QED
      BY <2>2, <3>1, OutcomeTrans
  <2>5. CASE long /\ t = Dispatch(Begin(b), ok)
    <3> DEFINE c == Begin(b)
    <3>d. c = Begin(b) /\ t = Dispatch(c, ok)
      BY <2>5
    <3> HIDE DEF c
    <3>0. Works(b.w) /\ (b.w.active # None \/ (b.w.next <= MaxUtterances /\ b.w.trans = None))
      BY <2>5, <2>1, <2>3, <2>m, <1>s DEF Works, SameSetting
    <3>1. /\ Kept(c, desired, cs, n, h) /\ SameSetting(c.w, b.w) /\ SameDevice(c, b)
          /\ c.w.active # None /\ c.w.trans = b.w.trans
      BY <2>3, <3>0, <3>d, BeginKeeps
    <3>2. Sound(c, cs, n, h) /\ c.w.manual = "none" /\ c.w.rev = s.w.rev /\ MicKept(c, s)
      BY <1>s, <2>1, <2>3, <2>m, <3>1 DEF Sound, Recording, SameSetting, SameDevice, Works, MicKept
    <3>3. Outcome(t, c, cs, n, h)
      BY <3>2, <3>d, DispatchKeeps
    <3> QED
      BY <3>2, <3>3, OutcomeTrans
  <2>6. CASE t = Resume(CancelActive(b), ok)
    <3> DEFINE c == CancelActive(b)
    <3>d. c = CancelActive(b) /\ t = Resume(c, ok)
      BY <2>6
    <3> HIDE DEF c
    <3>1. /\ Kept(c, desired, cs, n, h) /\ SameSetting(c.w, b.w) /\ SameDevice(c, b)
          /\ c.w.active = None /\ c.w.trans = b.w.trans
      BY <2>3, <3>d, CancelActiveKeeps
    <3>2. Sound(c, cs, n, h) /\ (c.w.mode = "auto" => c.w.vad) /\ c.w.rev = s.w.rev /\ MicKept(c, s)
      BY <1>s, <2>1, <2>3, <2>m, <3>1 DEF Sound, Recording, SameSetting, SameDevice, Works, MicKept
    <3>3. Outcome(t, c, cs, n, h)
      BY <3>2, <3>d, ResumeKeeps
    <3> QED
      BY <3>2, <3>3, OutcomeTrans
  <2> QED
    BY <1>2, <1>f, <2>4, <2>5, <2>6
<1> QED
  BY <1>1, <1>2

LEMMA PressedKeeps ==
    ASSUME NEW cs, NEW n, NEW h, NEW s, Sound(s, cs, n, h), NextCapture \in Nat \ {None},
           s.w.mode # "off",
           NEW long \in BOOLEAN, long => s.w.active # None \/ s.w.next <= MaxUtterances,
           NEW ok \in BOOLEAN, NEW t, t = Pressed(s, long, ok)
    PROVE  Outcome(t, s, cs, n, h)
<1> DEFINE a == CancelTranscribing(s)
           b == IF s.w.capture # None THEN a ELSE StartCapture(a)
           manual == IF long THEN "long" ELSE "short"
           c == ManualSet(b, manual)
<1>d. /\ a = CancelTranscribing(s) /\ c = ManualSet(b, manual)
      /\ (s.w.capture # None /\ b = a) \/ b = StartCapture(a)
  OBVIOUS
<1>m. manual \in {"none", "short", "long"} /\ manual # "none" /\ (manual = "long" => long)
  OBVIOUS
<1>s. Kept(s, desired, cs, n, h) /\ s.w.pc = "wait" /\ Recording(s.w) /\ s.w \in Workers
  BY KeptFields DEF Sound
<1>f. \/ t = s
      \/ t = a /\ s.w.manual = "none"
      \/ t = Fail(a)
      \/ /\ s.w.manual = "none" /\ ~(s.w.mode = "auto" /\ ~s.w.vad)
         /\ t = IF long THEN Begin(c) ELSE c
  BY Zenon DEF Pressed, ManualSet
<1> HIDE DEF a, b, c, manual
<1>1. /\ Kept(a, desired, cs, n, h) /\ SameSetting(a.w, s.w) /\ SameDevice(a, s)
      /\ a.w.active = s.w.active /\ a.w.next = s.w.next /\ a.w.trans = None
  BY <1>s, <1>d, CancelTranscribingKeeps
<1>2. CASE t = s
  BY <1>2 DEF Outcome, Sound, MicKept
<1>3. CASE t = a
  BY <1>1, <1>3, <1>s DEF Outcome, Sound, MicKept, Recording, Works, SameSetting, SameDevice
<1>4. CASE t = Fail(a)
  <2>1. /\ Kept(t, desired, cs, n, h)
        /\ SameSetting(t.w, a.w) /\ t.w.capture = None /\ ~t.w.vad /\ t.w.manual = "none"
        /\ t.w.active = None /\ t.w.trans = None
    BY <1>1, <1>4, FailKeeps
  <2> QED
    BY <1>1, <1>s, <2>1 DEF Outcome, Sound, MicKept, Recording, SameSetting, Works
<1>5. ASSUME s.w.manual = "none", ~(s.w.mode = "auto" /\ ~s.w.vad), t = IF long THEN Begin(c) ELSE c
      PROVE  Outcome(t, s, cs, n, h)
  <2>1. /\ Kept(b, desired, cs, n, h) /\ SameSetting(b.w, s.w) /\ b.w.capture # None
        /\ b.w.vad = s.w.vad /\ b.w.manual = s.w.manual /\ b.w.active = s.w.active
        /\ b.w.next = s.w.next /\ b.w.trans = None /\ MicKept(b, s)
    <3>1. CASE s.w.capture # None /\ b = a
      BY <3>1, <1>1 DEF SameSetting, SameDevice, MicKept
    <3>2. CASE b = StartCapture(a)
      <4>1. /\ Kept(b, desired, cs, n, h)
            /\ SameSetting(b.w, a.w) /\ b.w.capture # None
            /\ b.w.vad = a.w.vad /\ b.w.manual = a.w.manual /\ b.w.active = a.w.active
            /\ b.w.next = a.w.next /\ b.w.trans = a.w.trans
            /\ MicKept(b, a)
        BY <1>1, <3>2, StartKeeps
      <4> QED
        BY <1>1, <4>1 DEF SameSetting, SameDevice, MicKept
    <3> QED
      BY <1>d, <3>1, <3>2
  <2>2. /\ Kept(c, desired, cs, n, h)
        /\ SameSetting(c.w, b.w) /\ c.w.capture = b.w.capture /\ c.w.vad = b.w.vad
        /\ c.w.manual = manual /\ c.w.active = b.w.active /\ c.w.next = b.w.next
        /\ c.w.trans = b.w.trans /\ c.m = b.m
    BY <2>1, <1>d, <1>m, ManualKeeps
  <2>m. s.w.mode = "push" \/ (s.w.mode = "auto" /\ s.w.vad)
    BY <1>5, <1>s, WorkerFields
  <2>3. CASE ~long
    <3>1. t = c
      BY <1>5, <2>3
    <3> QED
      BY <3>1, <2>1, <2>2, <2>3, <2>m, <1>m, <1>s
         DEF Outcome, Sound, MicKept, Recording, SameSetting, Works
  <2>4. CASE long
    <3>1. t = Begin(c)
      BY <1>5, <2>4
    <3>2. Works(c.w) /\ (c.w.active # None \/ (c.w.next <= MaxUtterances /\ c.w.trans = None))
      BY <2>1, <2>2, <2>4, <1>s DEF Works, SameSetting
    <3>3. /\ Kept(t, desired, cs, n, h) /\ SameSetting(t.w, c.w) /\ SameDevice(t, c)
          /\ t.w.active # None /\ t.w.trans = c.w.trans
      BY <2>2, <3>1, <3>2, BeginKeeps
    <3> QED
      BY <3>3, <2>1, <2>2, <2>m, <1>m, <1>s
         DEF Outcome, Sound, MicKept, Recording, SameSetting, SameDevice, Works
  <2> QED
    BY <2>3, <2>4
<1> QED
  BY <1>f, <1>2, <1>3, <1>4, <1>5

LEMMA DetectedKeeps ==
    ASSUME NEW cs, NEW n, NEW h, NEW s, Sound(s, cs, n, h), NextCapture \in Nat \ {None},
           s.w.manual = "none", s.w.mode = "auto" => s.w.vad, NEW found,
           found = "started" => s.w.active # None \/ s.w.next <= MaxUtterances,
           NEW ok \in BOOLEAN, NEW t, t = Detected(s, found, ok)
    PROVE  Outcome(t, s, cs, n, h)
<1> DEFINE a == CancelTranscribing(s)
<1>d. a = CancelTranscribing(s)
  OBVIOUS
<1>s. Kept(s, desired, cs, n, h) /\ s.w.pc = "wait" /\ Recording(s.w)
  BY DEF Sound
<1>f. \/ t = s
      \/ t = Dispatch(s, ok)
      \/ found = "started" /\ t = Begin(a)
  BY Zenon DEF Detected
<1> HIDE DEF a
<1>1. CASE t = s
  BY <1>1 DEF Outcome, Sound, MicKept
<1>2. CASE t = Dispatch(s, ok)
  BY <1>2, DispatchKeeps
<1>3. CASE found = "started" /\ t = Begin(a)
  <2>1. /\ Kept(a, desired, cs, n, h) /\ SameSetting(a.w, s.w) /\ SameDevice(a, s)
        /\ a.w.active = s.w.active /\ a.w.next = s.w.next /\ a.w.trans = None
    BY <1>s, <1>d, CancelTranscribingKeeps
  <2>2. Works(a.w) /\ (a.w.active # None \/ (a.w.next <= MaxUtterances /\ a.w.trans = None))
    BY <1>3, <1>s, <2>1 DEF Works, SameSetting
  <2>3. /\ Kept(t, desired, cs, n, h) /\ SameSetting(t.w, a.w) /\ SameDevice(t, a)
        /\ t.w.active # None /\ t.w.trans = a.w.trans
    BY <1>3, <2>1, <2>2, BeginKeeps
  <2> QED
    BY <2>1, <2>3, <1>s DEF Outcome, Sound, MicKept, Recording, SameSetting, SameDevice, Works
<1> QED
  BY <1>f, <1>1, <1>2, <1>3

LEMMA RecordedKeeps ==
    ASSUME NEW cs, NEW n, NEW h, NEW s, Sound(s, cs, n, h), NextCapture \in Nat \ {None},
           s.w.manual # "none", NEW found,
           found \in {"started", "complete"} => s.w.active # None \/ s.w.next <= MaxUtterances,
           NEW ok \in BOOLEAN, NEW t, t = Recorded(s, found, ok)
    PROVE  Outcome(t, s, cs, n, h)
<1> DEFINE a == ManualSet(s, "long")
           b == Begin(a)
<1>d. a = ManualSet(s, "long") /\ b = Begin(a)
  OBVIOUS
<1>s. Kept(s, desired, cs, n, h) /\ s.w.pc = "wait" /\ Recording(s.w)
  BY DEF Sound
<1>f. \/ t = s
      \/ found = "started" /\ t = b
      \/ found = "complete" /\ t = FinishManual(b, TRUE, ok)
  BY Zenon DEF Recorded, ManualSet
<1> HIDE DEF a, b
<1>1. CASE t = s
  BY <1>1 DEF Outcome, Sound, MicKept
<1>2. CASE found \in {"started", "complete"}
  <2>m. s.w.trans = None /\ (s.w.mode = "auto" => s.w.vad)
    BY <1>s DEF Recording, Works
  <2>1. /\ Kept(a, desired, cs, n, h)
        /\ SameSetting(a.w, s.w) /\ a.w.capture = s.w.capture /\ a.w.vad = s.w.vad
        /\ a.w.manual = "long" /\ a.w.active = s.w.active /\ a.w.next = s.w.next
        /\ a.w.trans = s.w.trans /\ a.m = s.m
    BY <1>s, <1>d, ManualKeeps
  <2>2. Works(a.w) /\ (a.w.active # None \/ (a.w.next <= MaxUtterances /\ a.w.trans = None))
    BY <1>2, <1>s, <2>1, <2>m DEF Works, SameSetting
  <2>3. /\ Kept(b, desired, cs, n, h) /\ SameSetting(b.w, a.w) /\ SameDevice(b, a)
        /\ b.w.active # None /\ b.w.trans = a.w.trans
    BY <1>d, <2>1, <2>2, BeginKeeps
  <2>4. Outcome(b, s, cs, n, h)
    BY <2>1, <2>3, <2>m, <1>s DEF Outcome, Sound, MicKept, Recording, SameSetting, SameDevice, Works
  <2>5. CASE t = FinishManual(b, TRUE, ok)
    <3>1. Sound(b, cs, n, h)
      BY <2>4 DEF Outcome
    <3>2. Outcome(t, b, cs, n, h)
      BY <2>3, <2>5, <3>1, FinishManualKeeps
    <3> QED
      BY <2>4, <3>2, OutcomeTrans DEF Outcome
  <2> QED
    BY <1>1, <1>f, <2>4, <2>5
<1> QED
  BY <1>f, <1>1, <1>2

-----------------------------------------------------------------------------
(* A new configuration.                                                    *)

Refreshed(s, rev, setting) ==
    [s EXCEPT !.w.rev = rev, !.w.mode = setting[1], !.w.backend = setting[2],
              !.w.vad = FALSE, !.w.manual = "none", !.w.pending = FALSE]
Listening(s) == [s EXCEPT !.w.vad = TRUE]

LEMMA RefreshedIs ==
    ASSUME NEW s \in Owned, NEW rev \in Nat, NEW setting \in Settings,
           NEW t, t = Refreshed(s, rev, setting)
    PROVE  /\ t \in Owned /\ t.m = s.m /\ t.q = s.q /\ t.ev = s.ev /\ t.ends = s.ends
           /\ t.w.pc = s.w.pc /\ t.w.rev = rev /\ t.w.mode = setting[1]
           /\ t.w.capture = s.w.capture /\ ~t.w.vad
           /\ t.w.manual = "none" /\ t.w.active = s.w.active /\ t.w.next = s.w.next
           /\ ~t.w.pending /\ t.w.trans = s.w.trans
<1>t. /\ s.w \in Workers /\ s.m \in Mics /\ s.q \in Queues /\ s.ev \in Seq(Events) /\ s.ends \in Ends
  BY OwnedFields
<1>s. setting[1] \in {"off", "push", "auto"} /\ setting[2] \in {"local", "remote", "none"}
  BY VoiceAssumption
<1> DEFINE w2 == [s.w EXCEPT !.rev = rev, !.mode = setting[1], !.backend = setting[2],
                             !.vad = FALSE, !.manual = "none", !.pending = FALSE]
<1>1. /\ w2 \in Workers /\ w2.pc = s.w.pc /\ w2.rev = rev /\ w2.mode = setting[1]
      /\ w2.capture = s.w.capture /\ ~w2.vad
      /\ w2.manual = "none" /\ w2.active = s.w.active /\ w2.next = s.w.next
      /\ ~w2.pending /\ w2.trans = s.w.trans
  BY <1>t, <1>s DEF Workers
<1>2. t = [s EXCEPT !.w = w2]
  BY <1>t DEF Owned, Refreshed, Workers
<1> HIDE DEF w2
<1>3. t = [w |-> w2, m |-> s.m, q |-> s.q, ev |-> s.ev, ends |-> s.ends]
  BY <1>2 DEF Owned
<1> QED
  BY <1>1, <1>3, <1>t, OwnedIs

LEMMA ListeningIs ==
    ASSUME NEW s \in Owned, NEW t, t = Listening(s)
    PROVE  /\ t \in Owned /\ t.m = s.m /\ t.q = s.q /\ t.ev = s.ev /\ t.ends = s.ends
           /\ SameSetting(t.w, s.w) /\ t.w.capture = s.w.capture /\ t.w.vad
           /\ t.w.manual = s.w.manual /\ t.w.active = s.w.active /\ t.w.next = s.w.next
           /\ t.w.pending = s.w.pending /\ t.w.trans = s.w.trans
<1>t. /\ s.w \in Workers /\ s.m \in Mics /\ s.q \in Queues /\ s.ev \in Seq(Events) /\ s.ends \in Ends
  BY OwnedFields
<1> DEFINE w2 == [s.w EXCEPT !.vad = TRUE]
<1>1. /\ w2 \in Workers /\ SameSetting(w2, s.w) /\ w2.capture = s.w.capture /\ w2.vad
      /\ w2.manual = s.w.manual /\ w2.active = s.w.active /\ w2.next = s.w.next
      /\ w2.pending = s.w.pending /\ w2.trans = s.w.trans
  BY <1>t DEF Workers, SameSetting
<1>2. t = [s EXCEPT !.w = w2]
  BY DEF Owned, Listening
<1> HIDE DEF w2
<1>3. t = [w |-> w2, m |-> s.m, q |-> s.q, ev |-> s.ev, ends |-> s.ends]
  BY <1>2 DEF Owned
<1> QED
  BY <1>1, <1>3, <1>t, OwnedIs

\* A job of a superseded revision is taken back.
LEMMA TakenBackKeeps ==
    ASSUME NEW cs, NEW n, NEW h, NEW s, Kept(s, desired, cs, n, h), s.w.rev # desired,
           NEW t, t = Queued(s, NoJob)
    PROVE  Kept(t, desired, cs, n, h) /\ t.w = s.w /\ t.m = s.m /\ t.q.job = NoJob
<1>t. /\ s \in Owned /\ s.w \in Workers /\ Fields(s.w) /\ Jobs(s.w, s.q, h) /\ EndsOK(s.w, s.ends)
  BY KeptFields
<1>j. NoJob \in Job
  BY Bounds DEF Job, NoJob, None
<1>1. /\ t \in Owned /\ t.w = s.w /\ t.m = s.m /\ t.ev = s.ev /\ t.ends = s.ends
      /\ t.q.job = NoJob /\ t.q.cancelled = s.q.cancelled /\ t.q.shutdown = s.q.shutdown
  BY <1>t, <1>j, QueuedIs
<1>2. Jobs(t.w, t.q, h)
  BY <1>1, <1>t DEF Jobs, JobOK
<1>3. Served(t.w, t.q, t.ev, desired, cs, n, h)
  BY <1>1 DEF Served
<1>4. Later(s.w, t.w)
  BY <1>1, <1>t, LaterSame
<1>5. Fields(t.w) /\ EndsOK(t.w, t.ends)
  BY <1>1, <1>t
<1> QED
  BY <1>1, <1>2, <1>3, <1>4, <1>5, Stepped

\* Nothing of the old revision concerns the new one.
LEMMA RefreshedKeeps ==
    ASSUME NEW cs, NEW n, NEW h, NEW s, Kept(s, desired, cs, n, h), s.w.rev # desired,
           Works(s.w), s.w.active = None, s.w.trans = None, s.q.job = NoJob,
           NEW setting \in Settings, NEW t, t = Refreshed(s, desired, setting)
    PROVE  Kept(t, desired, cs, n, h)
<1>t. /\ s \in Owned /\ s.w \in Workers /\ s.q \in Queues
      /\ s.ev \in Seq(Events) /\ s.ends \in Ends
      /\ desired \in Nat /\ cs \in Seq(Commands) /\ n \in Windows /\ h \in Whispers
      /\ Fields(s.w) /\ Jobs(s.w, s.q, h) /\ EndsOK(s.w, s.ends)
      /\ Related(s.w, s.ev, s.ends, desired, cs, n) /\ s.w.rev <= desired
      /\ s.w.rev \in Nat
  BY KeptFields, WorkerFields
<1>1. /\ t \in Owned /\ t.m = s.m /\ t.q = s.q /\ t.ev = s.ev /\ t.ends = s.ends
      /\ t.w.pc = s.w.pc /\ t.w.rev = desired
      /\ t.w.active = s.w.active /\ t.w.next = s.w.next
      /\ ~t.w.pending /\ t.w.trans = s.w.trans
  BY <1>t, RefreshedIs
<1>2. Fields(t.w) /\ EndsOK(t.w, t.ends)
  BY <1>1, <1>t DEF Fields, EndsOK, Works
<1>3. Jobs(t.w, t.q, h)
  <2>1. h.job \in Job /\ h.job.rev \in Nat
    BY <1>t, JobFields DEF Whispers
  <2>2. JobOK(h.job, t.w)
    BY <1>1, <1>t, <2>1 DEF Jobs, JobOK, Past
  <2> QED
    BY <1>1, <1>t, <2>2 DEF Jobs, JobOK, Past, Works
<1>e. \A i \in 1..Len(s.ev) : s.ev[i].rev \in Nat /\ s.ev[i].rev <= s.w.rev
  BY <1>t, EventFields DEF Related, Stream
<1>4. Stream(t.w, t.ev, t.ends, desired)
  BY <1>1, <1>t, <1>e DEF Related, Stream
<1>5. Owed(t.w, t.ev, desired)
  BY <1>1, <1>t, <1>e DEF Owed
<1>6. Holds(t.w, t.ev, t.ends, desired, n)
  BY <1>1, <1>t DEF Related, Holds
<1>7. Results(t.w, t.ev, desired, cs, n)
  <2>1. ASSUME NEW i \in 1..Len(cs), cs[i].type = "TranscriptionFinished"
        PROVE  cs[i].rev \in Nat /\ cs[i].rev <= s.w.rev /\ Past(cs[i].utt, s.w)
    <3>1. cs[i] \in Commands
      BY <1>t
    <3> QED
      BY <1>t, <2>1, <3>1, CommandFields DEF Related, Results
  <2> QED
    BY <1>1, <1>t, <2>1 DEF Related, Results, Past
<1>8. Served(t.w, t.q, t.ev, desired, cs, n, h)
  BY <1>1 DEF Served
<1> QED
  BY <1>1, <1>2, <1>3, <1>4, <1>5, <1>6, <1>7, <1>8, <1>t DEF Kept, Typed, Related

LEMMA ReconfiguredKeeps ==
    ASSUME NEW cs, NEW n, NEW h, NEW s, Kept(s, desired, cs, n, h), s.w.rev # desired,
           s.w.pc = "wait", NextCapture \in Nat \ {None},
           NEW setting \in Settings, NEW ok \in BOOLEAN,
           NEW t, t = Reconfigured(s, desired, setting, ok)
    PROVE  /\ Kept(t, desired, cs, n, h) /\ t.w.pc = "wait" /\ Recording(t.w)
           /\ t.w.capture = None \/ t.m = SilentMic
<1> DEFINE a == StopCapture(s)
           b == Queued(a, NoJob)
           c == CancelActive(b)
           d == CancelTranscribing(c)
           f == Refreshed(d, desired, setting)
           g == Listening(f)
<1>d. /\ a = StopCapture(s) /\ b = Queued(a, NoJob) /\ c = CancelActive(b)
      /\ d = CancelTranscribing(c) /\ f = Refreshed(d, desired, setting) /\ g = Listening(f)
  OBVIOUS
<1>f. \/ t = f
      \/ t = Fail(f)
      \/ setting[1] \notin {"off", "push"} /\ t = StartCapture(g)
  <2>1. setting[1] \in {"off", "push"} \/ setting[1] \notin {"off", "push"}
    OBVIOUS
  <2> QED
    BY Zenon DEF Reconfigured, Queued, Refreshed, Listening
<1> HIDE DEF a, b, c, d, f, g
<1>1. /\ Kept(a, desired, cs, n, h) /\ SameSetting(a.w, s.w) /\ a.w.capture = None /\ a.m = SilentMic
  BY <1>d, StopKeeps
<1>2. /\ Kept(b, desired, cs, n, h) /\ b.w = a.w /\ b.m = a.m /\ b.q.job = NoJob
  BY <1>1, <1>d, TakenBackKeeps DEF SameSetting
<1>3. /\ Kept(c, desired, cs, n, h) /\ SameSetting(c.w, b.w) /\ SameDevice(c, b)
      /\ c.w.active = None /\ c.q = b.q
  BY <1>2, <1>d, CancelActiveKeeps
<1>4. /\ Kept(d, desired, cs, n, h) /\ SameSetting(d.w, c.w) /\ SameDevice(d, c)
      /\ d.w.active = c.w.active /\ d.w.trans = None /\ d.q.job \in {c.q.job, NoJob}
  BY <1>3, <1>d, CancelTranscribingKeeps
<1>5. /\ d.w.rev # desired /\ d.w.pc = "wait" /\ d.w.active = None /\ d.w.trans = None
      /\ d.q.job = NoJob /\ Works(d.w) /\ d.w.capture = None /\ d.m = SilentMic
  BY <1>1, <1>2, <1>3, <1>4 DEF SameSetting, SameDevice, Works
<1>6. Kept(f, desired, cs, n, h)
  BY <1>4, <1>5, <1>d, RefreshedKeeps
<1>o. d \in Owned /\ f \in Owned /\ desired \in Nat
  BY <1>4, <1>6, KeptFields
<1>7. /\ f.m = d.m /\ f.w.pc = d.w.pc /\ f.w.rev = desired /\ f.w.mode = setting[1]
      /\ f.w.capture = d.w.capture /\ ~f.w.vad /\ f.w.manual = "none"
      /\ f.w.active = d.w.active /\ f.w.trans = d.w.trans
  BY <1>o, <1>d, RefreshedIs
<1>8. CASE t = f
  BY <1>5, <1>6, <1>7, <1>8 DEF Recording, Works
<1>9. CASE t = Fail(f)
  <2>1. /\ Kept(t, desired, cs, n, h)
        /\ SameSetting(t.w, f.w) /\ t.w.capture = None /\ ~t.w.vad /\ t.w.manual = "none"
        /\ t.w.active = None /\ t.w.trans = None
    BY <1>6, <1>9, FailKeeps
  <2> QED
    BY <1>5, <1>7, <2>1 DEF Recording, SameSetting, Works
<1>10. CASE setting[1] \notin {"off", "push"} /\ t = StartCapture(g)
  <2>1. /\ g \in Owned /\ g.m = f.m /\ g.q = f.q /\ g.ev = f.ev /\ g.ends = f.ends
        /\ SameSetting(g.w, f.w) /\ g.w.capture = f.w.capture /\ g.w.vad
        /\ g.w.manual = f.w.manual /\ g.w.active = f.w.active /\ g.w.next = f.w.next
        /\ g.w.pending = f.w.pending /\ g.w.trans = f.w.trans
    BY <1>o, <1>d, ListeningIs
  <2>2. Alike(f.w, g.w)
    BY <2>1 DEF Alike, SameSetting, Works
  <2>3. Kept(g, desired, cs, n, h)
    BY <1>6, <2>1, <2>2, Unconcerned
  <2>4. /\ Kept(t, desired, cs, n, h)
        /\ SameSetting(t.w, g.w) /\ t.w.vad = g.w.vad /\ t.w.manual = g.w.manual
        /\ t.w.active = g.w.active /\ t.w.trans = g.w.trans /\ MicKept(t, g)
    BY <1>10, <2>3, StartKeeps
  <2>5. setting[1] = "auto"
    BY <1>10, VoiceAssumption
  <2> QED
    BY <1>5, <1>7, <2>1, <2>4, <2>5 DEF Recording, SameSetting, Works, MicKept
<1> QED
  BY <1>f, <1>8, <1>9, <1>10

-----------------------------------------------------------------------------
(* The handlers of the worker.                                             *)

LEMMA NextCaptureIs ==
    ASSUME worker \in Workers, commands \in Seq(Commands)
    PROVE  NextCapture \in Nat \ {None}
<1> DEFINE about == {j \in DOMAIN commands : commands[j].type \in {"AudioReady", "CaptureFailed"}}
           named == {commands[i].capture : i \in about}
<1>1. IsFiniteSet(DOMAIN commands)
  <2>1. DOMAIN commands = 1..Len(commands) /\ Len(commands) \in Nat
    OBVIOUS
  <2> QED
    BY <2>1, FS_Interval
<1>2. IsFiniteSet(about)
  BY <1>1, FS_Subset
<1>3. IsFiniteSet(named)
  <2> DEFINE f == [i \in about |-> commands[i].capture]
  <2>1. f \in Surjection(about, named)
    BY DEF Surjection
  <2> QED
    BY <1>2, <2>1, FS_Surjection
<1>4. IsFiniteSet({worker.capture})
  BY FS_Singleton
<1>5. IsFiniteSet(UsedCaptures)
  BY <1>3, <1>4, FS_Union DEF UsedCaptures
<1> DEFINE k == Cardinality(UsedCaptures)
<1>6. k \in Nat
  BY <1>5, FS_CardinalityType
<1> HIDE DEF k
<1>7. ~(1..(k + 1) \subseteq UsedCaptures)
  <2>1. Cardinality(1..(k + 1)) = k + 1
    BY <1>6, FS_Interval
  <2>2. 1..(k + 1) \subseteq UsedCaptures => k + 1 <= k
    BY <1>5, <2>1, FS_Subset DEF k
  <2> QED
    BY <1>6, <2>2
<1>8. \E id \in 1..(k + 1) : id \notin UsedCaptures
  BY <1>7
<1>9. NextCapture = CHOOSE id \in 1..(k + 1) : id \notin UsedCaptures
  BY DEF NextCapture, k
<1>10. NextCapture \in 1..(k + 1)
  BY <1>8, <1>9
<1> QED
  BY <1>6, <1>10 DEF None

\* The worker takes a command that answers nothing it waits for.
LEMMA TakeKeeps ==
    ASSUME NEW cs, NEW n, NEW h, NEW s, Kept(s, desired, cs, n, h), cs # <<>>,
           \/ s.w.trans = None
           \/ s.w.rev # desired
           \/ /\ \A ok \in BOOLEAN : Head(cs) # Finished(desired, s.w.trans, ok)
              /\ Head(cs) # Cancel(desired, s.w.trans)
    PROVE  Kept(s, desired, Tail(cs), n, h)
<1>t. /\ s \in Owned /\ s.w \in Workers /\ s.ev \in Seq(Events)
      /\ desired \in Nat /\ cs \in Seq(Commands) /\ n \in Windows /\ h \in Whispers
      /\ Related(s.w, s.ev, s.ends, desired, cs, n)
      /\ Served(s.w, s.q, s.ev, desired, cs, n, h)
  BY KeptFields
<1> DEFINE cs2 == Tail(cs)
<1>1. /\ cs2 \in Seq(Commands) /\ Head(cs) = cs[1]
      /\ \A i \in 1..Len(cs2) : i + 1 \in 1..Len(cs) /\ cs2[i] = cs[i + 1]
      /\ \A i \in 1..Len(cs) : i # 1 => i - 1 \in 1..Len(cs2) /\ cs2[i - 1] = cs[i]
  BY <1>t, Taken
<1> HIDE DEF cs2
<1>2. Results(s.w, s.ev, desired, cs2, n)
  BY <1>t, <1>1 DEF Related, Results
<1>3. ASSUME s.w.trans # None, s.w.rev = desired, NEW c, c # Head(cs),
             \E i \in 1..Len(cs) : cs[i] = c
      PROVE  \E i \in 1..Len(cs2) : cs2[i] = c
  BY <1>1, <1>3
<1>4. Served(s.w, s.q, s.ev, desired, cs2, n, h)
  <2>1. CASE s.w.trans = None \/ s.w.rev # desired
    BY <2>1 DEF Served
  <2>2. CASE /\ s.w.trans # None /\ s.w.rev = desired
             /\ \A ok \in BOOLEAN : Head(cs) # Finished(desired, s.w.trans, ok)
             /\ Head(cs) # Cancel(desired, s.w.trans)
    <3>1. \A ok \in BOOLEAN : (\E i \in 1..Len(cs) : cs[i] = Finished(desired, s.w.trans, ok))
                                 => \E i \in 1..Len(cs2) : cs2[i] = Finished(desired, s.w.trans, ok)
      BY <1>3, <2>2
    <3>2. (\E i \in 1..Len(cs) : cs[i] = Cancel(desired, s.w.trans))
              => \E i \in 1..Len(cs2) : cs2[i] = Cancel(desired, s.w.trans)
      BY <1>3, <2>2
    <3> QED
      BY <1>t, <3>1, <3>2 DEF Served
  <2> QED
    BY <2>1, <2>2
<1> QED
  BY <1>t, <1>1, <1>2, <1>4 DEF Kept, Typed, Related, cs2

\* A wake-up that is under way stays so.
LEMMA WakesTaken ==
    ASSUME NEW w, NEW m, NEW cs \in Seq(Commands), cs # <<>>, Wakes(w, m, cs, desired),
           w.rev = desired => Head(cs) # AudioReady(w.rev, w.capture)
    PROVE  Wakes(w, m, Tail(cs), desired)
<1> DEFINE cs2 == Tail(cs)
<1>1. /\ Head(cs) = cs[1]
      /\ \A i \in 1..Len(cs) : i # 1 => i - 1 \in 1..Len(cs2) /\ cs2[i - 1] = cs[i]
  BY Taken
<1> HIDE DEF cs2
<1>2. Wakes(w, m, cs2, desired)
  BY <1>1 DEF Wakes
<1> QED
  BY <1>2 DEF cs2

LEMMA WakesOn ==
    ASSUME NEW cs, NEW n, NEW h, NEW s, NEW t, Outcome(t, s, cs, n, h), s.w.pc = "wait",
           Wakes(s.w, s.m, cs, desired)
    PROVE  Wakes(t.w, t.m, cs, desired)
<1>1. t.w.rev = s.w.rev /\ t.w.pc = "wait" /\ MicKept(t, s)
  BY DEF Outcome, Sound
<1>2. CASE t.w.capture = s.w.capture /\ t.m = s.m
  BY <1>1, <1>2 DEF Wakes
<1>3. CASE t.w.capture = None
  BY <1>3 DEF Wakes
<1>4. CASE t.m = SilentMic
  BY <1>4 DEF Wakes, SilentMic
<1> QED
  BY <1>1, <1>2, <1>3, <1>4 DEF MicKept

LEMMA IInvFields ==
    ASSUME IInv
    PROVE  /\ Own \in Owned /\ Own.w = worker /\ Own.m = mic /\ Own.q = queue
           /\ Own.ev = events /\ Own.ends = settled
           /\ worker \in Workers /\ mic \in Mics /\ queue \in Queues
           /\ events \in Seq(Events) /\ settled \in Ends
           /\ desired \in Nat /\ commands \in Seq(Commands) /\ window \in Windows
           /\ whisper \in Whispers /\ incidents \in 0..MaxIncidents
           /\ Kept(Own, desired, commands, window, whisper)
           /\ Recording(worker) /\ Wakes(worker, mic, commands, desired)
           /\ Fields(worker) /\ Jobs(worker, queue, whisper) /\ EndsOK(worker, settled)
           /\ Related(worker, events, settled, desired, commands, window)
           /\ Served(worker, queue, events, desired, commands, window, whisper)
           /\ NextCapture \in Nat \ {None}
<1>1. Own.w = worker /\ Own.m = mic /\ Own.q = queue /\ Own.ev = events /\ Own.ends = settled
  BY DEF Own
<1>2. Kept(Own, desired, commands, window, whisper)
  BY DEF IInv
<1> HIDE DEF Own
<1>3. /\ Own \in Owned /\ Own.w \in Workers /\ Own.m \in Mics /\ Own.q \in Queues
      /\ Own.ev \in Seq(Events) /\ Own.ends \in Ends
      /\ desired \in Nat /\ commands \in Seq(Commands) /\ window \in Windows /\ whisper \in Whispers
      /\ Fields(Own.w) /\ Jobs(Own.w, Own.q, whisper) /\ EndsOK(Own.w, Own.ends)
      /\ Related(Own.w, Own.ev, Own.ends, desired, commands, window)
      /\ Served(Own.w, Own.q, Own.ev, desired, commands, window, whisper)
  BY <1>2, KeptFields
<1>4. NextCapture \in Nat \ {None}
  BY <1>1, <1>3, NextCaptureIs
<1> QED
  BY <1>1, <1>2, <1>3, <1>4 DEF IInv

LEMMA HandledKeeps ==
    ASSUME IInv, NEW ok \in BOOLEAN, NEW t, Handled(t, ok),
           Kept(t, desired, commands', window, whisper), Recording(t.w),
           Wakes(t.w, t.m, commands', desired)
    PROVE  IInv'
<1>1. /\ worker' = t.w /\ mic' = t.m /\ queue' = t.q /\ events' = t.ev /\ settled' = t.ends
      /\ desired' = desired /\ window' = window /\ whisper' = whisper
  BY DEF Handled, Owns
<1>2. t \in Owned
  BY KeptFields
<1>3. Own' = t
  BY <1>1, <1>2, OwnedFields DEF Own
<1>4. incidents' \in 0..MaxIncidents
  BY IInvFields, Bounds DEF Handled
<1>5. Kept(Own', desired', commands', window', whisper')
  BY <1>1, <1>3
<1>6. Recording(worker') /\ Wakes(worker', mic', commands', desired')
  BY <1>1
<1> QED
  BY <1>4, <1>5, <1>6 DEF IInv

LEMMA Takes ==
    ASSUME IInv, NEW type, WorkerTakes(type)
    PROVE  /\ commands # <<>> /\ commands' = Tail(commands)
           /\ Head(commands) = commands[1] /\ 1 \in 1..Len(commands)
           /\ Head(commands) \in Commands /\ Head(commands).type = type
           /\ worker.pc = "wait" /\ Works(worker)
           /\ type # "AudioReady" => Wakes(worker, mic, commands', desired)
           /\ type \notin {"TranscriptionFinished", "CancelTranscription"} =>
                  Sound(Own, commands', window, whisper)
<1>i. /\ Own.w = worker /\ commands \in Seq(Commands) /\ Recording(worker)
      /\ Kept(Own, desired, commands, window, whisper)
      /\ Wakes(worker, mic, commands, desired)
  BY IInvFields
<1>1. /\ commands # <<>> /\ commands' = Tail(commands) /\ Head(commands).type = type
      /\ worker.pc = "wait" /\ Works(worker)
  BY DEF WorkerTakes, Works
<1>2. /\ Head(commands) \in Commands /\ Head(commands) = commands[1]
      /\ 1 \in 1..Len(commands)
  BY <1>i, <1>1, Taken
<1>3. ASSUME type # "AudioReady"
      PROVE  Wakes(worker, mic, commands', desired)
  <2>1. Head(commands) # AudioReady(worker.rev, worker.capture)
    BY <1>1, <1>3 DEF AudioReady
  <2> QED
    BY <1>i, <1>1, <2>1, WakesTaken
<1>4. ASSUME type \notin {"TranscriptionFinished", "CancelTranscription"}
      PROVE  Sound(Own, commands', window, whisper)
  <2>1. /\ \A ok \in BOOLEAN : Head(commands) # Finished(desired, Own.w.trans, ok)
        /\ Head(commands) # Cancel(desired, Own.w.trans)
    BY <1>1, <1>4 DEF Finished, Cancel
  <2>2. Kept(Own, desired, Tail(commands), window, whisper)
    BY <1>i, <1>1, <2>1, TakeKeeps
  <2> QED
    BY <1>i, <1>1, <2>2 DEF Sound
<1> QED
  BY <1>1, <1>2, <1>3, <1>4

\* A handler that ends well.
LEMMA OutcomeKeeps ==
    ASSUME IInv, NEW ok \in BOOLEAN, NEW t, NEW s, Handled(t, ok),
           Outcome(t, s, commands', window, whisper),
           s.w.pc = "wait", Wakes(s.w, s.m, commands', desired)
    PROVE  IInv'
<1>1. Wakes(t.w, t.m, commands', desired)
  BY WakesOn
<1> QED
  BY <1>1, HandledKeeps DEF Outcome, Sound

LEMMA UntouchedKeeps ==
    ASSUME IInv, NEW ok \in BOOLEAN, Handled(Own, ok), Sound(Own, commands', window, whisper),
           Wakes(worker, mic, commands', desired)
    PROVE  IInv'
  BY HandledKeeps, IInvFields DEF Sound

LEMMA ConfigureKeeps ==
    ASSUME IInv, NEW ok \in BOOLEAN, WorkerConfigure(ok)
    PROVE  IInv'
<1> DEFINE c == Head(commands)
<1>i. /\ Own.w = worker /\ Own.m = mic /\ NextCapture \in Nat \ {None} /\ desired \in Nat
      /\ worker.rev \in Nat
  BY IInvFields, WorkerFields
<1>1. WorkerTakes("Configure")
  BY DEF WorkerConfigure
<1>2. /\ c \in Commands /\ c.type = "Configure" /\ worker.pc = "wait"
      /\ Wakes(worker, mic, commands', desired) /\ Sound(Own, commands', window, whisper)
  BY <1>1, Takes
<1>3. c.setting \in Settings /\ c.rev \in Nat
  BY <1>2, CommandFields
<1>4. CASE c.rev > worker.rev /\ c.rev = desired
  <2> DEFINE t == Reconfigured(Own, desired, c.setting, ok)
  <2>1. Handled(t, ok)
    BY <1>4 DEF WorkerConfigure
  <2>2. Kept(Own, desired, commands', window, whisper) /\ Own.w.pc = "wait" /\ Own.w.rev # desired
    BY <1>i, <1>2, <1>3, <1>4 DEF Sound
  <2> DEFINE setting == c.setting
  <2>3. setting \in Settings
    BY <1>3
  <2>t. t = Reconfigured(Own, desired, setting, ok)
    OBVIOUS
  <2> HIDE DEF t, setting
  <2>4. /\ Kept(t, desired, commands', window, whisper) /\ t.w.pc = "wait" /\ Recording(t.w)
        /\ t.w.capture = None \/ t.m = SilentMic
    BY <1>i, <2>2, <2>3, <2>t, ReconfiguredKeeps
  <2>5. Wakes(t.w, t.m, commands', desired)
    BY <2>4 DEF Wakes, SilentMic
  <2> QED
    BY <2>1, <2>4, <2>5, HandledKeeps
<1>5. CASE ~(c.rev > worker.rev /\ c.rev = desired)
  <2>1. Handled(Own, ok)
    BY <1>5 DEF WorkerConfigure
  <2> QED
    BY <1>2, <2>1, UntouchedKeeps
<1> QED
  BY <1>4, <1>5

LEMMA TalkKeeps ==
    ASSUME IInv, NEW ok \in BOOLEAN, NEW long \in BOOLEAN, WorkerTalk(long, ok)
    PROVE  IInv'
<1> DEFINE c == Head(commands)
           accepted == c.rev = worker.rev /\ c.rev = desired /\ worker.mode # "off"
<1>i. /\ Own.w = worker /\ Own.m = mic /\ NextCapture \in Nat \ {None} /\ Recording(worker)
  BY IInvFields
<1>1. WorkerTakes("PushToTalk")
  BY DEF WorkerTalk
<1>2. /\ worker.pc = "wait" /\ Works(worker)
      /\ Wakes(worker, mic, commands', desired) /\ Sound(Own, commands', window, whisper)
  BY <1>1, Takes
<1>3. long => Own.w.active # None \/ Own.w.next <= MaxUtterances
  BY DEF WorkerTalk, MayBegin
<1>4. CASE ~accepted
  <2>1. Handled(Own, ok)
    BY <1>4 DEF WorkerTalk
  <2> QED
    BY <1>2, <2>1, UntouchedKeeps
<1>5. CASE accepted /\ c.pressed
  <2> DEFINE t == Pressed(Own, long, ok)
  <2>1. Handled(t, ok)
    BY <1>5 DEF WorkerTalk
  <2>2. Own.w.mode # "off"
    BY <1>5, <1>i
  <2>t. t = Pressed(Own, long, ok)
    OBVIOUS
  <2> HIDE DEF t
  <2>3. Outcome(t, Own, commands', window, whisper)
    BY <1>i, <1>2, <1>3, <2>2, <2>t, PressedKeeps
  <2> QED
    BY <1>i, <1>2, <2>1, <2>3, OutcomeKeeps
<1>6. CASE accepted /\ ~c.pressed
  <2> DEFINE grown == long \/ worker.manual = "long"
             t == FinishManual(Own, grown, ok)
  <2>1. Handled(t, ok)
    BY <1>6 DEF WorkerTalk
  <2>2. grown \in BOOLEAN /\ (grown => Own.w.active # None \/ Own.w.next <= MaxUtterances)
    BY <1>i, <1>2, <1>3 DEF Recording
  <2>t. t = FinishManual(Own, grown, ok)
    OBVIOUS
  <2> HIDE DEF t, grown
  <2>3. Outcome(t, Own, commands', window, whisper)
    BY <1>i, <1>2, <2>2, <2>t, FinishManualKeeps
  <2> QED
    BY <1>i, <1>2, <2>1, <2>3, OutcomeKeeps
<1> QED
  BY <1>4, <1>5, <1>6

\* drain_into leaves an empty buffer.
Drained(s) == [s EXCEPT !.w.pc = "wait", !.m.buffered = FALSE, !.m.overflow = FALSE]

LEMMA DrainedIs ==
    ASSUME NEW s \in Owned, NEW t, t = Drained(s)
    PROVE  /\ t \in Owned /\ t.q = s.q /\ t.ev = s.ev /\ t.ends = s.ends
           /\ t.m.wake = s.m.wake /\ t.m.buffered = FALSE
           /\ t.w.pc = "wait" /\ t.w.rev = s.w.rev /\ t.w.mode = s.w.mode
           /\ t.w.backend = s.w.backend /\ t.w.capture = s.w.capture /\ t.w.vad = s.w.vad
           /\ t.w.manual = s.w.manual /\ t.w.active = s.w.active /\ t.w.next = s.w.next
           /\ t.w.pending = s.w.pending /\ t.w.trans = s.w.trans
<1>t. /\ s.w \in Workers /\ s.m \in Mics /\ s.q \in Queues /\ s.ev \in Seq(Events) /\ s.ends \in Ends
  BY OwnedFields
<1> DEFINE w2 == [s.w EXCEPT !.pc = "wait"]
           m2 == [s.m EXCEPT !.buffered = FALSE, !.overflow = FALSE]
<1>1. /\ w2 \in Workers /\ w2.pc = "wait" /\ w2.rev = s.w.rev /\ w2.mode = s.w.mode
      /\ w2.backend = s.w.backend /\ w2.capture = s.w.capture /\ w2.vad = s.w.vad
      /\ w2.manual = s.w.manual /\ w2.active = s.w.active /\ w2.next = s.w.next
      /\ w2.pending = s.w.pending /\ w2.trans = s.w.trans
  BY <1>t DEF Workers
<1>m. m2 \in Mics /\ m2.wake = s.m.wake /\ m2.buffered = FALSE
  BY <1>t DEF Mics
<1>2. t = [s EXCEPT !.w = w2, !.m = m2]
  BY <1>t DEF Owned, Drained, Workers, Mics
<1> HIDE DEF w2, m2
<1>3. t = [w |-> w2, m |-> m2, q |-> s.q, ev |-> s.ev, ends |-> s.ends]
  BY <1>2 DEF Owned
<1> QED
  BY <1>1, <1>m, <1>3, <1>t, OwnedIs

LEMMA DrainKeeps ==
    ASSUME IInv, NEW ok \in BOOLEAN, NEW found, WorkerDrain(found, ok)
    PROVE  IInv'
<1> DEFINE s == Drained(Own)
<1>s. s = Drained(Own)
  OBVIOUS
<1>f. /\ worker.pc = "drain" /\ commands' = commands
      /\ found \in {"started", "complete"} => MayBegin(s)
      /\ \/ Handled(Fail(s), ok)
         \/ Handled(Discontinuity(s, ok), ok)
         \/ worker.manual # "none" /\ Handled(Recorded(s, found, ok), ok)
         \/ worker.manual = "none" /\ Handled(Detected(s, found, ok), ok)
  <2>1. /\ worker.pc = "drain" /\ commands' = commands
        /\ found \in {"started", "complete"} => MayBegin(s)
    BY Zenon DEF WorkerDrain, Drained
  <2>2. \/ Handled(Fail(s), ok)
        \/ Handled(Discontinuity(s, ok), ok)
        \/ worker.manual # "none" /\ Handled(Recorded(s, found, ok), ok)
        \/ worker.manual = "none" /\ Handled(Detected(s, found, ok), ok)
    BY Zenon DEF WorkerDrain, Drained
  <2> QED
    BY <2>1, <2>2
<1> HIDE DEF s
<1>i. /\ Own \in Owned /\ Own.w = worker /\ Own.m = mic /\ worker \in Workers
      /\ Kept(Own, desired, commands, window, whisper) /\ NextCapture \in Nat \ {None}
      /\ Recording(worker) /\ Wakes(worker, mic, commands, desired)
  BY IInvFields
<1>1. /\ s \in Owned /\ s.q = Own.q /\ s.ev = Own.ev /\ s.ends = Own.ends
      /\ s.m.wake = mic.wake /\ s.m.buffered = FALSE
      /\ s.w.pc = "wait" /\ s.w.rev = worker.rev /\ s.w.mode = worker.mode
      /\ s.w.backend = worker.backend /\ s.w.capture = worker.capture /\ s.w.vad = worker.vad
      /\ s.w.manual = worker.manual /\ s.w.active = worker.active /\ s.w.next = worker.next
      /\ s.w.pending = worker.pending /\ s.w.trans = worker.trans
  BY <1>i, <1>s, DrainedIs
<1>2. Alike(Own.w, s.w)
  BY <1>1, <1>f, <1>i DEF Alike, Works
<1>3. Kept(s, desired, commands', window, whisper)
  BY <1>1, <1>2, <1>f, <1>i, Unconcerned
<1>4. Sound(s, commands', window, whisper) /\ (s.w.mode = "auto" => s.w.vad)
  <2>1. Recording(s.w)
    BY <1>1, <1>f, <1>i DEF Recording, Works
  <2>2. s.w.mode = "auto" => s.w.vad
    BY <1>1, <1>f, <1>i DEF Recording, Works
  <2> QED
    BY <1>1, <1>3, <2>1, <2>2 DEF Sound
<1>5. Wakes(s.w, s.m, commands', desired)
  BY <1>1, <1>f, <1>i DEF Wakes
<1>6. found \in {"started", "complete"} => s.w.active # None \/ s.w.next <= MaxUtterances
  BY <1>f DEF MayBegin
<1>7. CASE Handled(Fail(s), ok)
  <2> DEFINE t == Fail(s)
  <2>t. t = Fail(s) /\ Handled(t, ok)
    BY <1>7
  <2> HIDE DEF t
  <2>1. /\ Kept(t, desired, commands', window, whisper)
        /\ SameSetting(t.w, s.w) /\ t.w.capture = None /\ ~t.w.vad /\ t.w.manual = "none"
        /\ t.w.active = None /\ t.w.trans = None
    BY <1>3, <2>t, FailKeeps
  <2>2. Outcome(t, s, commands', window, whisper)
    BY <1>1, <2>1 DEF Outcome, Sound, MicKept, Recording, SameSetting, Works
  <2> QED
    BY <1>1, <1>5, <2>t, <2>2, OutcomeKeeps
<1>8. CASE Handled(Discontinuity(s, ok), ok)
  <2> DEFINE t == Discontinuity(s, ok)
  <2>t. t = Discontinuity(s, ok) /\ Handled(t, ok)
    BY <1>8
  <2> HIDE DEF t
  <2>1. Outcome(t, s, commands', window, whisper)
    BY <1>4, <1>i, <2>t, DiscontinuityKeeps
  <2> QED
    BY <1>1, <1>5, <2>t, <2>1, OutcomeKeeps
<1>9. CASE worker.manual # "none" /\ Handled(Recorded(s, found, ok), ok)
  <2> DEFINE t == Recorded(s, found, ok)
  <2>t. t = Recorded(s, found, ok) /\ Handled(t, ok) /\ s.w.manual # "none"
    BY <1>9, <1>1
  <2> HIDE DEF t
  <2>1. Outcome(t, s, commands', window, whisper)
    BY <1>4, <1>6, <1>i, <2>t, RecordedKeeps
  <2> QED
    BY <1>1, <1>5, <2>t, <2>1, OutcomeKeeps
<1>10. CASE worker.manual = "none" /\ Handled(Detected(s, found, ok), ok)
  <2> DEFINE t == Detected(s, found, ok)
  <2>t. t = Detected(s, found, ok) /\ Handled(t, ok) /\ s.w.manual = "none"
    BY <1>10, <1>1
  <2> HIDE DEF t
  <2>1. Outcome(t, s, commands', window, whisper)
    BY <1>4, <1>6, <1>i, <2>t, DetectedKeeps
  <2> QED
    BY <1>1, <1>5, <2>t, <2>1, OutcomeKeeps
<1> QED
  BY <1>f, <1>7, <1>8, <1>9, <1>10

\* The result of the transcription under way.
LEMMA FinishedKeeps ==
    ASSUME NEW cs, NEW n, NEW h, NEW s, Kept(s, desired, cs, n, h), cs # <<>>,
           Head(cs).type = "TranscriptionFinished", Head(cs).rev = desired,
           s.w.rev = desired, s.w.trans # None, s.w.trans = Head(cs).utt,
           NEW type \in {"TranscriptReady", "Error"}, NEW t,
           t = Publish(Dropped(s), type, IF type = "Error" THEN None ELSE s.w.trans)
    PROVE  /\ Kept(t, desired, Tail(cs), n, h)
           /\ SameSetting(t.w, s.w) /\ SameDevice(t, s) /\ t.w.active = s.w.active
           /\ t.w.trans = None
<1> DEFINE u == IF type = "Error" THEN None ELSE s.w.trans
           r == Dropped(s)
           e == Event(type, desired, u)
           ends2 == OneMore(s.ends, u)
<1>t. /\ s \in Owned /\ s.w \in Workers /\ s.q \in Queues
      /\ s.ev \in Seq(Events) /\ s.ends \in Ends
      /\ desired \in Nat /\ cs \in Seq(Commands) /\ n \in Windows /\ h \in Whispers
      /\ Fields(s.w) /\ Jobs(s.w, s.q, h) /\ EndsOK(s.w, s.ends)
      /\ Related(s.w, s.ev, s.ends, desired, cs, n)
  BY KeptFields
<1>d. /\ r = Dropped(s) /\ t = Publish(r, type, u) /\ e = Event(type, desired, u)
      /\ ends2 = OneMore(s.ends, u)
  OBVIOUS
<1>v. s.w.trans \in Utterances /\ s.w.trans \in Nat
  BY <1>t, WorkerFields, UtteranceIs, Bounds
<1>u. /\ u \in 0..MaxUtterances /\ type \in EventTypes /\ (type \in EndTypes => u # None)
      /\ type = "TranscriptReady" => u = s.w.trans
      /\ type \in EndTypes <=> type = "TranscriptReady"
      /\ (type = "Error" => u = None)
  BY <1>v, UtteranceIs, Bounds DEF EventTypes, EndTypes, None
<1>x. type # "SpeechStarted" /\ type # "TranscriptionRequested"
      /\ (type = "TranscriptReady" \/ type = "Error")
  OBVIOUS
<1> HIDE DEF u, r, e, ends2
<1>1. /\ r \in Owned /\ r.m = s.m /\ r.q = s.q /\ r.ev = s.ev /\ r.ends = s.ends
      /\ SameSetting(r.w, s.w) /\ SameDevice(r, s) /\ r.w.active = s.w.active
      /\ r.w.next = s.w.next /\ ~r.w.pending /\ r.w.trans = None
  BY <1>t, <1>d, DroppedIs
<1>2. /\ t \in Owned /\ t.w = r.w /\ t.m = r.m /\ t.q = r.q
      /\ t.ev = Append(s.ev, e)
      /\ type = "TranscriptReady" => t.ends = ends2
      /\ type # "TranscriptReady" => t.ends = s.ends
  <2>1. r.w.rev = desired
    BY <1>1 DEF SameSetting
  <2> QED
    BY <1>t, <1>1, <1>u, <1>d, <2>1, PublishIs
<1>e. e \in Events /\ e.type = type /\ e.rev = desired /\ e.utt = u
  BY <1>t, <1>u, <1>d, EventIs
<1>w. t.w \in Workers /\ s.w.active = None /\ s.w.trans + 1 = s.w.next /\ s.w.next \in Nat
  BY <1>t, <1>2, OwnedFields, WorkerFields DEF Fields
<1>3. Later(s.w, t.w)
  BY <1>1, <1>2, <1>w DEF Later, SameSetting
<1>4. Fields(t.w)
  BY <1>1, <1>2, <1>t, <1>w DEF Fields, SameSetting, Works
<1>5. Jobs(t.w, t.q, h)
  BY <1>1, <1>2, <1>3, <1>w, <1>t, JobsStay DEF SameSetting, Works
<1>6. EndsOK(t.w, t.ends) /\ \A v \in Utterances : s.ends[v] = 1 => t.ends[v] = 1
  <2>1. t.ends \in {s.ends, OneMore(s.ends, s.w.trans)}
    BY <1>2, <1>u, <1>d, <1>x
  <2> QED
    BY <1>1, <1>2, <1>3, <1>t, <1>v, <1>w, <2>1, EndsOnce DEF None
<1>7. type = "TranscriptReady" => t.ends[u] = 1
  <2>1. s.ends[s.w.trans] = 0
    BY <1>t, <1>v DEF EndsOK
  <2> QED
    BY <1>2, <1>t, <1>u, <1>v, <1>d, <2>1 DEF OneMore, Ends
<1>8. ~Requests(s.ev, desired, s.w.trans) /\ n.remote # [rev |-> desired, utt |-> s.w.trans]
  <2>1. Head(cs) = cs[1] /\ 1 \in 1..Len(cs)
    BY <1>t, Taken
  <2> QED
    BY <1>t, <2>1 DEF Related, Results
<1>9. Says(e, s.w, t.w, s.ev, s.ends, t.ends, desired, n)
  <2>1. s.w.trans < t.w.next
    BY <1>1, <1>2, <1>v, <1>w
  <2> QED
    BY <1>1, <1>2, <1>e, <1>u, <1>x, <1>w, <1>6, <1>7, <1>8, <2>1 DEF Says
<1>10. Served(t.w, t.q, t.ev, desired, cs, n, h)
  BY <1>1, <1>2 DEF Served
<1>11. Kept(t, desired, cs, n, h)
  BY <1>2, <1>3, <1>4, <1>5, <1>6, <1>9, <1>10, <1>e, Stepped
<1>12. Kept(t, desired, Tail(cs), n, h)
  BY <1>1, <1>2, <1>11, TakeKeeps
<1> QED
  BY <1>1, <1>2, <1>12 DEF SameDevice

LEMMA FinishKeeps ==
    ASSUME IInv, NEW ok \in BOOLEAN, WorkerFinish(ok)
    PROVE  IInv'
<1> DEFINE c == Head(commands)
           accepted == c.rev = worker.rev /\ c.rev = desired /\ worker.pending /\ worker.trans = c.utt
<1>i. /\ Own.w = worker /\ Own.m = mic /\ NextCapture \in Nat \ {None} /\ desired \in Nat
      /\ Recording(worker) /\ Fields(worker)
      /\ Kept(Own, desired, commands, window, whisper)
  BY IInvFields
<1>1. WorkerTakes("TranscriptionFinished")
  BY DEF WorkerFinish
<1>2. /\ c \in Commands /\ c.type = "TranscriptionFinished" /\ worker.pc = "wait"
      /\ commands # <<>> /\ commands' = Tail(commands)
      /\ Wakes(worker, mic, commands', desired)
  BY <1>1, Takes
<1>3. CASE accepted
  <2> DEFINE type == IF c.ok THEN "TranscriptReady" ELSE "Error"
             r == Publish(Dropped(Own), type, IF type = "Error" THEN None ELSE worker.trans)
             t == Resume(r, ok)
  <2>1. Handled(t, ok)
    BY <1>3, Zenon DEF WorkerFinish, Dropped
  <2>2. worker.trans # None
    BY <1>3, <1>i DEF Fields
  <2>3. type \in {"TranscriptReady", "Error"}
    OBVIOUS
  <2>r. r = Publish(Dropped(Own), type, IF type = "Error" THEN None ELSE worker.trans)
    OBVIOUS
  <2>t. t = Resume(r, ok)
    OBVIOUS
  <2> HIDE DEF r, t, type
  <2>4. /\ Kept(r, desired, commands', window, whisper)
        /\ SameSetting(r.w, worker) /\ SameDevice(r, Own) /\ r.w.active = worker.active
        /\ r.w.trans = None
    BY <1>2, <1>3, <1>i, <2>2, <2>3, <2>r, FinishedKeeps
  <2>5. Sound(r, commands', window, whisper) /\ (r.w.mode = "auto" => r.w.vad)
    BY <1>2, <1>i, <2>2, <2>4 DEF Sound, Recording, Works, SameSetting, SameDevice
  <2>6. Outcome(t, r, commands', window, whisper)
    BY <1>i, <2>5, <2>t, ResumeKeeps
  <2>7. Wakes(r.w, r.m, commands', desired) /\ r.w.pc = "wait"
    BY <1>2, <1>i, <2>4 DEF Wakes, SameSetting, SameDevice
  <2> QED
    BY <2>1, <2>6, <2>7, OutcomeKeeps
<1>4. CASE ~accepted
  <2>1. Handled(Own, ok)
    BY <1>4, Zenon DEF WorkerFinish
  <2>2. \/ Own.w.trans = None
        \/ Own.w.rev # desired
        \/ /\ \A k \in BOOLEAN : c # Finished(desired, Own.w.trans, k)
           /\ c # Cancel(desired, Own.w.trans)
    BY <1>2, <1>4, <1>i DEF Fields, Finished, Cancel
  <2>3. Kept(Own, desired, commands', window, whisper)
    BY <1>2, <1>i, <2>2, TakeKeeps
  <2>4. Sound(Own, commands', window, whisper)
    BY <1>2, <1>i, <2>3 DEF Sound
  <2> QED
    BY <1>2, <2>1, <2>4, UntouchedKeeps
<1> QED
  BY <1>3, <1>4

LEMMA CancelKeeps ==
    ASSUME IInv, NEW ok \in BOOLEAN, WorkerCancel(ok)
    PROVE  IInv'
<1> DEFINE c == Head(commands)
           accepted == c.rev = worker.rev /\ c.rev = desired /\ worker.trans = c.utt
<1>i. /\ Own.w = worker /\ Own.m = mic /\ NextCapture \in Nat \ {None} /\ desired \in Nat
      /\ Recording(worker) /\ Fields(worker)
      /\ Kept(Own, desired, commands, window, whisper)
  BY IInvFields
<1>1. WorkerTakes("CancelTranscription")
  BY DEF WorkerCancel
<1>2. /\ c \in Commands /\ c.type = "CancelTranscription" /\ worker.pc = "wait"
      /\ commands # <<>> /\ commands' = Tail(commands)
      /\ Wakes(worker, mic, commands', desired)
  BY <1>1, Takes
<1>3. CASE accepted
  <2> DEFINE r == CancelTranscribing(Own)
             t == Resume(r, ok)
  <2>1. Handled(t, ok)
    BY <1>3 DEF WorkerCancel
  <2>2. worker.trans # None
    BY <1>2, <1>3, CommandFields, UtteranceIs
  <2>t. r = CancelTranscribing(Own) /\ t = Resume(r, ok)
    OBVIOUS
  <2> HIDE DEF r, t
  <2>3. /\ Kept(r, desired, commands, window, whisper)
        /\ SameSetting(r.w, worker) /\ SameDevice(r, Own) /\ r.w.active = worker.active
        /\ r.w.trans = None
    BY <1>i, <2>t, CancelTranscribingKeeps
  <2>4. Kept(r, desired, commands', window, whisper)
    BY <1>2, <2>3, TakeKeeps
  <2>5. Sound(r, commands', window, whisper) /\ (r.w.mode = "auto" => r.w.vad)
    BY <1>2, <1>i, <2>2, <2>3, <2>4 DEF Sound, Recording, Works, SameSetting, SameDevice
  <2>6. Outcome(t, r, commands', window, whisper)
    BY <1>i, <2>5, <2>t, ResumeKeeps
  <2>7. Wakes(r.w, r.m, commands', desired) /\ r.w.pc = "wait"
    BY <1>2, <1>i, <2>3 DEF Wakes, SameSetting, SameDevice
  <2> QED
    BY <2>1, <2>6, <2>7, OutcomeKeeps
<1>4. CASE ~accepted
  <2>1. Handled(Own, ok)
    BY <1>4 DEF WorkerCancel
  <2>2. \/ Own.w.rev # desired
        \/ /\ \A k \in BOOLEAN : c # Finished(desired, Own.w.trans, k)
           /\ c # Cancel(desired, Own.w.trans)
    BY <1>2, <1>4, <1>i DEF Finished, Cancel
  <2>3. Kept(Own, desired, commands', window, whisper)
    BY <1>2, <1>i, <2>2, TakeKeeps
  <2>4. Sound(Own, commands', window, whisper)
    BY <1>2, <1>i, <2>3 DEF Sound
  <2> QED
    BY <1>2, <2>1, <2>4, UntouchedKeeps
<1> QED
  BY <1>3, <1>4

LEMMA CaptureFailedKeeps ==
    ASSUME IInv, WorkerCaptureFailed
    PROVE  IInv'
<1>i. /\ Own.w = worker /\ Own.m = mic
  BY IInvFields
<1>1. WorkerTakes("CaptureFailed")
  BY DEF WorkerCaptureFailed
<1>2. /\ worker.pc = "wait"
      /\ Wakes(worker, mic, commands', desired) /\ Sound(Own, commands', window, whisper)
  BY <1>1, Takes
<1> DEFINE t == Fail(Own)
<1>t. t = Fail(Own) /\ (Handled(t, TRUE) \/ Handled(Own, TRUE))
  BY DEF WorkerCaptureFailed
<1> HIDE DEF t
<1>3. CASE Handled(t, TRUE)
  <2>1. /\ Kept(t, desired, commands', window, whisper)
        /\ SameSetting(t.w, worker) /\ t.w.capture = None /\ ~t.w.vad /\ t.w.manual = "none"
        /\ t.w.active = None /\ t.w.trans = None
    BY <1>i, <1>2, <1>t, FailKeeps DEF Sound
  <2>2. Outcome(t, Own, commands', window, whisper)
    BY <1>i, <1>2, <2>1 DEF Outcome, Sound, MicKept, Recording, SameSetting, Works
  <2> QED
    BY <1>i, <1>2, <1>3, <2>2, OutcomeKeeps
<1>4. CASE Handled(Own, TRUE)
  BY <1>2, <1>4, UntouchedKeeps
<1> QED
  BY <1>t, <1>3, <1>4

\* The end of run.
ShutDown(s) ==
    [s EXCEPT !.w.pc = "join", !.w.pending = FALSE, !.w.vad = FALSE,
              !.q.job = NoJob, !.q.shutdown = TRUE]

LEMMA ShutDownIs ==
    ASSUME NEW s \in Owned, NEW t, t = ShutDown(s)
    PROVE  /\ t \in Owned /\ t.m = s.m /\ t.ev = s.ev /\ t.ends = s.ends
           /\ t.q.job = NoJob /\ t.q.cancelled = s.q.cancelled /\ t.q.shutdown
           /\ t.w.pc = "join" /\ t.w.rev = s.w.rev /\ t.w.backend = s.w.backend
           /\ t.w.capture = s.w.capture /\ t.w.active = s.w.active /\ t.w.next = s.w.next
           /\ ~t.w.pending /\ t.w.trans = s.w.trans
<1>t. /\ s.w \in Workers /\ s.m \in Mics /\ s.q \in Queues /\ s.ev \in Seq(Events) /\ s.ends \in Ends
  BY OwnedFields
<1>j. NoJob \in Job
  BY Bounds DEF Job, NoJob, None
<1> DEFINE w2 == [s.w EXCEPT !.pc = "join", !.pending = FALSE, !.vad = FALSE]
           q2 == [s.q EXCEPT !.job = NoJob, !.shutdown = TRUE]
<1>1. /\ w2 \in Workers /\ w2.pc = "join" /\ w2.rev = s.w.rev /\ w2.backend = s.w.backend
      /\ w2.capture = s.w.capture /\ w2.active = s.w.active /\ w2.next = s.w.next
      /\ ~w2.pending /\ w2.trans = s.w.trans
  BY <1>t DEF Workers
<1>q. q2 \in Queues /\ q2.job = NoJob /\ q2.cancelled = s.q.cancelled /\ q2.shutdown
  BY <1>t, <1>j DEF Queues
<1>2. t = [s EXCEPT !.w = w2, !.q = q2]
  BY <1>t DEF Owned, ShutDown, Workers, Queues
<1> HIDE DEF w2, q2
<1>3. t = [w |-> w2, m |-> s.m, q |-> q2, ev |-> s.ev, ends |-> s.ends]
  BY <1>2 DEF Owned
<1> QED
  BY <1>1, <1>q, <1>3, <1>t, OwnedIs

LEMMA ShutdownKeeps ==
    ASSUME IInv, WorkerShutdown
    PROVE  IInv'
<1> DEFINE a == StopCapture(Own)
           b == CancelActive(a)
           c == CancelTranscribing(b)
           t == ShutDown(c)
<1>d. a = StopCapture(Own) /\ b = CancelActive(a) /\ c = CancelTranscribing(b) /\ t = ShutDown(c)
  OBVIOUS
<1>f. WorkerTakes("Shutdown") /\ Handled(t, TRUE)
  BY Zenon DEF WorkerShutdown, ShutDown
<1> HIDE DEF a, b, c, t
<1>1. Sound(Own, commands', window, whisper)
  BY <1>f, Takes
<1>2. /\ Kept(a, desired, commands', window, whisper) /\ SameSetting(a.w, Own.w)
      /\ a.w.capture = None
  BY <1>1, <1>d, StopKeeps DEF Sound
<1>3. /\ Kept(b, desired, commands', window, whisper) /\ SameDevice(b, a)
      /\ b.w.active = None
  BY <1>2, <1>d, CancelActiveKeeps
<1>4. /\ Kept(c, desired, commands', window, whisper) /\ SameDevice(c, b)
      /\ c.w.active = b.w.active /\ c.w.trans = None
  BY <1>3, <1>d, CancelTranscribingKeeps
<1>k. /\ c \in Owned /\ c.w \in Workers /\ c.q \in Queues
      /\ Fields(c.w) /\ Jobs(c.w, c.q, whisper) /\ EndsOK(c.w, c.ends)
  BY <1>4, KeptFields
<1>5. /\ t \in Owned /\ t.m = c.m /\ t.ev = c.ev /\ t.ends = c.ends
      /\ t.q.job = NoJob /\ t.q.cancelled = c.q.cancelled /\ t.q.shutdown
      /\ t.w.pc = "join" /\ t.w.rev = c.w.rev /\ t.w.backend = c.w.backend
      /\ t.w.capture = None /\ t.w.active = None /\ t.w.next = c.w.next
      /\ ~t.w.pending /\ t.w.trans = None
  <2>1. c.w.capture = None
    BY <1>2, <1>3, <1>4 DEF SameDevice
  <2> QED
    BY <1>k, <1>d, <1>3, <1>4, <2>1, ShutDownIs
<1>6. Later(c.w, t.w)
  BY <1>5, <1>k, WorkerFields DEF Later
<1>7. Fields(t.w) /\ EndsOK(t.w, t.ends)
  BY <1>3, <1>4, <1>5, <1>k DEF Fields, EndsOK, Works
<1>8. Jobs(t.w, t.q, whisper)
  BY <1>3, <1>4, <1>5, <1>k DEF Jobs, JobOK, Past, Works
<1>9. Served(t.w, t.q, t.ev, desired, commands', window, whisper)
  BY <1>5 DEF Served
<1>10. Kept(t, desired, commands', window, whisper)
  BY <1>3, <1>4, <1>5, <1>6, <1>7, <1>8, <1>9, Stepped
<1>11. Recording(t.w) /\ Wakes(t.w, t.m, commands', desired)
  BY <1>5 DEF Recording, Wakes, Works
<1> QED
  BY <1>f, <1>10, <1>11, HandledKeeps

-----------------------------------------------------------------------------
(* The other steps.                                                        *)

LEMMA IncidentStays ==
    ASSUME incidents \in 0..MaxIncidents, NEW ok \in BOOLEAN, ok \/ incidents < MaxIncidents,
           incidents' = IF ok THEN incidents ELSE incidents + 1
    PROVE  incidents' \in 0..MaxIncidents
  BY Bounds

LEMMA OwnIs ==
    ASSUME worker' \in Workers, mic' \in Mics, queue' \in Queues, events' \in Seq(Events),
           settled' \in Ends
    PROVE  /\ Own' \in Owned /\ Own'.w = worker' /\ Own'.m = mic' /\ Own'.q = queue'
           /\ Own'.ev = events' /\ Own'.ends = settled'
<1>1. Own' = [w |-> worker', m |-> mic', q |-> queue', ev |-> events', ends |-> settled']
  BY DEF Own
<1> QED
  BY <1>1 DEF Owned

\* A step that leaves what the worker works on alone.
LEMMA AlikeKeeps ==
    ASSUME IInv, worker' \in Workers, mic' \in Mics, Alike(worker, worker'),
           UNCHANGED <<desired, events, queue, whisper, window, settled>>,
           Kept(Own, desired, commands', window, whisper), Recording(worker'),
           Wakes(worker', mic', commands', desired), incidents' \in 0..MaxIncidents
    PROVE  IInv'
<1>i. /\ Own.w = worker /\ Own.q = queue /\ Own.ev = events /\ Own.ends = settled
      /\ queue \in Queues /\ events \in Seq(Events) /\ settled \in Ends
  BY IInvFields
<1> DEFINE t == Own'
<1>1. /\ t \in Owned /\ t.w = worker' /\ t.q = queue /\ t.ev = events /\ t.ends = settled
  BY <1>i, OwnIs
<1> HIDE DEF t
<1>2. Kept(t, desired, commands', window, whisper)
  BY <1>i, <1>1, Unconcerned
<1>3. Kept(Own', desired', commands', window', whisper')
  BY <1>2 DEF t
<1>4. Recording(worker') /\ Wakes(worker', mic', commands', desired')
  OBVIOUS
<1> QED
  BY <1>3, <1>4 DEF IInv

LEMMA AppendKeeps ==
    ASSUME NEW cs, NEW n, NEW h, NEW s, Kept(s, desired, cs, n, h), NEW c \in Commands,
           c.type = "Configure" => c.rev <= desired,
           c.type = "TranscriptionFinished" =>
               /\ c.rev <= s.w.rev /\ Past(c.utt, s.w)
               /\ c.rev = desired => /\ ~Requests(s.ev, desired, c.utt)
                                     /\ n.remote # [rev |-> desired, utt |-> c.utt]
    PROVE  Kept(s, desired, Append(cs, c), n, h)
<1>t. /\ s \in Owned /\ desired \in Nat /\ cs \in Seq(Commands) /\ n \in Windows /\ h \in Whispers
      /\ Related(s.w, s.ev, s.ends, desired, cs, n)
      /\ Served(s.w, s.q, s.ev, desired, cs, n, h)
  BY KeptFields
<1> DEFINE cs2 == Append(cs, c)
<1>1. /\ cs2 \in Seq(Commands) /\ Len(cs) \in Nat /\ Len(cs2) = Len(cs) + 1
      /\ cs2[Len(cs) + 1] = c /\ \A i \in 1..Len(cs) : cs2[i] = cs[i]
  BY <1>t, Appended
<1> HIDE DEF cs2
<1>2. \A i \in 1..Len(cs2) : i \in 1..Len(cs) \/ i = Len(cs) + 1
  BY <1>1
<1>3. Results(s.w, s.ev, desired, cs2, n)
  BY <1>t, <1>1, <1>2 DEF Related, Results
<1>4. Served(s.w, s.q, s.ev, desired, cs2, n, h)
  <2>1. \A i \in 1..Len(cs) : i \in 1..Len(cs2)
    BY <1>1
  <2> QED
    BY <1>t, <1>1, <2>1 DEF Served
<1> QED
  BY <1>t, <1>1, <1>3, <1>4 DEF Kept, Typed, Related, cs2

LEMMA WakesAppended ==
    ASSUME NEW w, NEW m, NEW d, NEW cs \in Seq(Commands), NEW c \in Commands, Wakes(w, m, cs, d)
    PROVE  Wakes(w, m, Append(cs, c), d)
<1> DEFINE cs2 == Append(cs, c)
<1>1. /\ Len(cs) \in Nat /\ Len(cs2) = Len(cs) + 1 /\ \A i \in 1..Len(cs) : cs2[i] = cs[i]
  BY Appended
<1> HIDE DEF cs2
<1>2. \A i \in 1..Len(cs) : i \in 1..Len(cs2)
  BY <1>1
<1>3. Wakes(w, m, cs2, d)
  BY <1>1, <1>2 DEF Wakes
<1> QED
  BY <1>3 DEF cs2

LEMMA JoinKeeps ==
    ASSUME IInv, WorkerJoin
    PROVE  IInv'
<1>i. /\ Own.w = worker /\ worker \in Workers /\ mic \in Mics /\ incidents \in 0..MaxIncidents
      /\ Kept(Own, desired, commands, window, whisper)
      /\ Recording(worker) /\ Wakes(worker, mic, commands, desired)
  BY IInvFields
<1>1. /\ worker.pc = "join" /\ worker' = [worker EXCEPT !.pc = "done"]
      /\ UNCHANGED <<desired, commands, events, mic, queue, whisper, window, settled, incidents>>
  BY DEF WorkerJoin
<1>2. worker' \in Workers /\ Alike(worker, worker')
  BY <1>1, <1>i DEF Workers, Alike, Works
<1>3. worker'.capture = None /\ worker'.pc = "done"
  BY <1>1, <1>i DEF Workers, Recording, Works
<1>4. Recording(worker') /\ Wakes(worker', mic', commands', desired)
  BY <1>3 DEF Recording, Wakes, Works
<1> QED
  BY <1>1, <1>2, <1>4, <1>i, AlikeKeeps

LEMMA AudioKeeps ==
    ASSUME IInv, WorkerAudio
    PROVE  IInv'
<1> DEFINE c == Head(commands)
<1>i. /\ Own.w = worker /\ worker \in Workers /\ mic \in Mics /\ incidents \in 0..MaxIncidents
      /\ Recording(worker) /\ Wakes(worker, mic, commands, desired)
      /\ commands \in Seq(Commands)
  BY IInvFields
<1>1. /\ WorkerTakes("AudioReady")
      /\ UNCHANGED <<desired, events, queue, whisper, window, settled, incidents>>
  BY DEF WorkerAudio
<1>2. /\ commands # <<>> /\ commands' = Tail(commands)
      /\ c \in Commands /\ c.type = "AudioReady" /\ worker.pc = "wait"
      /\ Sound(Own, commands', window, whisper)
  BY <1>1, Takes
<1>k. Kept(Own, desired, commands', window, whisper)
  BY <1>2 DEF Sound
<1>3. CASE FromCapture(c)
  <2>1. mic' = [mic EXCEPT !.wake = FALSE] /\ worker' = [worker EXCEPT !.pc = "drain"]
    BY <1>3 DEF WorkerAudio
  <2>2. worker' \in Workers /\ mic' \in Mics /\ Alike(worker, worker')
    BY <2>1, <1>i, <1>2 DEF Workers, Mics, Alike, Works
  <2>3. worker.capture # None
    BY <1>3, <1>2, CommandFields DEF FromCapture
  <2>4. Recording(worker')
    BY <2>1, <2>3, <1>i, <1>2 DEF Workers, Recording, Works
  <2>5. worker'.pc = "drain" /\ ~mic'.wake
    BY <2>1, <1>i DEF Workers, Mics
  <2>6. Wakes(worker', mic', commands', desired)
    BY <2>5 DEF Wakes
  <2> QED
    BY <1>1, <1>k, <1>i, <2>2, <2>4, <2>6, AlikeKeeps
<1>4. CASE ~FromCapture(c)
  <2>1. worker' = worker /\ mic' = mic
    BY <1>4 DEF WorkerAudio
  <2>2. Alike(worker, worker')
    BY <2>1 DEF Alike
  <2>3. worker.rev = desired => c # AudioReady(worker.rev, worker.capture)
    BY <1>4 DEF FromCapture, AudioReady
  <2>4. Wakes(worker', mic', commands', desired)
    BY <1>2, <1>i, <2>1, <2>3, WakesTaken
  <2> QED
    BY <1>1, <1>k, <1>i, <2>1, <2>2, <2>4, AlikeKeeps
<1> QED
  BY <1>3, <1>4

LEMMA CallbackKeeps ==
    ASSUME IInv, NEW lost \in BOOLEAN, Callback(lost)
    PROVE  IInv'
<1> DEFINE c == AudioReady(worker.rev, worker.capture)
<1>i. /\ Own.w = worker /\ worker \in Workers /\ mic \in Mics /\ incidents \in 0..MaxIncidents
      /\ Kept(Own, desired, commands, window, whisper) /\ commands \in Seq(Commands)
      /\ Recording(worker) /\ Wakes(worker, mic, commands, desired)
  BY IInvFields
<1>1. /\ worker.capture # None /\ UNCHANGED <<desired, events, worker, queue, whisper, window, settled>>
      /\ mic' = [wake |-> TRUE, buffered |-> TRUE, overflow |-> mic.overflow \/ lost]
      /\ commands' = IF mic.wake THEN commands ELSE Append(commands, c)
      /\ lost => incidents < MaxIncidents
      /\ incidents' = IF lost THEN incidents + 1 ELSE incidents
  BY DEF Callback
<1>2. c \in Commands /\ c.type = "AudioReady"
  <2>1. worker.rev \in Nat /\ worker.capture \in Nat \ {None}
    BY <1>i, <1>1, WorkerFields
  <2> QED
    BY <2>1, CommandIs
<1>c. c = AudioReady(worker.rev, worker.capture)
  OBVIOUS
<1> HIDE DEF c
<1>3. Kept(Own, desired, commands', window, whisper)
  <2>1. Kept(Own, desired, Append(commands, c), window, whisper)
    BY <1>2, <1>i, AppendKeeps
  <2> QED
    BY <1>1, <1>i, <2>1
<1>4. mic' \in Mics /\ mic'.wake /\ mic'.buffered
  <2>1. (mic.overflow \/ lost) \in BOOLEAN
    OBVIOUS
  <2> QED
    BY <1>1, <2>1 DEF Mics
<1>5. Alike(worker, worker') /\ worker' = worker
  BY <1>1 DEF Alike
<1>6. Wakes(worker', mic', commands', desired)
  <2>1. ASSUME worker.rev = desired
        PROVE  \E i \in 1..Len(commands') : commands'[i] = c
    <3>1. CASE mic.wake
      BY <3>1, <2>1, <1>1, <1>i, <1>c DEF Wakes
    <3>2. CASE ~mic.wake
      <4>1. /\ Len(commands) \in Nat /\ Len(commands') = Len(commands) + 1
            /\ commands'[Len(commands) + 1] = c
        BY <3>2, <1>1, <1>2, <1>i, Appended
      <4> QED
        BY <4>1
    <3> QED
      BY <3>1, <3>2
  <2> QED
    BY <1>4, <1>5, <2>1, <1>c DEF Wakes
<1>7. incidents' \in 0..MaxIncidents
  BY <1>1, <1>i, Bounds
<1> QED
  BY <1>1, <1>3, <1>4, <1>5, <1>6, <1>7, <1>i, AlikeKeeps

LEMMA DeviceKeeps ==
    ASSUME IInv, DeviceFails
    PROVE  IInv'
<1> DEFINE c == CaptureFailed(worker.rev, worker.capture)
<1>i. /\ Own.w = worker /\ worker \in Workers /\ mic \in Mics /\ incidents \in 0..MaxIncidents
      /\ Kept(Own, desired, commands, window, whisper) /\ commands \in Seq(Commands)
      /\ Recording(worker) /\ Wakes(worker, mic, commands, desired)
  BY IInvFields
<1>1. /\ UNCHANGED <<desired, events, worker, mic, queue, whisper, window, settled>>
      /\ worker.capture # None
      /\ commands' = Append(commands, c) /\ incidents < MaxIncidents /\ incidents' = incidents + 1
  BY DEF DeviceFails
<1>2. c \in Commands /\ c.type = "CaptureFailed"
  <2>1. worker.rev \in Nat /\ worker.capture \in Nat \ {None}
    BY <1>i, <1>1, WorkerFields
  <2> QED
    BY <2>1, CommandIs
<1> HIDE DEF c
<1>3. Kept(Own, desired, commands', window, whisper)
  BY <1>1, <1>2, <1>i, AppendKeeps
<1>4. Wakes(worker', mic', commands', desired)
  BY <1>1, <1>2, <1>i, WakesAppended
<1>5. Alike(worker, worker') /\ incidents' \in 0..MaxIncidents
  BY <1>1, <1>i, Bounds DEF Alike
<1> QED
  BY <1>1, <1>3, <1>4, <1>5, <1>i, AlikeKeeps

\* A step of the Whisper thread.
LEMMA WhisperKeeps ==
    ASSUME IInv, OnlyWhisper, queue' \in Queues, whisper' \in Whispers, commands' \in Seq(Commands),
           Jobs(worker, queue', whisper'),
           Served(worker, queue', events, desired, commands', window, whisper'),
           Results(worker, events, desired, commands', window),
           Wakes(worker, mic, commands', desired), incidents' \in 0..MaxIncidents
    PROVE  IInv'
<1>i. /\ worker \in Workers /\ mic \in Mics /\ window \in Windows /\ desired \in Nat
      /\ events \in Seq(Events) /\ settled \in Ends
      /\ Recording(worker) /\ Fields(worker) /\ EndsOK(worker, settled)
      /\ Related(worker, events, settled, desired, commands, window)
  BY IInvFields
<1>1. UNCHANGED <<desired, events, worker, mic, window, settled>>
  BY DEF OnlyWhisper
<1> DEFINE t == Own'
<1>2. /\ t \in Owned /\ t.w = worker /\ t.q = queue' /\ t.ev = events /\ t.ends = settled
  BY <1>i, <1>1, OwnIs
<1> HIDE DEF t
<1>3. Related(worker, events, settled, desired, commands', window)
  BY <1>i DEF Related
<1>4. Kept(t, desired, commands', window, whisper')
  BY <1>i, <1>2, <1>3 DEF Kept, Typed
<1>5. Kept(Own', desired', commands', window', whisper')
  BY <1>1, <1>4 DEF t
<1>6. Recording(worker') /\ Wakes(worker', mic', commands', desired')
  BY <1>1, <1>i
<1> QED
  BY <1>5, <1>6 DEF IInv

LEMMA WhisperFields ==
    ASSUME NEW h \in Whispers
    PROVE  h.pc \in {"wait", "taken", "infer", "send", "done"} /\ h.job \in Job /\ h.ok \in BOOLEAN
  BY DEF Whispers

LEMMA WaitsIs ==
    ASSUME WhisperWaits
    PROVE  whisper' \in Whispers /\ whisper'.pc = "wait" /\ whisper'.job = NoJob
<1>1. NoJob \in Job
  BY Bounds DEF Job, NoJob, None
<1> QED
  BY <1>1 DEF WhisperWaits, Whispers

LEMMA WhisperTakeKeeps ==
    ASSUME IInv, WhisperTake
    PROVE  IInv'
<1>i. /\ worker \in Workers /\ queue \in Queues /\ whisper \in Whispers /\ commands \in Seq(Commands)
      /\ incidents \in 0..MaxIncidents /\ Wakes(worker, mic, commands, desired)
      /\ Jobs(worker, queue, whisper) /\ Results(worker, events, desired, commands, window)
      /\ Served(worker, queue, events, desired, commands, window, whisper)
  BY IInvFields DEF Related
<1>1. whisper.pc = "wait" /\ UNCHANGED <<commands, incidents>> /\ OnlyWhisper
  BY DEF WhisperTake
<1>n. whisper.job = NoJob
  BY <1>1, <1>i DEF Jobs
<1>2. CASE queue.shutdown /\ whisper' = [whisper EXCEPT !.pc = "done"] /\ UNCHANGED queue
  <2>1. whisper' \in Whispers /\ whisper'.pc = "done" /\ whisper'.job = whisper.job
    BY <1>2, <1>i DEF Whispers
  <2>2. Jobs(worker, queue', whisper')
    BY <1>1, <1>2, <1>i, <1>n, <2>1 DEF Jobs
  <2>3. Served(worker, queue', events, desired, commands', window, whisper')
    BY <1>1, <1>2, <1>i, <2>1 DEF Served
  <2> QED
    BY <1>1, <1>2, <1>i, <2>1, <2>2, <2>3, WhisperKeeps
<1>3. CASE /\ queue.job # NoJob
           /\ whisper' = [pc |-> "taken", job |-> queue.job, ok |-> TRUE]
           /\ queue' = [queue EXCEPT !.job = NoJob]
  <2>j. NoJob \in Job /\ queue.job \in Job
    BY <1>i, Bounds DEF Job, NoJob, None, Queues
  <2>1. whisper' \in Whispers /\ whisper'.pc = "taken" /\ whisper'.job = queue.job
    BY <1>3, <2>j DEF Whispers
  <2>2. /\ queue' \in Queues /\ queue'.job = NoJob /\ queue'.cancelled = queue.cancelled
        /\ queue'.shutdown = queue.shutdown
    BY <1>3, <1>i, <2>j DEF Queues
  <2>3. Jobs(worker, queue', whisper')
    <3>1. JobOK(NoJob, worker)
      BY DEF JobOK
    <3> QED
      BY <1>3, <1>i, <2>1, <2>2, <3>1 DEF Jobs
  <2>4. Served(worker, queue', events, desired, commands', window, whisper')
    <3>1. \A job : job \in {queue.job, whisper.job} /\ job # NoJob => job \in {queue'.job, whisper'.job}
      BY <1>n, <2>1
    <3>2. worker.trans # None => [rev |-> desired, utt |-> worker.trans] # NoJob
      BY DEF NoJob
    <3> QED
      BY <1>1, <1>i, <3>1, <3>2 DEF Served
  <2> QED
    BY <1>1, <1>i, <2>1, <2>2, <2>3, <2>4, WhisperKeeps
<1> QED
  BY <1>2, <1>3 DEF WhisperTake

LEMMA WhisperCheckKeeps ==
    ASSUME IInv, NEW ok \in BOOLEAN, WhisperCheck(ok)
    PROVE  IInv'
<1>i. /\ worker \in Workers /\ queue \in Queues /\ whisper \in Whispers /\ commands \in Seq(Commands)
      /\ incidents \in 0..MaxIncidents /\ Wakes(worker, mic, commands, desired)
      /\ Jobs(worker, queue, whisper) /\ Results(worker, events, desired, commands, window)
      /\ Served(worker, queue, events, desired, commands, window, whisper) /\ Fields(worker)
  BY IInvFields DEF Related
<1>1. /\ whisper.pc \in {"taken", "infer"} /\ UNCHANGED <<commands, queue>> /\ OnlyWhisper
      /\ incidents' \in 0..MaxIncidents
  <2>1. /\ whisper.pc \in {"taken", "infer"} /\ UNCHANGED <<commands, queue>> /\ OnlyWhisper
        /\ ok \/ incidents < MaxIncidents
        /\ incidents' = IF ok THEN incidents ELSE incidents + 1
    BY DEF WhisperCheck
  <2> QED
    BY <1>i, <2>1, IncidentStays
<1>2. CASE ~IsCancelled(whisper.job)
  <2>1. whisper' = [whisper EXCEPT !.pc = IF @ = "taken" THEN "infer" ELSE "send", !.ok = ok]
    BY <1>2 DEF WhisperCheck
  <2>2. /\ whisper' \in Whispers /\ whisper'.job = whisper.job
        /\ whisper'.pc \in {"infer", "send"}
    BY <2>1, <1>i DEF Whispers
  <2>3. Jobs(worker, queue', whisper')
    BY <1>1, <1>i, <2>2 DEF Jobs
  <2>4. Served(worker, queue', events, desired, commands', window, whisper')
    BY <1>1, <1>i, <2>2 DEF Served
  <2> QED
    BY <1>1, <1>i, <2>2, <2>3, <2>4, WhisperKeeps
<1>3. CASE IsCancelled(whisper.job)
  <2>1. whisper' \in Whispers /\ whisper'.pc = "wait" /\ whisper'.job = NoJob
    <3>1. WhisperWaits
      BY <1>3 DEF WhisperCheck
    <3> QED
      BY <3>1, WaitsIs
  <2>2. Jobs(worker, queue', whisper')
    <3>1. JobOK(NoJob, worker)
      BY DEF JobOK
    <3> QED
      BY <1>1, <1>i, <2>1, <3>1 DEF Jobs
  <2>3. ASSUME worker.trans # None, worker.rev = desired
        PROVE  whisper.job # [rev |-> desired, utt |-> worker.trans]
    <3>1. SUFFICES ASSUME whisper.job = [rev |-> desired, utt |-> worker.trans]
                   PROVE  FALSE
      OBVIOUS
    <3>2. whisper.job.rev = desired /\ whisper.job.utt = worker.trans
      BY <3>1
    <3>3. ~queue.shutdown
      BY <2>3, <1>i DEF Jobs, Fields
    <3>4. worker.trans <= queue.cancelled.utt
      BY <1>3, <3>2, <3>3 DEF IsCancelled
    <3>5. queue.cancelled.utt \in Nat
      BY <1>i, JobFields DEF Queues
    <3>6. queue.cancelled.utt < worker.next /\ worker.trans + 1 = worker.next
      BY <2>3, <1>i DEF Jobs, Past, Fields
    <3>7. queue.cancelled.utt = worker.trans
      BY <1>i, <3>4, <3>5, <3>6, WorkerFields
    <3> QED
      BY <2>3, <1>i, <3>7 DEF Jobs
  <2>4. Served(worker, queue', events, desired, commands', window, whisper')
    BY <1>1, <1>i, <2>3 DEF Served
  <2> QED
    BY <1>1, <1>i, <2>1, <2>2, <2>4, WhisperKeeps
<1> QED
  BY <1>2, <1>3

LEMMA WhisperSendKeeps ==
    ASSUME IInv, WhisperSend
    PROVE  IInv'
<1> DEFINE job == whisper.job
           c == Finished(job.rev, job.utt, whisper.ok)
<1>i. /\ worker \in Workers /\ queue \in Queues /\ whisper \in Whispers /\ commands \in Seq(Commands)
      /\ Own.w = worker /\ Own.q = queue /\ Own.ev = events
      /\ events \in Seq(Events) /\ window \in Windows /\ desired \in Nat
      /\ incidents \in 0..MaxIncidents /\ Wakes(worker, mic, commands, desired)
      /\ Jobs(worker, queue, whisper)
      /\ Served(worker, queue, events, desired, commands, window, whisper) /\ Fields(worker)
      /\ Related(worker, events, settled, desired, commands, window)
      /\ Kept(Own, desired, commands, window, whisper)
  BY IInvFields
<1>1. /\ whisper.pc = "send" /\ UNCHANGED <<queue, incidents>> /\ OnlyWhisper
      /\ commands' = Append(commands, c) /\ WhisperWaits
  BY DEF WhisperSend
<1>2. whisper' \in Whispers /\ whisper'.pc = "wait" /\ whisper'.job = NoJob
  BY <1>1, WaitsIs
<1>3. /\ job # NoJob /\ job \in Job /\ job.rev \in Nat /\ job.utt \in Utterances
      /\ job.rev <= worker.rev /\ Past(job.utt, worker)
      /\ job.rev = worker.rev => worker.backend = "local"
  <2>1. job # NoJob
    BY <1>1, <1>i DEF Jobs
  <2>2. job \in Job /\ job.rev \in Nat
    BY <1>i, WhisperFields, JobFields
  <2>3. job.utt # None /\ job.rev <= worker.rev /\ Past(job.utt, worker)
        /\ (job.rev = worker.rev => worker.backend = "local")
    BY <1>i, <2>1 DEF Jobs, JobOK
  <2>4. job.utt \in 0..MaxUtterances
    BY <2>2 DEF Job
  <2> QED
    BY <2>1, <2>2, <2>3, <2>4, UtteranceIs
<1>o. whisper.ok \in BOOLEAN
  BY <1>i, WhisperFields
<1>4. c \in Commands /\ c.type = "TranscriptionFinished" /\ c.rev = job.rev /\ c.utt = job.utt
  BY <1>3, <1>o, CommandIs
<1>c. c = Finished(job.rev, job.utt, whisper.ok) /\ job = whisper.job
  OBVIOUS
<1> HIDE DEF c, job
<1>5. ASSUME job.rev = desired
      PROVE  /\ ~Requests(events, desired, job.utt)
             /\ window.remote # [rev |-> desired, utt |-> job.utt]
  <2>1. worker.rev <= desired /\ worker.rev \in Nat
    BY <1>i, WorkerFields DEF Related, Stream
  <2>2. worker.rev = desired /\ worker.backend = "local"
    BY <1>3, <1>5, <1>i, <2>1
  <2>3. ~Requests(events, desired, job.utt)
    BY <1>i, <2>2 DEF Related, Owed, Requests, Event
  <2>4. job.utt # None
    BY <1>3, UtteranceIs
  <2>5. window.remote # [rev |-> desired, utt |-> job.utt]
    BY <1>i, <2>2, <2>4 DEF Related, Holds, NoJob
  <2> QED
    BY <2>3, <2>5
<1>6. Kept(Own, desired, commands', window, whisper)
  BY <1>1, <1>3, <1>4, <1>5, <1>i, AppendKeeps
<1>7. Results(worker, events, desired, commands', window)
  BY <1>6, <1>i DEF Kept, Related
<1>8. Jobs(worker, queue', whisper')
  <2>1. JobOK(NoJob, worker)
    BY DEF JobOK
  <2> QED
    BY <1>1, <1>2, <1>i, <2>1 DEF Jobs
<1>9. Served(worker, queue', events, desired, commands', window, whisper')
  <2>1. Served(worker, queue, events, desired, commands', window, whisper)
    BY <1>6, <1>i, KeptFields
  <2>2. ASSUME whisper.job = [rev |-> desired, utt |-> worker.trans]
        PROVE  \E i \in 1..Len(commands') : \E ok \in BOOLEAN :
                   commands'[i] = Finished(desired, worker.trans, ok)
    <3>1. c = Finished(desired, worker.trans, whisper.ok)
      BY <2>2, <1>c
    <3>2. /\ Len(commands) \in Nat /\ Len(commands') = Len(commands) + 1
          /\ commands'[Len(commands) + 1] = c
      BY <1>1, <1>4, <1>i, Appended
    <3> QED
      BY <1>o, <3>1, <3>2
  <2> QED
    BY <1>1, <2>1, <2>2 DEF Served
<1>10. Wakes(worker, mic, commands', desired)
  BY <1>1, <1>4, <1>i, WakesAppended
<1>11. commands' \in Seq(Commands)
  BY <1>6, KeptFields
<1> QED
  BY <1>1, <1>2, <1>7, <1>8, <1>9, <1>10, <1>11, <1>i, WhisperKeeps

-----------------------------------------------------------------------------
(* The window and the user.                                                *)

LEMMA WindowFields ==
    ASSUME NEW n \in Windows
    PROVE  /\ n.remote \in Job /\ n.remote.rev \in Nat /\ n.remote.utt \in Nat
           /\ n.pending \in Nat /\ n.sent \in Nat
           /\ n.pending \in 0..MaxUtterances /\ n.sent \in 0..MaxUtterances
           /\ n.remote.utt \in 0..MaxUtterances
           /\ n.remote = [rev |-> n.remote.rev, utt |-> n.remote.utt]
           /\ n.closed \in BOOLEAN /\ n.presses \in Nat
           /\ NoJob \in Job
<1>1. /\ n.remote \in Job /\ n.pending \in 0..MaxUtterances /\ n.sent \in 0..MaxUtterances
      /\ n.closed \in BOOLEAN /\ n.presses \in Nat
  BY DEF Windows
<1>2. /\ n.remote.utt \in 0..MaxUtterances /\ n.remote.rev \in Nat
      /\ n.remote = [rev |-> n.remote.rev, utt |-> n.remote.utt]
  BY <1>1 DEF Job
<1>3. NoJob \in Job
  BY Bounds DEF NoJob, Job, None
<1> QED
  BY <1>1, <1>2, <1>3, Bounds

\* A step of the window or of the user.
LEMMA WindowKeeps ==
    ASSUME IInv, OnlyWindow, desired' \in Nat, commands' \in Seq(Commands),
           events' \in Seq(Events), window' \in Windows,
           Related(worker, events', settled, desired', commands', window'),
           Served(worker, queue, events', desired', commands', window', whisper),
           Wakes(worker, mic, commands', desired'), incidents' \in 0..MaxIncidents
    PROVE  IInv'
<1>i. /\ worker \in Workers /\ mic \in Mics /\ queue \in Queues /\ settled \in Ends
      /\ whisper \in Whispers
      /\ Recording(worker) /\ Fields(worker) /\ Jobs(worker, queue, whisper)
      /\ EndsOK(worker, settled)
  BY IInvFields
<1>1. UNCHANGED <<worker, mic, queue, whisper, settled>>
  BY DEF OnlyWindow
<1> DEFINE t == Own'
<1>2. /\ t \in Owned /\ t.w = worker /\ t.q = queue /\ t.ev = events' /\ t.ends = settled
  BY <1>i, <1>1, OwnIs
<1> HIDE DEF t
<1>3. Kept(t, desired', commands', window', whisper)
  BY <1>i, <1>2 DEF Kept, Typed
<1>4. Kept(Own', desired', commands', window', whisper')
  BY <1>1, <1>3 DEF t
<1>5. Recording(worker') /\ Wakes(worker', mic', commands', desired')
  BY <1>1, <1>i
<1> QED
  BY <1>4, <1>5 DEF IInv

\* What holds of the channel to the worker and of the window, whatever else the
\* step does.
Linked(cs, n) ==
    /\ cs \in Seq(Commands) /\ n \in Windows
    /\ Related(worker, events, settled, desired, cs, n)
    /\ Served(worker, queue, events, desired, cs, n, whisper)
    /\ Wakes(worker, mic, cs, desired)

LEMMA LinkedNow ==
    ASSUME IInv
    PROVE  Linked(commands, window)
  BY IInvFields DEF Linked

\* A step that hears nothing and configures nothing.
LEMMA LinkedKeeps ==
    ASSUME IInv, OnlyWindow, UNCHANGED <<desired, events>>, Linked(commands', window'),
           incidents' \in 0..MaxIncidents
    PROVE  IInv'
  BY WindowKeeps, IInvFields DEF Linked

LEMMA LinkedAppended ==
    ASSUME IInv, NEW cs, NEW n, Linked(cs, n), NEW c \in Commands,
           c.type = "Configure" => c.rev <= desired,
           c.type = "TranscriptionFinished" =>
               /\ c.rev <= worker.rev /\ Past(c.utt, worker)
               /\ c.rev = desired => /\ ~Requests(events, desired, c.utt)
                                     /\ n.remote # [rev |-> desired, utt |-> c.utt]
    PROVE  /\ Linked(Append(cs, c), n)
           /\ \E i \in 1..Len(Append(cs, c)) : Append(cs, c)[i] = c
<1>i. /\ Own \in Owned /\ Own.w = worker /\ Own.q = queue /\ Own.ev = events /\ Own.ends = settled
      /\ desired \in Nat /\ whisper \in Whispers
      /\ Fields(worker) /\ Jobs(worker, queue, whisper) /\ EndsOK(worker, settled)
  BY IInvFields
<1>1. Kept(Own, desired, cs, n, whisper)
  BY <1>i DEF Kept, Typed, Linked
<1> DEFINE cs2 == Append(cs, c)
<1>d. cs2 = Append(cs, c)
  OBVIOUS
<1> HIDE DEF cs2
<1>2. Kept(Own, desired, cs2, n, whisper)
  BY <1>d, <1>1, <1>i, AppendKeeps
<1>3. Wakes(worker, mic, cs2, desired)
  BY <1>d, WakesAppended DEF Linked
<1>4. Linked(cs2, n)
  BY <1>2, <1>3, <1>i, KeptFields DEF Linked
<1>5. \E i \in 1..Len(cs2) : cs2[i] = c
  BY <1>d, Appended DEF Linked
<1> QED
  BY <1>4, <1>5, <1>d

\* The worker is told that the window has nothing to do with it.
LEMMA ToldKeeps ==
    ASSUME IInv, NEW cs, NEW n, Linked(cs, n), NEW c \in Commands,
           c.type \notin {"Configure", "TranscriptionFinished"}
    PROVE  Linked(Append(cs, c), n)
  BY LinkedAppended

\* The window gives up its request, which the worker has been told, or its wait.
LEMMA LinkedForgets ==
    ASSUME IInv, NEW cs, NEW n, Linked(cs, n), NEW n2 \in Windows, n2.sent = n.sent,
           n2.pending \in {None, n.pending}, n2.remote \in {NoJob, n.remote},
           n.closed => n2.closed,
           n2.remote # n.remote =>
               \/ \E i \in 1..Len(cs) : cs[i] = Cancel(n.remote.rev, n.remote.utt)
               \/ \E i \in 1..Len(cs) : \E ok \in BOOLEAN :
                      cs[i] = Finished(n.remote.rev, n.remote.utt, ok)
    PROVE  Linked(cs, n2)
<1>n. /\ n.pending \in Nat /\ n.sent \in Nat /\ n.remote.rev \in Nat /\ n.remote.utt \in Nat
      /\ n.closed \in BOOLEAN /\ n2.closed \in BOOLEAN
  BY WindowFields DEF Linked
<1>e. /\ \A i \in 1..Len(events) : events[i].utt \in Nat /\ events[i] \in Events
      /\ events \in Seq(Events) /\ worker \in Workers /\ desired \in Nat
  BY IInvFields, EventFields
<1>1. Holds(worker, events, settled, desired, n2)
  <2>1. n2.remote # NoJob => n2.remote = n.remote
    OBVIOUS
  <2>2. n2.pending # None => n2.pending = n.pending
    OBVIOUS
  <2>3. ASSUME NEW i \in 1..Len(events), events[i].type = "SpeechStarted"
        PROVE  n2.pending < events[i].utt /\ n2.sent < events[i].utt
    <3>1. n.pending < events[i].utt /\ n.sent < events[i].utt
      BY <2>3 DEF Linked, Related, Holds
    <3> QED
      BY <3>1, <1>n, <1>e DEF None
  <2> QED
    BY <2>1, <2>2, <2>3 DEF Linked, Related, Holds
<1>2. Results(worker, events, desired, cs, n2)
  <2>1. ASSUME NEW i \in 1..Len(cs), cs[i].type = "TranscriptionFinished", cs[i].rev = desired,
               n2.remote = [rev |-> desired, utt |-> cs[i].utt]
        PROVE  FALSE
    <3>1. cs[i] \in Commands
      BY DEF Linked
    <3>2. cs[i].utt # None
      BY <2>1, <3>1, CommandFields, UtteranceIs
    <3>3. n2.remote # NoJob
      BY <2>1, <3>2 DEF NoJob
    <3>4. n.remote = [rev |-> desired, utt |-> cs[i].utt]
      BY <2>1, <3>3
    <3> QED
      BY <2>1, <3>4 DEF Linked, Related, Results
  <2> QED
    BY <2>1 DEF Linked, Related, Results
<1>3. Served(worker, queue, events, desired, cs, n2, whisper)
  <2>1. ASSUME n.remote = [rev |-> desired, utt |-> worker.trans], n2.remote # n.remote
        PROVE  \/ \E i \in 1..Len(cs) : cs[i] = Cancel(desired, worker.trans)
               \/ \E i \in 1..Len(cs) : \E ok \in BOOLEAN :
                      cs[i] = Finished(desired, worker.trans, ok)
    <3>1. n.remote.rev = desired /\ n.remote.utt = worker.trans
      BY <2>1
    <3> QED
      BY <2>1, <3>1
  <2> QED
    BY <2>1, <1>n DEF Linked, Served
<1> QED
  BY <1>1, <1>2, <1>3 DEF Linked, Related

LEMMA CancelRemoteKeeps ==
    ASSUME IInv, NEW cs, Linked(cs, window)
    PROVE  /\ Linked(CancelRemote(cs), window)
           /\ window.remote # NoJob =>
                  \E i \in 1..Len(CancelRemote(cs)) :
                      CancelRemote(cs)[i] = Cancel(window.remote.rev, window.remote.utt)
<1>1. CASE window.remote = NoJob
  BY <1>1 DEF CancelRemote
<1>2. CASE window.remote # NoJob
  <2>1. window.remote.rev \in Nat /\ window.remote.utt \in Utterances
    <3>1. window.remote.rev \in Nat /\ window.remote.utt \in 0..MaxUtterances
      BY WindowFields DEF Linked
    <3>2. window.remote.utt # None
      BY <1>2 DEF Linked, Related, Holds
    <3> QED
      BY <3>1, <3>2, UtteranceIs
  <2> DEFINE c == Cancel(window.remote.rev, window.remote.utt)
  <2>2. c \in Commands /\ c.type = "CancelTranscription"
    BY <2>1, CommandIs
  <2>3. CancelRemote(cs) = Append(cs, c)
    BY <1>2 DEF CancelRemote
  <2> HIDE DEF c
  <2>4. Linked(Append(cs, c), window) /\ \E i \in 1..Len(Append(cs, c)) : Append(cs, c)[i] = c
    BY <2>2, LinkedAppended
  <2> QED
    BY <2>3, <2>4 DEF c
<1> QED
  BY <1>1, <1>2

LEMMA ReleaseKeeps ==
    ASSUME IInv, NEW cs, Linked(cs, window)
    PROVE  Linked(Release(cs), window)
<1>1. Talk(desired, FALSE) \in Commands /\ Talk(desired, FALSE).type = "PushToTalk"
  BY IInvFields, CommandIs
<1>2. Linked(Append(cs, Talk(desired, FALSE)), window)
  BY <1>1, ToldKeeps
<1> QED
  BY <1>2 DEF Release

\* The first event is taken; whoever waits for what it ends has stopped waiting.
LEMMA RelatedTaken ==
    ASSUME IInv, NEW cs, NEW n, Linked(cs, n), events # <<>>,
           Head(events).rev = desired =>
               /\ Head(events).type = "Error" => n.pending = None /\ n.remote = NoJob
               /\ Head(events).type \in EndTypes => n.pending # Head(events).utt
               /\ Head(events).type = "UtteranceCancelled" => n.remote.utt # Head(events).utt
    PROVE  /\ Related(worker, Tail(events), settled, desired, cs, n)
           /\ Head(events) # Event("TranscriptionRequested", desired, worker.trans) =>
                  Served(worker, queue, Tail(events), desired, cs, n, whisper)
<1> DEFINE e == Head(events)
           ev2 == Tail(events)
<1>i. /\ worker \in Workers /\ events \in Seq(Events) /\ desired \in Nat
  BY IInvFields
<1>1. /\ ev2 \in Seq(Events) /\ e = events[1] /\ e \in Events
      /\ Len(events) \in Nat \ {0} /\ Len(ev2) = Len(events) - 1
      /\ \A i \in 1..Len(ev2) : i + 1 \in 1..Len(events) /\ ev2[i] = events[i + 1]
  BY <1>i, Taken
<1>2. /\ \A i \in 1..Len(events) : \A d, types, u :
             EndAfter(events, i, d, types, u) => EndAfter(ev2, i - 1, d, types, u)
      /\ \A d, types, u : EndAfter(events, 0, d, types, u) =>
             \/ EndAfter(ev2, 0, d, types, u)
             \/ /\ e.rev = d
                /\ e.type = "Error" \/ (e.type \in types /\ e.utt = u)
  BY <1>i, EndTaken
<1>3. \A d, u : Requests(events, d, u)
                    <=> (Requests(ev2, d, u) \/ e = Event("TranscriptionRequested", d, u))
  BY <1>i, RequestsTaken
<1>4. e.rev = desired =>
          /\ e.type = "Error" => n.pending = None /\ n.remote = NoJob
          /\ e.type \in EndTypes => n.pending # e.utt
          /\ e.type = "UtteranceCancelled" => n.remote.utt # e.utt
  OBVIOUS
<1>q. e # Event("TranscriptionRequested", desired, worker.trans)
          <=> Head(events) # Event("TranscriptionRequested", desired, worker.trans)
  OBVIOUS
<1> HIDE DEF e, ev2
<1>5. Stream(worker, ev2, settled, desired)
  <2>1. worker.rev <= desired
    BY DEF Linked, Related, Stream
  <2>2. ASSUME NEW i \in 1..Len(ev2)
        PROVE  /\ ev2[i].rev <= worker.rev
               /\ ev2[i].type # "Error" => ev2[i].utt # None /\ ev2[i].utt < worker.next
               /\ ev2[i].type \in EndTypes => settled[ev2[i].utt] = 1
               /\ ev2[i].type = "TranscriptionRequested" => ev2[i].utt # worker.active
    BY <1>1 DEF Linked, Related, Stream
  <2>3. ASSUME NEW i \in 1..Len(ev2), NEW j \in 1..Len(ev2), i < j, ev2[j].type = ev2[i].type,
               ev2[i].type \in {"SpeechStarted", "TranscriptionRequested"}
        PROVE  ev2[i].utt < ev2[j].utt
    <3>1. i + 1 < j + 1 /\ i + 1 \in 1..Len(events) /\ j + 1 \in 1..Len(events)
      BY <1>1, <2>3
    <3> QED
      BY <1>1, <2>3, <3>1 DEF Linked, Related, Stream
  <2> QED
    BY <2>1, <2>2, <2>3 DEF Stream
<1>6. Owed(worker, ev2, desired)
  <2>1. ASSUME NEW i \in 1..Len(ev2), NEW types, NEW u,
               EndAfter(events, i + 1, desired, types, u)
        PROVE  EndAfter(ev2, i, desired, types, u)
    <3>1. i + 1 \in 1..Len(events) /\ (i + 1) - 1 = i
      BY <1>1
    <3> QED
      BY <2>1, <3>1, <1>2
  <2> QED
    BY <1>1, <2>1 DEF Linked, Related, Owed
<1>7. Holds(worker, ev2, settled, desired, n)
  <2>1. ASSUME n.pending # None, EndAfter(events, 0, desired, EndTypes, n.pending)
        PROVE  EndAfter(ev2, 0, desired, EndTypes, n.pending)
    BY <1>2, <1>4, <2>1
  <2>2. ASSUME n.remote # NoJob,
               EndAfter(events, 0, desired, {"UtteranceCancelled"}, n.remote.utt)
        PROVE  EndAfter(ev2, 0, desired, {"UtteranceCancelled"}, n.remote.utt)
    BY <1>2, <1>4, <2>2
  <2>3. \A i \in 1..Len(ev2) : ev2[i].type = "SpeechStarted" => n.pending < ev2[i].utt /\ n.sent < ev2[i].utt
    BY <1>1 DEF Linked, Related, Holds
  <2> QED
    BY <1>3, <2>1, <2>2, <2>3 DEF Linked, Related, Holds
<1>8. Results(worker, ev2, desired, cs, n)
  BY <1>3 DEF Linked, Related, Results
<1>9. e # Event("TranscriptionRequested", desired, worker.trans) =>
          Served(worker, queue, ev2, desired, cs, n, whisper)
  BY <1>3 DEF Linked, Served
<1> QED
  BY <1>5, <1>6, <1>7, <1>8, <1>9, <1>q DEF Related, ev2

LEMMA WindowHears ==
    ASSUME IInv, NEW type, WindowTakes(type)
    PROVE  /\ events # <<>> /\ events' = Tail(events) /\ Tail(events) \in Seq(Events)
           /\ Head(events) = events[1] /\ Head(events) \in Events /\ Head(events).type = type
           /\ 1 \in 1..Len(events) /\ desired' = desired /\ desired' \in Nat /\ OnlyWindow
           /\ Head(events).utt \in 0..MaxUtterances /\ Head(events).utt \in Nat
           /\ type # "Error" => Head(events).utt \in Utterances /\ Head(events).utt < worker.next
           /\ Head(events) = Event(type, Head(events).rev, Head(events).utt)
           /\ Head(events).rev = desired => worker.rev = desired
<1>i. events \in Seq(Events) /\ desired \in Nat /\ worker \in Workers
      /\ Stream(worker, events, settled, desired)
  BY IInvFields DEF Related
<1>1. /\ events # <<>> /\ events' = Tail(events) /\ Head(events).type = type
      /\ desired' = desired /\ OnlyWindow
  BY DEF WindowTakes
<1>2. /\ Tail(events) \in Seq(Events) /\ Head(events) = events[1] /\ Head(events) \in Events
      /\ 1 \in 1..Len(events)
  BY <1>i, <1>1, Taken
<1>3. /\ Head(events).utt \in 0..MaxUtterances /\ Head(events).utt \in Nat
      /\ Head(events).rev \in Nat
      /\ Head(events) = Event(type, Head(events).rev, Head(events).utt)
  BY <1>1, <1>2, EventFields, Bounds DEF Events
<1>4. /\ Head(events).rev <= worker.rev /\ worker.rev <= desired /\ worker.rev \in Nat
      /\ type # "Error" => Head(events).utt # None /\ Head(events).utt < worker.next
  BY <1>1, <1>2, <1>i, WorkerFields DEF Stream
<1> QED
  BY <1>1, <1>2, <1>3, <1>4, <1>i, UtteranceIs

\* An event that changes nothing in the window.
LEMMA UnheardKeeps ==
    ASSUME IInv, NEW type, type # "TranscriptionRequested" \/ Head(events).rev # desired,
           WindowTakes(type), UNCHANGED <<commands, window>>, incidents' \in 0..MaxIncidents,
           Head(events).rev = desired =>
               /\ type = "Error" => window.pending = None /\ window.remote = NoJob
               /\ type \in EndTypes => window.pending # Head(events).utt
               /\ type = "UtteranceCancelled" => window.remote.utt # Head(events).utt
    PROVE  IInv'
<1>1. /\ events # <<>> /\ events' = Tail(events) /\ Tail(events) \in Seq(Events)
      /\ Head(events).type = type /\ desired' = desired /\ desired' \in Nat /\ OnlyWindow
  BY WindowHears
<1>2. Linked(commands, window)
  BY LinkedNow
<1>3. Head(events) # Event("TranscriptionRequested", desired, worker.trans)
  <2>1. ASSUME Head(events) = Event("TranscriptionRequested", desired, worker.trans)
        PROVE  Head(events).type = "TranscriptionRequested" /\ Head(events).rev = desired
    BY <2>1 DEF Event
  <2> QED
    BY <1>1, <2>1
<1>4. /\ Related(worker, Tail(events), settled, desired, commands, window)
      /\ Served(worker, queue, Tail(events), desired, commands, window, whisper)
  BY <1>1, <1>2, <1>3, RelatedTaken
<1>5. commands' \in Seq(Commands) /\ window' \in Windows /\ Wakes(worker, mic, commands', desired')
  BY <1>1, <1>2 DEF Linked
<1> QED
  BY <1>1, <1>4, <1>5, WindowKeeps

\* An event that makes the window forget, and the worker is told what.
LEMMA HeardKeeps ==
    ASSUME IInv, NEW type \in EventTypes \ {"TranscriptionRequested"},
           WindowTakes(type), Linked(commands', window'), incidents' \in 0..MaxIncidents,
           Head(events).rev = desired =>
               /\ type = "Error" => window'.pending = None /\ window'.remote = NoJob
               /\ type \in EndTypes => window'.pending # Head(events).utt
               /\ type = "UtteranceCancelled" => window'.remote.utt # Head(events).utt
    PROVE  IInv'
<1>1. /\ events # <<>> /\ events' = Tail(events) /\ Tail(events) \in Seq(Events)
      /\ Head(events).type = type /\ desired' = desired /\ desired' \in Nat /\ OnlyWindow
  BY WindowHears
<1>3. Head(events) # Event("TranscriptionRequested", desired, worker.trans)
  BY <1>1 DEF Event
<1>4. /\ Related(worker, Tail(events), settled, desired, commands', window')
      /\ Served(worker, queue, Tail(events), desired, commands', window', whisper)
  BY <1>1, <1>3, RelatedTaken
<1>5. commands' \in Seq(Commands) /\ window' \in Windows /\ Wakes(worker, mic, commands', desired')
  BY <1>1 DEF Linked
<1> QED
  BY <1>1, <1>4, <1>5, WindowKeeps

\* The window without its request, or without its wait.
WithoutRequest(n) == [n EXCEPT !.remote = NoJob]
Waiting(n, u) == [n EXCEPT !.pending = u]
Forgetful(n) == [n EXCEPT !.remote = NoJob, !.pending = None]

LEMMA WindowIs ==
    ASSUME NEW n \in Windows, NEW u \in 0..MaxUtterances
    PROVE  /\ WithoutRequest(n) \in Windows /\ WithoutRequest(n).remote = NoJob
           /\ WithoutRequest(n).pending = n.pending /\ WithoutRequest(n).sent = n.sent
           /\ WithoutRequest(n).closed = n.closed
           /\ Waiting(n, u) \in Windows /\ Waiting(n, u).remote = n.remote
           /\ Waiting(n, u).pending = u /\ Waiting(n, u).sent = n.sent
           /\ Waiting(n, u).closed = n.closed
           /\ Forgetful(n) \in Windows /\ Forgetful(n).remote = NoJob
           /\ Forgetful(n).pending = None /\ Forgetful(n).sent = n.sent
           /\ Forgetful(n).closed = n.closed
<1>1. NoJob \in Job /\ None \in 0..MaxUtterances
  BY Bounds DEF NoJob, Job, None
<1>2. /\ WithoutRequest(n) \in Windows /\ WithoutRequest(n).remote = NoJob
      /\ WithoutRequest(n).pending = n.pending /\ WithoutRequest(n).sent = n.sent
      /\ WithoutRequest(n).closed = n.closed
  BY <1>1 DEF Windows, WithoutRequest
<1>3. /\ Waiting(n, u) \in Windows /\ Waiting(n, u).remote = n.remote
      /\ Waiting(n, u).pending = u /\ Waiting(n, u).sent = n.sent
      /\ Waiting(n, u).closed = n.closed
  BY <1>1 DEF Windows, Waiting
<1>4. /\ Forgetful(n) \in Windows /\ Forgetful(n).remote = NoJob
      /\ Forgetful(n).pending = None /\ Forgetful(n).sent = n.sent
      /\ Forgetful(n).closed = n.closed
  BY <1>1 DEF Windows, Forgetful
<1> QED
  BY <1>2, <1>3, <1>4

\* cancel_remote_transcription, and the window no longer waits.
LEMMA ForgottenIs ==
    ASSUME IInv, NEW cs, Linked(cs, window)
    PROVE  /\ Linked(CancelRemote(cs), WithoutRequest(window))
           /\ Linked(CancelRemote(cs), Forgetful(window))
<1>1. /\ Linked(CancelRemote(cs), window)
      /\ window.remote # NoJob =>
             \E i \in 1..Len(CancelRemote(cs)) :
                 CancelRemote(cs)[i] = Cancel(window.remote.rev, window.remote.utt)
  BY CancelRemoteKeeps
<1>2. window \in Windows /\ None \in 0..MaxUtterances
  BY IInvFields, Bounds DEF None
<1>3. /\ WithoutRequest(window) \in Windows /\ WithoutRequest(window).remote = NoJob
      /\ WithoutRequest(window).pending = window.pending /\ WithoutRequest(window).sent = window.sent
      /\ WithoutRequest(window).closed = window.closed
      /\ Forgetful(window) \in Windows /\ Forgetful(window).remote = NoJob
      /\ Forgetful(window).pending = None /\ Forgetful(window).sent = window.sent
      /\ Forgetful(window).closed = window.closed
  BY <1>2, WindowIs
<1>4. Linked(CancelRemote(cs), WithoutRequest(window))
  BY <1>1, <1>3, LinkedForgets
<1>5. Linked(CancelRemote(cs), Forgetful(window))
  BY <1>1, <1>3, LinkedForgets
<1> QED
  BY <1>4, <1>5

LEMMA HearErrorKeeps ==
    ASSUME IInv, HearError
    PROVE  IInv'
<1>1. WindowTakes("Error") /\ incidents' = incidents /\ incidents \in 0..MaxIncidents
  BY IInvFields DEF HearError
<1>2. CASE Heard
  <2>1. commands' = CancelRemote(commands) /\ window' = Forgetful(window)
    BY <1>2 DEF HearError, Forgetful
  <2>2. Linked(commands', window')
    BY <2>1, LinkedNow, ForgottenIs
  <2>3. window'.pending = None /\ window'.remote = NoJob
    BY <2>1, IInvFields, WindowIs, Bounds
  <2> QED
    BY <1>1, <2>2, <2>3, HeardKeeps DEF EventTypes, EndTypes
<1>3. CASE ~Heard
  <2>1. UNCHANGED <<commands, window>> /\ Head(events).rev # desired
    BY <1>3 DEF HearError, Heard
  <2> QED
    BY <1>1, <2>1, UnheardKeeps
<1> QED
  BY <1>2, <1>3

LEMMA HearCancelledKeeps ==
    ASSUME IInv, HearCancelled
    PROVE  IInv'
<1> DEFINE u == Head(events).utt
<1>1. WindowTakes("UtteranceCancelled") /\ incidents' = incidents /\ incidents \in 0..MaxIncidents
  BY IInvFields DEF HearCancelled
<1>2. u \in Utterances /\ u # None
  BY <1>1, WindowHears, UtteranceIs
<1>w. window \in Windows /\ None \in 0..MaxUtterances
  BY IInvFields, Bounds DEF None
<1>u. u = Head(events).utt
  OBVIOUS
<1> HIDE DEF u
<1>3. CASE Heard
  <2> DEFINE n1 == IF window.remote.utt = u THEN WithoutRequest(window) ELSE window
             n2 == IF window.pending = u THEN Waiting(n1, None) ELSE n1
  <2>1. commands' = IF window.remote.utt = u THEN CancelRemote(commands) ELSE commands
    BY <1>3 DEF HearCancelled, u
  <2>2. window' = [window EXCEPT !.remote = IF window.remote.utt = u THEN NoJob ELSE window.remote,
                                 !.pending = IF window.pending = u THEN None ELSE window.pending]
    BY <1>3 DEF HearCancelled, u
  <2>3. Linked(commands', n1)
    BY <2>1, LinkedNow, ForgottenIs
  <2>4. /\ n1 \in Windows /\ n1.pending = window.pending /\ n1.remote.utt # u
    <3>1. NoJob.utt # u
      BY <1>2 DEF NoJob
    <3> QED
      BY <1>w, <3>1, WindowIs
  <2>5. window' = n2
    BY <2>2, <1>w DEF Windows, WithoutRequest, Waiting
  <2> HIDE DEF n1
  <2>6. Linked(commands', n2) /\ n2.remote = n1.remote /\ n2.pending # u
    <3>1. /\ Waiting(n1, None) \in Windows /\ Waiting(n1, None).remote = n1.remote
          /\ Waiting(n1, None).pending = None /\ Waiting(n1, None).sent = n1.sent
          /\ Waiting(n1, None).closed = n1.closed
      BY <2>4, <1>w, WindowIs
    <3>2. Linked(commands', Waiting(n1, None))
      BY <2>3, <3>1, LinkedForgets
    <3> QED
      BY <2>3, <2>4, <3>1, <3>2, <1>2
  <2> HIDE DEF n2
  <2>7. Linked(commands', window') /\ window'.remote.utt # u /\ window'.pending # u
    BY <2>4, <2>5, <2>6
  <2> QED
    BY <1>1, <1>u, <2>7, HeardKeeps DEF EventTypes, EndTypes
<1>4. CASE ~Heard
  <2>1. UNCHANGED <<commands, window>> /\ Head(events).rev # desired
    BY <1>4 DEF HearCancelled, Heard
  <2> QED
    BY <1>1, <2>1, UnheardKeeps
<1> QED
  BY <1>3, <1>4

LEMMA HearTranscriptKeeps ==
    ASSUME IInv, NEW wanted \in BOOLEAN, HearTranscript(wanted)
    PROVE  IInv'
<1> DEFINE u == Head(events).utt
<1>1. /\ WindowTakes("TranscriptReady") /\ UNCHANGED <<commands, incidents>>
      /\ incidents' \in 0..MaxIncidents
  BY IInvFields DEF HearTranscript
<1>2. /\ events # <<>> /\ events' = Tail(events) /\ Tail(events) \in Seq(Events)
      /\ Head(events) = events[1] /\ Head(events).type = "TranscriptReady" /\ 1 \in 1..Len(events)
      /\ desired' = desired /\ desired' \in Nat /\ OnlyWindow
      /\ u \in Utterances /\ u \in 0..MaxUtterances /\ u \in Nat /\ u < worker.next
      /\ u # None
  BY <1>1, WindowHears, UtteranceIs
<1>w. window \in Windows /\ None \in 0..MaxUtterances
  BY IInvFields, Bounds DEF None
<1>u. u = Head(events).utt
  OBVIOUS
<1> HIDE DEF u
<1>3. CASE Heard /\ window.pending = u
  <2> DEFINE n1 == Waiting(window, None)
             n2 == [n1 EXCEPT !.sent = u]
  <2>1. /\ n1 \in Windows /\ n1.remote = window.remote /\ n1.pending = None
        /\ n1.sent = window.sent /\ n1.closed = window.closed
    BY <1>w, WindowIs
  <2>2. window' = IF wanted THEN n2 ELSE n1
    <3>1. window' = [window EXCEPT !.pending = None, !.sent = IF wanted THEN u ELSE @]
      BY <1>3 DEF HearTranscript, u
    <3> QED
      BY <3>1, <1>w DEF Windows, Waiting
  <2> HIDE DEF n1
  <2>3. /\ n2 \in Windows /\ n2.remote = n1.remote /\ n2.pending = None
        /\ n2.sent = u /\ n2.closed = n1.closed
    BY <2>1, <1>2 DEF Windows
  <2> HIDE DEF n2
  <2>4. Linked(commands, n1)
    BY <2>1, LinkedNow, LinkedForgets
  <2>5. Head(events) # Event("TranscriptionRequested", desired, worker.trans)
    BY <1>2 DEF Event
  <2>6. /\ Related(worker, Tail(events), settled, desired, commands, n1)
        /\ Served(worker, queue, Tail(events), desired, commands, n1, whisper)
    <3>1. n1.pending # Head(events).utt
      BY <2>1, <1>2, <1>u
    <3> QED
      BY <1>2, <2>1, <2>4, <2>5, <3>1, RelatedTaken
  <2>7. Holds(worker, Tail(events), settled, desired, n2)
    <3>1. settled[u] = 1
      BY <1>2, <1>u, IInvFields DEF Related, Stream, EndTypes
    <3>2. \A i \in 1..Len(Tail(events)) :
              /\ i + 1 \in 1..Len(events) /\ Tail(events)[i] = events[i + 1]
              /\ events[i + 1].utt \in Nat
      BY <1>2, IInvFields, Taken, EventFields
    <3>3. ASSUME NEW i \in 1..Len(Tail(events)), Tail(events)[i].type = "SpeechStarted"
          PROVE  n2.pending < Tail(events)[i].utt /\ n2.sent < Tail(events)[i].utt
      <4>1. Linked(commands, window)
        BY LinkedNow
      <4>2. u < Tail(events)[i].utt
        BY <1>3, <3>2, <3>3, <4>1 DEF Linked, Related, Holds
      <4> QED
        BY <1>2, <2>3, <3>2, <4>2 DEF None
    <3> QED
      BY <1>2, <2>1, <2>3, <2>6, <3>1, <3>3 DEF Related, Holds
  <2>8. Related(worker, Tail(events), settled, desired, commands, n2)
    BY <2>3, <2>6, <2>7 DEF Related, Results
  <2>9. Served(worker, queue, Tail(events), desired, commands, n2, whisper)
    BY <2>3, <2>6 DEF Served
  <2>10. /\ window' \in Windows
         /\ Related(worker, Tail(events), settled, desired, commands, window')
         /\ Served(worker, queue, Tail(events), desired, commands, window', whisper)
    BY <2>1, <2>2, <2>3, <2>6, <2>8, <2>9
  <2>11. commands' \in Seq(Commands) /\ Wakes(worker, mic, commands', desired')
    BY <1>1, <1>2, IInvFields
  <2> QED
    BY <1>1, <1>2, <2>10, <2>11, WindowKeeps
<1>4. CASE ~(Heard /\ window.pending = u)
  <2>1. UNCHANGED <<commands, window>>
    BY <1>1, <1>4 DEF HearTranscript, u
  <2>2. Head(events).rev = desired => window.pending # Head(events).utt
    BY <1>4, <1>u DEF Heard
  <2> QED
    BY <1>1, <2>1, <2>2, UnheardKeeps
<1> QED
  BY <1>3, <1>4

LEMMA HearSpeechKeeps ==
    ASSUME IInv, NEW refresh \in BOOLEAN, HearSpeech(refresh)
    PROVE  IInv'
<1> DEFINE u == Head(events).utt
<1>1. WindowTakes("SpeechStarted") /\ incidents' = incidents /\ incidents \in 0..MaxIncidents
  BY IInvFields DEF HearSpeech
<1>2. /\ events # <<>> /\ events' = Tail(events) /\ Tail(events) \in Seq(Events)
      /\ Head(events) = events[1] /\ Head(events).type = "SpeechStarted" /\ 1 \in 1..Len(events)
      /\ desired' = desired /\ desired' \in Nat /\ OnlyWindow
      /\ u \in Utterances /\ u \in 0..MaxUtterances /\ u \in Nat /\ u < worker.next
      /\ u # None /\ (Heard => worker.rev = desired)
  BY <1>1, WindowHears, UtteranceIs DEF Heard
<1>w. window \in Windows /\ window.pending \in Nat /\ window.pending < u /\ window.sent < u
      /\ window.sent \in Nat
  <2>1. window \in Windows /\ Holds(worker, events, settled, desired, window)
    BY IInvFields DEF Related
  <2> QED
    BY <1>2, <2>1, WindowFields DEF Holds
<1>u. u = Head(events).utt
  OBVIOUS
<1> HIDE DEF u
<1>3. CASE Heard
  <2>1. /\ commands' = CancelRemote(commands)
        /\ window' = [window EXCEPT !.remote = NoJob, !.pending = IF refresh THEN None ELSE u]
    <3>1. /\ commands' = CancelRemote(commands)
          /\ window' = [window EXCEPT !.remote = NoJob,
                   !.pending = IF refresh THEN None ELSE IF window.pending < u THEN u ELSE window.pending]
      BY <1>3 DEF HearSpeech, u
    <3> QED
      BY <3>1, <1>w
  <2>2. Linked(commands', WithoutRequest(window)) /\ Linked(commands', Forgetful(window))
    BY <2>1, LinkedNow, ForgottenIs
  <2>3. CASE refresh
    <3>1. window' = Forgetful(window)
      BY <2>1, <2>3 DEF Forgetful
    <3> QED
      BY <1>1, <2>2, <3>1, HeardKeeps DEF EventTypes, EndTypes
  <2>4. CASE ~refresh
    <3> DEFINE n1 == WithoutRequest(window)
               n2 == Waiting(n1, u)
    <3>1. window' = n2
      BY <2>1, <2>4, <1>w DEF Waiting, WithoutRequest, Windows
    <3>2. n1 \in Windows /\ n1.remote = NoJob /\ n1.sent = window.sent /\ n1.closed = window.closed
      BY <1>w, <1>2, WindowIs
    <3> HIDE DEF n1
    <3>3. /\ n2 \in Windows /\ n2.remote = NoJob /\ n2.pending = u /\ n2.sent = window.sent
          /\ n2.closed = n1.closed
      BY <3>2, <1>2, WindowIs
    <3> HIDE DEF n2
    <3>4. Linked(commands', n1)
      BY <2>2 DEF n1
    <3>5. /\ Related(worker, Tail(events), settled, desired, commands', n1)
          /\ Served(worker, queue, Tail(events), desired, commands', n1, whisper)
      <4>1. Head(events) # Event("TranscriptionRequested", desired, worker.trans)
        BY <1>2 DEF Event
      <4> QED
        BY <1>2, <3>4, <4>1, RelatedTaken DEF EndTypes
    <3>6. Holds(worker, Tail(events), settled, desired, n2)
      <4>1. u \in {worker.active, worker.trans} \/ EndAfter(Tail(events), 0, desired, EndTypes, u)
        <5>1. \/ u \in {worker.active, worker.trans}
              \/ EndAfter(events, 1, desired, EndTypes, u)
          BY <1>2, <1>3, <1>u, IInvFields DEF Related, Owed, Heard
        <5>2. EndAfter(events, 1, desired, EndTypes, u) => EndAfter(Tail(events), 1 - 1, desired, EndTypes, u)
          BY <1>2, IInvFields, EndTaken
        <5> QED
          BY <5>1, <5>2
      <4>2. ASSUME NEW i \in 1..Len(Tail(events)), Tail(events)[i].type = "SpeechStarted"
            PROVE  n2.pending < Tail(events)[i].utt /\ n2.sent < Tail(events)[i].utt
        <5>1. /\ i + 1 \in 1..Len(events) /\ Tail(events)[i] = events[i + 1]
              /\ events[i + 1].utt \in Nat /\ 1 < i + 1
          BY <1>2, IInvFields, Taken, EventFields
        <5>2. u < events[i + 1].utt
          BY <1>2, <1>u, <4>2, <5>1, IInvFields DEF Related, Stream
        <5> QED
          BY <3>3, <1>2, <1>w, <5>1, <5>2
      <4>3. n2.sent < worker.next /\ (n2.sent # None => settled[n2.sent] = 1)
        BY <3>2, <3>3, <3>5 DEF Related, Holds
      <4> QED
        BY <1>2, <1>3, <1>w, <3>3, <4>1, <4>2, <4>3 DEF Holds
    <3>7. /\ Related(worker, Tail(events), settled, desired, commands', n2)
          /\ Served(worker, queue, Tail(events), desired, commands', n2, whisper)
      BY <3>2, <3>3, <3>5, <3>6 DEF Related, Results, Served
    <3>8. commands' \in Seq(Commands) /\ Wakes(worker, mic, commands', desired')
      BY <1>2, <3>4 DEF Linked
    <3> QED
      BY <1>1, <1>2, <3>1, <3>3, <3>7, <3>8, WindowKeeps
  <2> QED
    BY <2>3, <2>4
<1>4. CASE ~Heard
  <2>1. UNCHANGED <<commands, window>> /\ Head(events).rev # desired
    BY <1>4 DEF HearSpeech, Heard
  <2> QED
    BY <1>1, <2>1, UnheardKeeps
<1> QED
  BY <1>3, <1>4

LEMMA HearRequestKeeps ==
    ASSUME IInv, NEW known \in BOOLEAN, HearRequest(known)
    PROVE  IInv'
<1> DEFINE u == Head(events).utt
<1>1. WindowTakes("TranscriptionRequested") /\ incidents' \in 0..MaxIncidents
  <2>1. /\ WindowTakes("TranscriptionRequested")
        /\ known \/ incidents < MaxIncidents
        /\ incidents' = IF known THEN incidents ELSE incidents + 1
    BY DEF HearRequest
  <2>2. incidents \in 0..MaxIncidents
    BY IInvFields
  <2>3. incidents' \in 0..MaxIncidents
    BY <2>1, <2>2, IncidentStays
  <2> QED
    BY <2>1, <2>3
<1>2. /\ events # <<>> /\ events' = Tail(events) /\ Tail(events) \in Seq(Events)
      /\ Head(events) = events[1] /\ Head(events).type = "TranscriptionRequested"
      /\ 1 \in 1..Len(events)
      /\ desired' = desired /\ desired' \in Nat /\ OnlyWindow
      /\ u \in Utterances /\ u \in 0..MaxUtterances /\ u \in Nat /\ u < worker.next
      /\ u # None /\ (Heard => worker.rev = desired)
      /\ (Heard => Head(events) = Event("TranscriptionRequested", desired, u))
  BY <1>1, WindowHears, UtteranceIs DEF Heard
<1>u. u = Head(events).utt
  OBVIOUS
<1> HIDE DEF u
<1>3. CASE Heard
  <2> DEFINE cs1 == CancelRemote(commands)
             n1 == WithoutRequest(window)
             job == [rev |-> desired, utt |-> u]
             c == Finished(desired, u, FALSE)
  <2>i. /\ events \in Seq(Events) /\ worker \in Workers /\ desired \in Nat
        /\ Related(worker, events, settled, desired, commands, window)
    BY IInvFields
  <2>1. /\ commands' = cs1 \o (IF known THEN <<>> ELSE <<c>>)
        /\ window' = [window EXCEPT !.remote = IF known THEN job ELSE NoJob]
    BY <1>3 DEF HearRequest, u
  <2>2. Linked(cs1, n1)
    BY LinkedNow, ForgottenIs
  <2>3. /\ n1 \in Windows /\ n1.remote = NoJob /\ n1.pending = window.pending
        /\ n1.sent = window.sent /\ n1.closed = window.closed
    BY IInvFields, WindowIs, Bounds
  <2>j. job \in Job /\ job.rev = desired /\ job.utt = u /\ job # NoJob
    BY <2>i, <1>2 DEF Job, NoJob
  <2>c. c \in Commands /\ c.type = "TranscriptionFinished" /\ c.rev = desired /\ c.utt = u
        /\ c = Finished(desired, u, FALSE)
    <3>1. desired \in Nat /\ u \in Utterances /\ FALSE \in BOOLEAN
      BY <2>i, <1>2
    <3> QED
      BY <3>1 DEF Commands, Finished
  <2>n. known => /\ window' \in Windows /\ window'.remote = job /\ window'.pending = n1.pending
                 /\ window'.sent = n1.sent /\ window'.closed = n1.closed
    <3>1. window \in Windows
      BY IInvFields
    <3> HIDE DEF n1, job
    <3> QED
      BY <2>1, <2>3, <2>j, <3>1 DEF Windows
  <2>m. ~known => window' = n1
    BY <2>1 DEF WithoutRequest
  <2>k. /\ known => commands' = cs1
        /\ ~known => commands' = Append(cs1, c)
        /\ cs1 \in Seq(Commands)
    <3>1. cs1 \in Seq(Commands)
      BY <2>2 DEF Linked
    <3> HIDE DEF cs1, c
    <3>2. cs1 \o <<>> = cs1 /\ cs1 \o <<c>> = Append(cs1, c)
      BY <3>1
    <3> QED
      BY <2>1, <3>1, <3>2
  <2>j2. job = [rev |-> desired, utt |-> u]
    OBVIOUS
  <2> HIDE DEF cs1, n1, job, c
  <2>4. Related(worker, Tail(events), settled, desired, cs1, n1)
    BY <1>2, <2>2, RelatedTaken DEF EndTypes
  <2>5. /\ worker.backend = "remote" /\ Past(u, worker)
        /\ u = worker.trans \/ EndAfter(Tail(events), 0, desired, {"UtteranceCancelled"}, u)
    <3>1. worker.backend = "remote"
      BY <2>i, <1>2, <1>3, <1>u DEF Related, Owed, Heard
    <3>2. u = worker.trans \/ EndAfter(events, 1, desired, {"UtteranceCancelled"}, u)
      BY <2>i, <1>2, <1>3, <1>u DEF Related, Owed, Heard
    <3>3. EndAfter(events, 1, desired, {"UtteranceCancelled"}, u)
              => EndAfter(Tail(events), 1 - 1, desired, {"UtteranceCancelled"}, u)
      BY <2>i, <1>2, EndTaken
    <3>4. u # worker.active
      BY <2>i, <1>2, <1>u DEF Related, Stream
    <3> QED
      BY <1>2, <3>1, <3>2, <3>3, <3>4 DEF Past
  <2>6. ~Requests(Tail(events), desired, u)
    <3>1. ASSUME NEW i \in 1..Len(Tail(events)), Tail(events)[i].type = "TranscriptionRequested"
          PROVE  Tail(events)[i].utt # u
      <4>1. /\ i + 1 \in 1..Len(events) /\ Tail(events)[i] = events[i + 1] /\ 1 < i + 1
            /\ events[i + 1].utt \in Nat
        BY <2>i, <1>2, Taken, EventFields
      <4>2. u < events[i + 1].utt
        BY <2>i, <1>2, <1>u, <3>1, <4>1 DEF Related, Stream
      <4> QED
        BY <1>2, <4>1, <4>2
    <3> QED
      BY <3>1 DEF Requests, Event
  <2>7. Requests(events, desired, u)
    BY <1>2, <1>3 DEF Requests
  <2>8. Served(worker, queue, events, desired, cs1, n1, whisper)
    BY <2>2 DEF Linked
  <2>9. \A v : v # u => (Requests(events, desired, v) => Requests(Tail(events), desired, v))
    <3>1. ASSUME NEW v, v # u
          PROVE  Head(events) # Event("TranscriptionRequested", desired, v)
      BY <3>1, <1>u DEF Event
    <3> QED
      BY <3>1, <2>i, <1>2, RequestsTaken
  <2>10. CASE known
    <3>1. Holds(worker, Tail(events), settled, desired, window')
      <4>1. /\ window'.remote # NoJob /\ window'.remote.rev = desired /\ window'.remote.utt = u
            /\ window'.pending = n1.pending /\ window'.sent = n1.sent
        BY <2>n, <2>j, <2>10
      <4> QED
        BY <4>1, <1>2, <1>3, <2>4, <2>5, <2>6 DEF Related, Holds
    <3>2. Results(worker, Tail(events), desired, cs1, window')
      <4>1. ASSUME NEW i \in 1..Len(cs1), cs1[i].type = "TranscriptionFinished", cs1[i].rev = desired
            PROVE  window'.remote # [rev |-> desired, utt |-> cs1[i].utt]
        <5>1. ~Requests(events, desired, cs1[i].utt)
          BY <2>2, <4>1 DEF Linked, Related, Results
        <5>2. cs1[i].utt # u
          BY <5>1, <2>7
        <5> QED
          BY <5>2, <2>n, <2>j, <2>10
      <4> QED
        BY <4>1, <2>4 DEF Related, Results
    <3>3. Served(worker, queue, Tail(events), desired, cs1, window', whisper)
      <4>1. CASE worker.trans = u
        <5>1. window'.remote = [rev |-> desired, utt |-> worker.trans]
          BY <4>1, <2>n, <2>10, <2>j2
        <5> QED
          BY <5>1, <2>5 DEF Served
      <4>2. CASE worker.trans # u
        <5>1. n1.remote # [rev |-> desired, utt |-> worker.trans] \/ worker.trans = None
          BY <2>3 DEF NoJob
        <5>2. n1.closed = window'.closed
          BY <2>n, <2>10
        <5> QED
          BY <4>2, <5>1, <5>2, <2>8, <2>9 DEF Served
      <4> QED
        BY <4>1, <4>2
    <3>4. /\ commands' \in Seq(Commands) /\ window' \in Windows
          /\ Wakes(worker, mic, commands', desired')
      BY <2>k, <2>n, <2>10, <2>2, <1>2 DEF Linked
    <3>5. Related(worker, Tail(events), settled, desired, cs1, window')
      BY <2>4, <3>1, <3>2 DEF Related
    <3> QED
      BY <1>1, <1>2, <2>k, <2>10, <3>3, <3>4, <3>5, WindowKeeps
  <2>11. CASE ~known
    <3>a. /\ Len(cs1) \in Nat /\ Len(commands') = Len(cs1) + 1 /\ commands'[Len(cs1) + 1] = c
          /\ commands' \in Seq(Commands) /\ \A i \in 1..Len(cs1) : commands'[i] = cs1[i]
      <4>1. commands' = Append(cs1, c) /\ cs1 \in Seq(Commands) /\ c \in Commands
        BY <2>k, <2>c, <2>11
      <4> QED
        BY <4>1, Appended
    <3>b. \A i \in 1..Len(commands') : i \in 1..Len(cs1) \/ i = Len(cs1) + 1
      BY <3>a
    <3>c. \A i \in 1..Len(cs1) : i \in 1..Len(commands')
      BY <3>a
    <3>1. Results(worker, Tail(events), desired, commands', n1)
      <4>1. ASSUME NEW i \in 1..Len(commands')
            PROVE  /\ commands'[i].type = "Configure" => commands'[i].rev <= desired
                   /\ commands'[i].type = "TranscriptionFinished" =>
                          /\ commands'[i].rev <= worker.rev /\ Past(commands'[i].utt, worker)
                          /\ commands'[i].rev = desired =>
                                 /\ ~Requests(Tail(events), desired, commands'[i].utt)
                                 /\ n1.remote # [rev |-> desired, utt |-> commands'[i].utt]
        <5>1. CASE i \in 1..Len(cs1)
          BY <5>1, <3>a, <2>4 DEF Related, Results
        <5>2. CASE i = Len(cs1) + 1
          <6>1. commands'[i] = c
            BY <5>2, <3>a
          <6>2. c.rev <= worker.rev
            BY <2>c, <2>i, <1>2, <1>3
          <6>3. n1.remote # [rev |-> desired, utt |-> u]
            BY <2>3, <2>j, <2>j2
          <6> QED
            BY <6>1, <6>2, <6>3, <2>c, <2>5, <2>6
        <5> QED
          BY <5>1, <5>2, <3>b
      <4> QED
        BY <4>1 DEF Results
    <3>2. Served(worker, queue, Tail(events), desired, commands', n1, whisper)
      <4>1. CASE worker.trans = u
        <5>1. commands'[Len(cs1) + 1] = Finished(desired, worker.trans, FALSE)
              /\ Len(cs1) + 1 \in 1..Len(commands')
          BY <4>1, <3>a, <2>c
        <5> QED
          BY <5>1 DEF Served
      <4>2. CASE worker.trans # u
        <5>1. n1.remote # [rev |-> desired, utt |-> worker.trans] \/ worker.trans = None
          BY <2>3 DEF NoJob
        <5> QED
          BY <4>2, <5>1, <3>a, <3>c, <2>8, <2>9 DEF Served
      <4> QED
        BY <4>1, <4>2
    <3>3. Related(worker, Tail(events), settled, desired, commands', n1)
      BY <2>4, <3>1 DEF Related
    <3>4. Wakes(worker, mic, commands', desired')
      BY <2>2, <2>k, <2>c, <2>11, <1>2, WakesAppended DEF Linked
    <3> QED
      BY <1>1, <1>2, <2>3, <2>m, <2>11, <3>a, <3>2, <3>3, <3>4, WindowKeeps
  <2> QED
    BY <2>10, <2>11
<1>4. CASE ~Heard
  <2>1. UNCHANGED <<commands, window>> /\ Head(events).rev # desired
    BY <1>4 DEF HearRequest, Heard
  <2> QED
    BY <1>1, <2>1, UnheardKeeps
<1> QED
  BY <1>3, <1>4

LEMMA RemoteDoneKeeps ==
    ASSUME IInv, NEW ok \in BOOLEAN, RemoteDone(ok)
    PROVE  IInv'
<1> DEFINE c == Finished(window.remote.rev, window.remote.utt, ok)
           n1 == WithoutRequest(window)
<1>1. /\ window.remote # NoJob /\ commands' = Append(commands, c)
      /\ window' = n1 /\ UNCHANGED <<desired, events>> /\ OnlyWindow
      /\ incidents' \in 0..MaxIncidents
  <2>1. /\ ok \/ incidents < MaxIncidents
        /\ incidents' = IF ok THEN incidents ELSE incidents + 1
    BY DEF RemoteDone
  <2>2. incidents' \in 0..MaxIncidents
    BY <2>1, IInvFields, IncidentStays
  <2> QED
    BY <2>2 DEF RemoteDone, WithoutRequest
<1>i. /\ window \in Windows /\ worker \in Workers /\ desired \in Nat /\ commands \in Seq(Commands)
      /\ Holds(worker, events, settled, desired, window) /\ Linked(commands, window)
  BY IInvFields, LinkedNow DEF Related
<1>2. /\ window.remote.rev = desired /\ worker.rev = desired
      /\ window.remote.utt \in Utterances /\ Past(window.remote.utt, worker)
      /\ ~Requests(events, desired, window.remote.utt)
  <2>1. /\ window.remote.rev = desired /\ worker.rev = desired
        /\ window.remote.utt # None /\ Past(window.remote.utt, worker)
        /\ ~Requests(events, desired, window.remote.utt)
    BY <1>i, <1>1 DEF Holds
  <2> QED
    BY <1>i, <2>1, WindowFields, UtteranceIs
<1>3. /\ c \in Commands /\ c.type = "TranscriptionFinished" /\ c.rev = desired
      /\ c.utt = window.remote.utt /\ c = Finished(window.remote.rev, window.remote.utt, ok)
  BY <1>i, <1>2, CommandIs
<1>4. /\ n1 \in Windows /\ n1.remote = NoJob /\ n1.pending = window.pending
      /\ n1.sent = window.sent /\ n1.closed = window.closed
  BY <1>i, WindowIs, Bounds
<1> HIDE DEF c, n1
<1>a. /\ Len(commands) \in Nat /\ Len(commands') = Len(commands) + 1 /\ commands'[Len(commands) + 1] = c
      /\ commands' \in Seq(Commands) /\ \A i \in 1..Len(commands) : commands'[i] = commands[i]
  BY <1>1, <1>3, <1>i, Appended
<1>b. \A i \in 1..Len(commands') : i \in 1..Len(commands) \/ i = Len(commands) + 1
  BY <1>a
<1>c. \A i \in 1..Len(commands) : i \in 1..Len(commands')
  BY <1>a
<1>5. Holds(worker, events, settled, desired, n1)
  BY <1>i, <1>4 DEF Holds
<1>6. Results(worker, events, desired, commands', n1)
  <2>1. ASSUME NEW i \in 1..Len(commands')
        PROVE  /\ commands'[i].type = "Configure" => commands'[i].rev <= desired
               /\ commands'[i].type = "TranscriptionFinished" =>
                      /\ commands'[i].rev <= worker.rev /\ Past(commands'[i].utt, worker)
                      /\ commands'[i].rev = desired => ~Requests(events, desired, commands'[i].utt)
    <3>1. CASE i \in 1..Len(commands)
      BY <3>1, <1>a, <1>i DEF Linked, Related, Results
    <3>2. CASE i = Len(commands) + 1
      BY <3>2, <1>a, <1>2, <1>3, <1>i
    <3> QED
      BY <3>1, <3>2, <1>b
  <2>2. ASSUME NEW i \in 1..Len(commands'), commands'[i].type = "TranscriptionFinished"
        PROVE  n1.remote # [rev |-> desired, utt |-> commands'[i].utt]
    <3>1. commands'[i] \in Commands
      BY <1>a
    <3>2. commands'[i].utt # None
      BY <2>2, <3>1, CommandFields, UtteranceIs
    <3> QED
      BY <3>2, <1>4 DEF NoJob
  <2> QED
    BY <2>1, <2>2 DEF Results
<1>7. Served(worker, queue, events, desired, commands', n1, whisper)
  <2>1. Served(worker, queue, events, desired, commands, window, whisper)
    BY <1>i DEF Linked
  <2>2. ASSUME window.remote = [rev |-> desired, utt |-> worker.trans]
        PROVE  \E i \in 1..Len(commands') : commands'[i] = Finished(desired, worker.trans, ok)
    <3>1. window.remote.utt = worker.trans /\ Len(commands) + 1 \in 1..Len(commands')
      BY <2>2, <1>a
    <3> QED
      BY <3>1, <1>a, <1>2, <1>3
  <2> QED
    BY <2>1, <2>2, <1>4, <1>a, <1>c DEF Served
<1>8. Linked(commands', window')
  <2>1. Wakes(worker, mic, commands', desired)
    BY <1>1, <1>3, <1>i, WakesAppended DEF Linked
  <2>2. Related(worker, events, settled, desired, commands', n1)
    BY <1>5, <1>6, <1>i DEF Linked, Related
  <2> QED
    BY <2>1, <2>2, <1>1, <1>4, <1>7, <1>a DEF Linked
<1> QED
  BY <1>1, <1>8, LinkedKeeps

LEMMA PressKeeps ==
    ASSUME IInv, Press
    PROVE  IInv'
<1> DEFINE n1 == [window EXCEPT !.held = TRUE, !.presses = @ + 1]
           c == Talk(desired, TRUE)
<1>1. /\ commands' = Append(Release(commands), c) /\ window' = n1 /\ OnlyWindow
      /\ UNCHANGED <<desired, events>> /\ incidents' = incidents
  BY DEF Press, ByUser
<1>2. Linked(Release(commands), window)
  BY LinkedNow, ReleaseKeeps
<1>3. c \in Commands /\ c.type = "PushToTalk"
  BY IInvFields, CommandIs
<1> HIDE DEF c
<1>4. Linked(commands', window)
  BY <1>1, <1>2, <1>3, ToldKeeps
<1>5. /\ n1 \in Windows /\ n1.remote = window.remote /\ n1.pending = window.pending
      /\ n1.sent = window.sent /\ n1.closed = window.closed
  <2>1. window \in Windows /\ window.presses + 1 \in Nat
    <3>1. window \in Windows
      BY IInvFields
    <3>2. window.presses \in Nat
      BY <3>1, WindowFields
    <3> QED
      BY <3>1, <3>2
  <2> DEFINE more == window.presses + 1
  <2>2. n1 = [window EXCEPT !.held = TRUE, !.presses = more] /\ more \in Nat
    BY <2>1
  <2> HIDE DEF n1, more
  <2> QED
    BY <2>1, <2>2 DEF Windows
<1> HIDE DEF n1
<1>6. Linked(commands', n1)
  BY <1>4, <1>5, LinkedForgets
<1> QED
  BY <1>1, <1>6, IInvFields, LinkedKeeps

LEMMA LetGoKeeps ==
    ASSUME IInv, LetGo
    PROVE  IInv'
<1> DEFINE n1 == [window EXCEPT !.held = FALSE]
<1>1. /\ commands' = Release(commands) /\ window' = n1 /\ OnlyWindow
      /\ UNCHANGED <<desired, events>> /\ incidents' = incidents
  BY DEF LetGo, ByUser
<1>2. Linked(commands', window)
  BY <1>1, LinkedNow, ReleaseKeeps
<1>3. /\ n1 \in Windows /\ n1.remote = window.remote /\ n1.pending = window.pending
      /\ n1.sent = window.sent /\ n1.closed = window.closed
  <2>1. window \in Windows
    BY IInvFields
  <2> QED
    BY <2>1 DEF Windows
<1> HIDE DEF n1
<1>4. Linked(commands', n1)
  BY <1>2, <1>3, LinkedForgets
<1> QED
  BY <1>1, <1>4, IInvFields, LinkedKeeps

LEMMA IncidentIs ==
    ASSUME IInv, AnIncident
    PROVE  incidents' \in 0..MaxIncidents
  BY IInvFields, Bounds DEF AnIncident

LEMMA StopIsKept ==
    ASSUME IInv, Stop
    PROVE  IInv'
<1> DEFINE c == Cancel(desired, window.pending)
           cs == IF window.pending = None THEN commands ELSE Append(commands, c)
<1>1. /\ commands' = CancelRemote(cs) /\ window' = Forgetful(window) /\ OnlyWindow
      /\ UNCHANGED <<desired, events>> /\ incidents' \in 0..MaxIncidents
  BY IncidentIs DEF Stop, ByUser, Forgetful
<1>2. Linked(cs, window)
  <2>1. CASE window.pending = None
    BY <2>1, LinkedNow
  <2>2. CASE window.pending # None
    <3>1. c \in Commands /\ c.type = "CancelTranscription"
      <4>1. window.pending \in Utterances /\ desired \in Nat
        BY <2>2, IInvFields, WindowFields, UtteranceIs
      <4> QED
        BY <4>1, CommandIs
    <3> HIDE DEF c
    <3>2. Linked(Append(commands, c), window)
      BY <3>1, LinkedNow, ToldKeeps
    <3> QED
      BY <2>2, <3>2
  <2> QED
    BY <2>1, <2>2
<1> HIDE DEF cs
<1>3. Linked(commands', window')
  BY <1>1, <1>2, ForgottenIs
<1> QED
  BY <1>1, <1>3, LinkedKeeps

LEMMA AgentMovesOnKeeps ==
    ASSUME IInv, NEW ends \in BOOLEAN, AgentMovesOn(ends)
    PROVE  IInv'
<1>1. /\ commands' = IF ends THEN CancelRemote(commands) ELSE commands
      /\ window' = [window EXCEPT !.remote = IF ends THEN NoJob ELSE @, !.pending = None]
      /\ OnlyWindow /\ UNCHANGED <<desired, events>> /\ incidents' \in 0..MaxIncidents
  BY IncidentIs DEF AgentMovesOn, ByUser
<1>2. Linked(commands', window')
  <2>1. CASE ends
    <3>1. commands' = CancelRemote(commands) /\ window' = Forgetful(window)
      BY <1>1, <2>1 DEF Forgetful
    <3> QED
      BY <3>1, LinkedNow, ForgottenIs
  <2>2. CASE ~ends
    <3>1. window \in Windows /\ None \in 0..MaxUtterances
      BY IInvFields, Bounds DEF None
    <3>2. commands' = commands /\ window' = Waiting(window, None)
      BY <1>1, <2>2, <3>1 DEF Waiting, Windows
    <3>3. /\ window' \in Windows /\ window'.remote = window.remote /\ window'.pending = None
          /\ window'.sent = window.sent /\ window'.closed = window.closed
      BY <3>1, <3>2, WindowIs
    <3> QED
      BY <3>2, <3>3, LinkedNow, LinkedForgets
  <2> QED
    BY <2>1, <2>2
<1> QED
  BY <1>1, <1>2, LinkedKeeps

LEMMA CloseKeeps ==
    ASSUME IInv, Close
    PROVE  IInv'
<1> DEFINE n1 == [window EXCEPT !.remote = NoJob, !.pending = None, !.held = FALSE, !.closed = TRUE]
           cs == Append(Release(commands), Shutdown)
<1>1. /\ commands' = CancelRemote(cs) /\ window' = n1 /\ OnlyWindow
      /\ UNCHANGED <<desired, events>> /\ incidents' = incidents
  BY DEF Close, ByUser
<1>2. Linked(Release(commands), window)
  BY LinkedNow, ReleaseKeeps
<1>3. Linked(cs, window)
  BY <1>2, CommandIs, ToldKeeps
<1>4. /\ n1 \in Windows /\ n1.remote = NoJob /\ n1.pending = None
      /\ n1.sent = window.sent /\ n1.closed
  <2>1. window \in Windows /\ NoJob \in Job /\ None \in 0..MaxUtterances
    BY IInvFields, Bounds DEF None, NoJob, Job
  <2> QED
    BY <2>1 DEF Windows
<1> HIDE DEF n1, cs
<1>5. Linked(commands', n1)
  <2>1. /\ Linked(CancelRemote(cs), window)
        /\ window.remote # NoJob =>
               \E i \in 1..Len(CancelRemote(cs)) :
                   CancelRemote(cs)[i] = Cancel(window.remote.rev, window.remote.utt)
    BY <1>3, CancelRemoteKeeps
  <2> QED
    BY <1>1, <1>4, <2>1, LinkedForgets
<1> QED
  BY <1>1, <1>5, IInvFields, LinkedKeeps

LEMMA UserConfigureKeeps ==
    ASSUME IInv, NEW setting \in Settings, UserConfigure(setting)
    PROVE  IInv'
<1> DEFINE n1 == [window EXCEPT !.mode = setting[1], !.remote = NoJob, !.pending = None, !.held = FALSE]
           d2 == desired + 1
           c == Configure(d2, setting)
           cs == Append(Release(commands), c)
<1>i. /\ window \in Windows /\ worker \in Workers /\ desired \in Nat /\ events \in Seq(Events)
      /\ commands \in Seq(Commands) /\ worker.rev <= desired /\ worker.rev \in Nat
      /\ Related(worker, events, settled, desired, commands, window)
      /\ Wakes(worker, mic, commands, desired)
  BY IInvFields, WorkerFields DEF Related, Stream
<1>1. /\ commands' = CancelRemote(cs) /\ window' = n1 /\ OnlyWindow
      /\ desired' = d2 /\ events' = events /\ incidents' \in 0..MaxIncidents
  BY IncidentIs DEF UserConfigure, ByUser
<1>2. /\ n1 \in Windows /\ n1.remote = NoJob /\ n1.pending = None /\ n1.sent = window.sent
  <2>1. /\ NoJob \in Job /\ None \in 0..MaxUtterances /\ window \in Windows
        /\ setting[1] \in {"off", "push", "auto"}
    BY <1>i, Bounds, VoiceAssumption DEF None, NoJob, Job
  <2> QED
    BY <2>1 DEF Windows
<1>3. d2 \in Nat /\ d2 > desired /\ worker.rev # d2
  BY <1>i
<1>4. c \in Commands /\ c.type = "Configure" /\ c.rev = d2
  BY <1>3, CommandIs
<1>r. Linked(Release(commands), window)
  BY LinkedNow, ReleaseKeeps
<1> HIDE DEF n1, d2, c
\* The results stay in the channel; the rest of what is added is none.
<1>5. /\ commands' \in Seq(Commands)
      /\ \A i \in 1..Len(commands') :
             /\ commands'[i].type = "Configure" => commands'[i].rev <= d2
             /\ commands'[i].type = "TranscriptionFinished" =>
                    commands'[i].rev <= worker.rev /\ Past(commands'[i].utt, worker)
  <2> DEFINE Fine(q) == /\ q \in Seq(Commands)
                        /\ \A i \in 1..Len(q) :
                             /\ q[i].type = "Configure" => q[i].rev <= d2
                             /\ q[i].type = "TranscriptionFinished" =>
                                    q[i].rev <= worker.rev /\ Past(q[i].utt, worker)
  <2>1. ASSUME NEW q, Fine(q), NEW e \in Commands,
               e.type = "Configure" => e.rev <= d2, e.type # "TranscriptionFinished"
        PROVE  Fine(Append(q, e))
    <3> DEFINE q2 == Append(q, e)
    <3>1. /\ q2 \in Seq(Commands) /\ Len(q) \in Nat /\ Len(q2) = Len(q) + 1
          /\ q2[Len(q) + 1] = e /\ \A i \in 1..Len(q) : q2[i] = q[i]
      BY <2>1, Appended
    <3> HIDE DEF q2
    <3>2. \A i \in 1..Len(q2) : i \in 1..Len(q) \/ i = Len(q) + 1
      BY <3>1
    <3>3. Fine(q2)
      BY <2>1, <3>1, <3>2
    <3> QED
      BY <3>3 DEF q2
  <2>2. Fine(Release(commands))
    <3>1. \A e \in Commands : e.type = "Configure" => e.rev \in Nat
      BY CommandFields
    <3>3. /\ Release(commands) \in Seq(Commands)
          /\ Results(worker, events, desired, Release(commands), window)
      BY <1>r DEF Linked, Related
    <3> DEFINE q == Release(commands)
    <3> HIDE DEF q
    <3>4. ASSUME q \in Seq(Commands), Results(worker, events, desired, q, window)
          PROVE  Fine(q)
      <4>1. ASSUME NEW i \in 1..Len(q), q[i].type = "Configure"
            PROVE  q[i].rev <= d2
        <5>1. q[i] \in Commands
          BY <3>4, <4>1
        <5>2. q[i].rev <= desired
          BY <3>4, <4>1 DEF Results
        <5>3. q[i].rev \in Nat
          BY <4>1, <5>1, <3>1
        <5> QED
          BY <5>2, <5>3, <1>i, <1>3
      <4> QED
        BY <3>4, <4>1 DEF Results
    <3> QED
      BY <3>3, <3>4 DEF q
  <2>c. window.remote # NoJob =>
            /\ Cancel(window.remote.rev, window.remote.utt) \in Commands
            /\ Cancel(window.remote.rev, window.remote.utt).type = "CancelTranscription"
    <3>1. ASSUME window.remote # NoJob
          PROVE  window.remote.rev \in Nat /\ window.remote.utt \in Utterances
      <4>1. window.remote.rev \in Nat /\ window.remote.utt \in 0..MaxUtterances
        BY <1>i, WindowFields
      <4>2. window.remote.utt # None
        BY <1>i, <3>1 DEF Related, Holds
      <4> QED
        BY <4>1, <4>2, UtteranceIs
    <3> QED
      BY <3>1, CommandIs
  <2>d. c.type = "Configure" => c.rev <= d2
    BY <1>3, <1>4
  <2>e. c.type # "TranscriptionFinished"
    BY <1>4
  <2> HIDE DEF Fine
  <2>3. Fine(cs)
    BY <2>1, <2>2, <2>d, <2>e, <1>4
  <2> HIDE DEF cs
  <2>4. Fine(CancelRemote(cs))
    <3>1. CASE window.remote = NoJob
      BY <2>3, <3>1 DEF CancelRemote
    <3>2. CASE window.remote # NoJob
      <4>1. CancelRemote(cs) = Append(cs, Cancel(window.remote.rev, window.remote.utt))
        BY <3>2 DEF CancelRemote
      <4>2. Cancel(window.remote.rev, window.remote.utt).type \notin {"Configure", "TranscriptionFinished"}
        BY <2>c, <3>2
      <4> QED
        BY <2>1, <2>3, <2>c, <3>2, <4>1, <4>2
    <3> QED
      BY <3>1, <3>2
  <2> QED
    BY <1>1, <2>4 DEF Fine
<1> HIDE DEF cs
<1>6. Related(worker, events, settled, d2, commands', n1)
  <2>e. \A i \in 1..Len(events) : events[i] \in Events /\ events[i].rev \in Nat /\ events[i].utt \in Nat
    BY <1>i, EventFields
  <2>1. Stream(worker, events, settled, d2)
    BY <1>i, <1>3 DEF Related, Stream
  <2>2. \A i \in 1..Len(events) : events[i].rev # d2
    BY <1>i, <1>3, <2>e DEF Related, Stream
  <2>3. Owed(worker, events, d2)
    BY <2>2 DEF Owed
  <2>4. Holds(worker, events, settled, d2, n1)
    <3>1. n1.sent < worker.next /\ (n1.sent # None => settled[n1.sent] = 1)
      BY <1>i, <1>2 DEF Related, Holds
    <3>2. ASSUME NEW i \in 1..Len(events), events[i].type = "SpeechStarted"
          PROVE  n1.pending < events[i].utt /\ n1.sent < events[i].utt
      <4>1. window.pending < events[i].utt /\ window.sent < events[i].utt /\ window.pending \in Nat
        BY <3>2, <1>i, WindowFields DEF Related, Holds
      <4> QED
        BY <4>1, <1>2, <2>e DEF None
    <3> QED
      BY <1>2, <3>1, <3>2 DEF Holds
  <2>5. Results(worker, events, d2, commands', n1)
    <3>1. ASSUME NEW i \in 1..Len(commands'), commands'[i].type = "TranscriptionFinished"
          PROVE  commands'[i].rev # d2
      <4>1. commands'[i].rev \in Nat /\ commands'[i].rev <= worker.rev
        BY <3>1, <1>5, CommandFields
      <4> QED
        BY <4>1, <1>i, <1>3
    <3> QED
      BY <1>5, <3>1 DEF Results
  <2> QED
    BY <2>1, <2>3, <2>4, <2>5 DEF Related
<1>7. Served(worker, queue, events, d2, commands', n1, whisper)
  BY <1>3 DEF Served
<1>8. Wakes(worker, mic, commands', d2)
  BY <1>3, <1>i DEF Wakes
<1> QED
  BY <1>1, <1>2, <1>3, <1>5, <1>6, <1>7, <1>8, <1>i, WindowKeeps

-----------------------------------------------------------------------------
(* The theorems.                                                           *)

LEMMA InitHolds ==
    ASSUME Init
    PROVE  IInv
<1>1. PICK setting \in Settings : commands = <<Configure(1, setting)>>
  BY DEF Init
<1>2. /\ Configure(1, setting) \in Commands /\ Configure(1, setting).type = "Configure"
      /\ Configure(1, setting).rev = 1 /\ Configure(1, setting).setting = setting
  <2>1. 1 \in Nat
    OBVIOUS
  <2>2. Configure(1, setting).setting = setting
    BY DEF Configure
  <2> QED
    BY <2>1, <2>2, CommandIs
<1> DEFINE c == Configure(1, setting)
<1>c. commands = <<c>>
  BY <1>1
<1>d. c \in Commands /\ c.type = "Configure" /\ c.rev = 1 /\ c.setting = setting
  BY <1>2
<1> HIDE DEF c
<1>3. commands \in Seq(Commands) /\ Len(commands) = 1 /\ commands[1] = c
  BY <1>c, <1>d
<1>4. /\ desired = 1 /\ events = <<>> /\ incidents = 0
      /\ mic = SilentMic /\ settled = [u \in Utterances |-> 0]
  BY DEF Init
<1>5. /\ worker \in Workers /\ worker.pc = "wait" /\ worker.rev = 0 /\ worker.mode = "off"
      /\ worker.capture = None /\ worker.manual = "none" /\ worker.active = None
      /\ worker.next = 1 /\ worker.pending = FALSE /\ worker.trans = None
  <2>1. worker = [pc |-> "wait", rev |-> 0, mode |-> "off", backend |-> "none", vad |-> FALSE,
                  capture |-> None, manual |-> "none",
                  active |-> None, next |-> 1, pending |-> FALSE, trans |-> None]
    BY DEF Init
  <2>2. 0 \in 0..MaxUtterances /\ 1 \in 1..(MaxUtterances + 1)
    BY Bounds
  <2> QED
    BY <2>1, <2>2 DEF Workers, None
<1>j. NoJob \in Job /\ NoJob.utt = None
  BY Bounds DEF NoJob, Job, None
<1>6. /\ queue \in Queues /\ queue.job = NoJob /\ queue.cancelled = NoJob /\ queue.shutdown = FALSE
      /\ whisper \in Whispers /\ whisper.pc = "wait" /\ whisper.job = NoJob
  BY <1>j DEF Init, Queues, Whispers
<1>7. /\ window \in Windows /\ window.remote = NoJob /\ window.pending = None /\ window.sent = None
  <2>1. window = [mode |-> setting[1], remote |-> NoJob, pending |-> None,
                  sent |-> None, held |-> FALSE, presses |-> 0, closed |-> FALSE]
    <3>1. window = [mode |-> commands[1].setting[1], remote |-> NoJob, pending |-> None,
                    sent |-> None, held |-> FALSE, presses |-> 0, closed |-> FALSE]
      BY DEF Init
    <3>2. commands[1].setting = setting
      BY <1>3, <1>d
    <3> QED
      BY <3>1, <3>2
  <2>2. setting[1] \in {"off", "push", "auto"} /\ None \in 0..MaxUtterances
    BY VoiceAssumption, Bounds DEF None
  <2> QED
    BY <2>1, <2>2, <1>j DEF Windows
<1>8. mic \in Mics /\ settled \in Ends /\ events \in Seq(Events) /\ Len(events) = 0
  BY <1>4 DEF Mics, SilentMic, Ends
<1>9. /\ Own \in Owned /\ Own.w = worker /\ Own.q = queue /\ Own.ev = events /\ Own.ends = settled
  <2>1. Own = [w |-> worker, m |-> mic, q |-> queue, ev |-> events, ends |-> settled]
    BY DEF Own
  <2> QED
    BY <2>1, <1>5, <1>6, <1>8 DEF Owned
<1>10. Fields(worker) /\ Recording(worker) /\ Wakes(worker, mic, commands, desired)
  BY <1>5 DEF Fields, Recording, Wakes, Works, None
<1>11. Jobs(worker, queue, whisper)
  BY <1>5, <1>6, <1>j DEF Jobs, JobOK, Past, Works, None
<1>12. EndsOK(worker, settled)
  BY <1>4 DEF EndsOK
<1>13. Related(worker, events, settled, desired, commands, window)
  <2>1. Stream(worker, events, settled, desired) /\ Owed(worker, events, desired)
    BY <1>4, <1>5, <1>8 DEF Stream, Owed
  <2>2. Holds(worker, events, settled, desired, window)
    BY <1>5, <1>7, <1>8 DEF Holds, None
  <2>3. Results(worker, events, desired, commands, window)
    <3>1. \A i \in 1..Len(commands) : commands[i].type = "Configure" /\ commands[i].rev = 1
      BY <1>3, <1>d
    <3> QED
      BY <3>1, <1>4 DEF Results
  <2> QED
    BY <2>1, <2>2, <2>3 DEF Related
<1>14. Served(worker, queue, events, desired, commands, window, whisper)
  BY <1>5 DEF Served
<1>15. Kept(Own, desired, commands, window, whisper)
  BY <1>3, <1>4, <1>6, <1>7, <1>9, <1>10, <1>11, <1>12, <1>13, <1>14 DEF Kept, Typed
<1> QED
  BY <1>4, <1>10, <1>15, Bounds DEF IInv

LEMMA StutterKeeps ==
    ASSUME IInv, UNCHANGED vars
    PROVE  IInv'
<1>1. /\ worker' = worker /\ mic' = mic /\ queue' = queue /\ events' = events /\ settled' = settled
      /\ desired' = desired /\ commands' = commands /\ window' = window /\ whisper' = whisper
      /\ incidents' = incidents
  BY DEF vars
<1>2. Own' = Own
  BY <1>1 DEF Own
<1>3. Kept(Own', desired', commands', window', whisper')
  BY <1>1, <1>2 DEF IInv
<1> QED
  BY <1>1, <1>3 DEF IInv

LEMMA WorkerNextKeeps ==
    ASSUME IInv, WorkerNext
    PROVE  IInv'
<1>1. ASSUME NEW ok \in BOOLEAN, WorkerStep(ok)
      PROVE  IInv'
  <2>1. CASE WorkerConfigure(ok)
    BY <2>1, ConfigureKeeps
  <2>2. ASSUME NEW long \in BOOLEAN, WorkerTalk(long, ok)
        PROVE  IInv'
    BY <2>2, TalkKeeps
  <2>3. ASSUME NEW found \in {"none", "started", "complete", "broken"}, WorkerDrain(found, ok)
        PROVE  IInv'
    BY <2>3, DrainKeeps
  <2>4. CASE WorkerFinish(ok)
    BY <2>4, FinishKeeps
  <2>5. CASE WorkerCancel(ok)
    BY <2>5, CancelKeeps
  <2> QED
    BY <1>1, <2>1, <2>2, <2>3, <2>4, <2>5 DEF WorkerStep
<1>2. CASE WorkerAudio
  BY <1>2, AudioKeeps
<1>3. CASE WorkerCaptureFailed
  BY <1>3, CaptureFailedKeeps
<1>4. CASE WorkerShutdown
  BY <1>4, ShutdownKeeps
<1>5. CASE WorkerJoin
  BY <1>5, JoinKeeps
<1> QED
  BY <1>1, <1>2, <1>3, <1>4, <1>5 DEF WorkerNext

LEMMA StepKeeps ==
    ASSUME IInv, [Next]_vars
    PROVE  IInv'
<1>1. CASE WorkerNext
  BY <1>1, WorkerNextKeeps
<1>2. CASE WhisperNext
  <2>1. CASE WhisperTake
    BY <2>1, WhisperTakeKeeps
  <2>2. CASE WhisperSend
    BY <2>2, WhisperSendKeeps
  <2>3. ASSUME NEW ok \in BOOLEAN, WhisperCheck(ok)
        PROVE  IInv'
    BY <2>3, WhisperCheckKeeps
  <2> QED
    BY <1>2, <2>1, <2>2, <2>3 DEF WhisperNext
<1>3. CASE WindowNext
  <2>1. ASSUME NEW refresh \in BOOLEAN, HearSpeech(refresh)
        PROVE  IInv'
    BY <2>1, HearSpeechKeeps
  <2>2. CASE HearCancelled
    BY <2>2, HearCancelledKeeps
  <2>3. ASSUME NEW known \in BOOLEAN, HearRequest(known)
        PROVE  IInv'
    BY <2>3, HearRequestKeeps
  <2>4. ASSUME NEW wanted \in BOOLEAN, HearTranscript(wanted)
        PROVE  IInv'
    BY <2>4, HearTranscriptKeeps
  <2>5. CASE HearError
    BY <2>5, HearErrorKeeps
  <2> QED
    BY <1>3, <2>1, <2>2, <2>3, <2>4, <2>5 DEF WindowNext
<1>4. ASSUME NEW ok \in BOOLEAN, RemoteDone(ok)
      PROVE  IInv'
  BY <1>4, RemoteDoneKeeps
<1>5. ASSUME NEW lost \in BOOLEAN, Callback(lost)
      PROVE  IInv'
  BY <1>5, CallbackKeeps
<1>6. CASE DeviceFails
  BY <1>6, DeviceKeeps
<1>7. CASE Press
  BY <1>7, PressKeeps
<1>8. CASE LetGo
  BY <1>8, LetGoKeeps
<1>9. CASE Stop
  BY <1>9, StopIsKept
<1>10. CASE Close
  BY <1>10, CloseKeeps
<1>11. ASSUME NEW setting \in Settings, UserConfigure(setting)
       PROVE  IInv'
  BY <1>11, UserConfigureKeeps
<1>12. ASSUME NEW ends \in BOOLEAN, AgentMovesOn(ends)
       PROVE  IInv'
  BY <1>12, AgentMovesOnKeeps
<1>13. CASE Ended \/ UNCHANGED vars
  BY <1>13, StutterKeeps DEF Ended
<1> QED
  BY <1>1, <1>2, <1>3, <1>4, <1>5, <1>6, <1>7, <1>8, <1>9, <1>10, <1>11, <1>12, <1>13 DEF Next

\* Whatever the user, the devices, the models and the requests do, in whatever
\* order the two channels and the callback are served, the worker, its queue, the
\* Whisper thread and the window agree on who holds which utterance.
THEOREM InductiveInvariant == Spec => []IInv
<1>1. Init => IInv
  BY InitHolds
<1>2. IInv /\ [Next]_vars => IInv'
  BY StepKeeps
<1> QED
  BY <1>1, <1>2, PTL DEF Spec

LEMMA Among ==
    ASSUME NEW S, NEW q \in Seq(S)
    PROVE  \A i \in 1..Len(q) : q[i] \in Range(q)
  BY DEF Range

\* An end that is to be heard is an event the window finds.
LEMMA EndIsTold ==
    ASSUME IInv, NEW types, NEW u, EndAfter(events, 0, desired, types, u)
    PROVE  Told("Error", None) \/ \E type \in types : Told(type, u)
<1>1. PICK j \in 1..Len(events) :
          /\ 0 < j /\ events[j].rev = desired
          /\ events[j].type = "Error" \/ (events[j].type \in types /\ events[j].utt = u)
  BY DEF EndAfter
<1>2. events \in Seq(Events) /\ events[j] \in Events
  BY IInvFields, <1>1
<1>3. /\ events[j] = Event(events[j].type, desired, events[j].utt)
      /\ events[j].type = "Error" => events[j].utt = None
  BY <1>1, <1>2, EventFields
<1>4. events[j] \in Range(events)
  BY <1>2, Among
<1> QED
  BY <1>1, <1>3, <1>4 DEF Told

LEMMA CommandIsSent ==
    ASSUME IInv, NEW i \in 1..Len(commands)
    PROVE  Sent(commands[i])
  BY IInvFields, Among DEF Sent

\* Nothing that was said is left behind: while the agent waits for an utterance the
\* worker has it or the window will hear its end, and while the worker waits for a
\* transcription someone transcribes, has answered or has given up.
THEOREM VoiceWorkTheorem == Spec => []VoiceWorkHasOwner
<1>1. ASSUME IInv
      PROVE  VoiceWorkHasOwner
  <2>i. /\ worker \in Workers /\ queue \in Queues /\ window \in Windows
        /\ Fields(worker) /\ Jobs(worker, queue, whisper)
        /\ Related(worker, events, settled, desired, commands, window)
        /\ Served(worker, queue, events, desired, commands, window, whisper)
    BY <1>1, IInvFields
  <2>1. PendingVoiceHasOwner
    <3>1. SUFFICES ASSUME NEW u \in Utterances, window.pending = u
                   PROVE  \/ worker.rev = desired /\ u \in {worker.active, worker.trans}
                          \/ Told("UtteranceCancelled", u) \/ Told("TranscriptReady", u)
                          \/ Told("Error", None)
      BY DEF PendingVoiceHasOwner
    <3>2. /\ worker.rev = desired
          /\ u \in {worker.active, worker.trans} \/ EndAfter(events, 0, desired, EndTypes, u)
      <4>1. u # None
        BY UtteranceIs
      <4> QED
        BY <4>1, <2>i, <3>1 DEF Related, Holds
    <3>3. EndAfter(events, 0, desired, EndTypes, u) =>
              Told("Error", None) \/ \E type \in EndTypes : Told(type, u)
      BY <1>1, EndIsTold
    <3> QED
      BY <3>2, <3>3 DEF EndTypes
  <2>2. TranscriptionHasWorker
    <3> DEFINE job == [rev |-> desired, utt |-> worker.trans]
    <3>1. SUFFICES ASSUME worker.trans # None, worker.rev = desired, ~window.closed
                   PROVE  worker.pending /\ Transcribes(job)
      BY DEF TranscriptionHasWorker, Open
    <3>j. job.rev = desired /\ job.utt = worker.trans /\ job = [rev |-> desired, utt |-> worker.trans]
      OBVIOUS
    <3> HIDE DEF job
    <3>2. worker.pending
      BY <2>i, <3>1 DEF Fields
    <3>3. CASE \E i \in 1..Len(commands) : \E ok \in BOOLEAN :
                   commands[i] = Finished(desired, worker.trans, ok)
      BY <1>1, <3>2, <3>3, <3>j, CommandIsSent DEF Transcribes
    <3>4. CASE worker.backend = "local" /\ job \in {queue.job, whisper.job}
      <4>1. ~IsCancelled(job)
        <5>1. ~queue.shutdown
          BY <2>i, <3>1 DEF Jobs, Fields
        <5>2. queue.cancelled.utt \in Nat
          BY <2>i, JobFields DEF Queues
        <5>3. queue.cancelled.utt < worker.next /\ worker.trans + 1 = worker.next
              /\ queue.cancelled.utt # worker.trans
          BY <2>i, <3>1 DEF Jobs, Past, Fields
        <5>4. ~(worker.trans <= queue.cancelled.utt)
          BY <2>i, <5>2, <5>3, WorkerFields
        <5> QED
          BY <3>j, <5>1, <5>4 DEF IsCancelled
      <4> QED
        BY <3>2, <3>4, <4>1 DEF Transcribes
    <3>5. CASE worker.backend = "remote" /\ Requests(events, desired, worker.trans)
      <4>1. PICK i \in 1..Len(events) :
                events[i] = Event("TranscriptionRequested", desired, worker.trans)
        BY <3>5 DEF Requests
      <4>2. Told("TranscriptionRequested", worker.trans)
        BY <1>1, <4>1, IInvFields, Among DEF Told
      <4> QED
        BY <3>2, <3>5, <3>j, <4>2 DEF Transcribes
    <3>6. CASE worker.backend = "remote" /\ window.remote = job
      BY <3>2, <3>6 DEF Transcribes
    <3>7. CASE /\ worker.backend = "remote"
               /\ \E i \in 1..Len(commands) : commands[i] = Cancel(desired, worker.trans)
      BY <1>1, <3>2, <3>7, <3>j, CommandIsSent DEF Transcribes
    <3> QED
      BY <2>i, <3>1, <3>3, <3>4, <3>5, <3>6, <3>7, <3>j DEF Served
  <2> QED
    BY <2>1, <2>2 DEF VoiceWorkHasOwner
<1> QED
  BY <1>1, InductiveInvariant, PTL

\* The microphone is open only for a mode that listens or a key that was pressed,
\* and what it recorded for the current configuration wakes the worker.
THEOREM MicrophoneTheorem == Spec => []MicrophoneServesTheUser
<1>1. ASSUME IInv
      PROVE  MicrophoneServesTheUser
  <2>i. /\ worker \in Workers /\ Recording(worker) /\ Wakes(worker, mic, commands, desired)
    BY <1>1, IInvFields
  <2>1. SUFFICES ASSUME worker.capture # None
                 PROVE  /\ worker.pc \in {"wait", "drain"}
                        /\ \/ worker.mode = "auto" /\ worker.vad
                           \/ worker.mode = "push" /\ worker.manual # "none"
                        /\ \/ worker.pc = "drain" \/ worker.rev # desired
                           \/ ~mic.buffered
                           \/ Sent(AudioReady(worker.rev, worker.capture))
    BY DEF MicrophoneServesTheUser
  <2>2. /\ worker.pc \in {"wait", "drain"}
        /\ \/ worker.mode = "auto" /\ worker.vad
           \/ worker.mode = "push" /\ worker.manual # "none"
    BY <2>i, <2>1 DEF Recording, Works
  <2>3. ASSUME worker.pc = "wait", worker.rev = desired, mic.buffered
        PROVE  Sent(AudioReady(worker.rev, worker.capture))
    <3>1. \E i \in 1..Len(commands) : commands[i] = AudioReady(worker.rev, worker.capture)
      BY <2>i, <2>1, <2>3 DEF Wakes
    <3> QED
      BY <1>1, <3>1, CommandIsSent
  <2> QED
    BY <2>2, <2>3
<1> QED
  BY <1>1, InductiveInvariant, PTL

\* No remote request outlives what it was made for: the worker waits for it, or
\* the window is about to hear that nobody does.
THEOREM RequestTheorem == Spec => []RequestHasReader
<1>1. ASSUME IInv
      PROVE  RequestHasReader
  <2>1. SUFFICES ASSUME window.remote # NoJob
                 PROVE  /\ window.remote.rev = desired
                        /\ \/ worker.rev = desired /\ worker.trans = window.remote.utt
                           \/ Told("UtteranceCancelled", window.remote.utt) \/ Told("Error", None)
    BY DEF RequestHasReader
  <2>2. /\ window.remote.rev = desired /\ worker.rev = desired
        /\ \/ window.remote.utt = worker.trans
           \/ EndAfter(events, 0, desired, {"UtteranceCancelled"}, window.remote.utt)
    BY <1>1, <2>1, IInvFields DEF Related, Holds
  <2>3. EndAfter(events, 0, desired, {"UtteranceCancelled"}, window.remote.utt) =>
            \/ Told("Error", None)
            \/ \E type \in {"UtteranceCancelled"} : Told(type, window.remote.utt)
    BY <1>1, EndIsTold
  <2> QED
    BY <2>2, <2>3
<1> QED
  BY <1>1, InductiveInvariant, PTL

\* An utterance ends once, with its transcript or its cancellation, though results
\* and cancellations cross; and what the agent was given is what ended.
THEOREM UtteranceTheorem == Spec => []UtterancesEndOnce
<1>1. ASSUME IInv
      PROVE  UtterancesEndOnce
  <2>1. TypeOK
    BY <1>1, IInvFields DEF TypeOK, Workers, Mics, Queues, Whispers, Ends
  <2>2. \A u \in Utterances : settled[u] <= 1
    BY <1>1, IInvFields DEF EndsOK
  <2>3. /\ window.sent # None => settled[window.sent] = 1
        /\ window.pending # None => window.sent < window.pending
    BY <1>1, IInvFields DEF Related, Holds
  <2> QED
    BY <2>1, <2>2, <2>3 DEF UtterancesEndOnce
<1> QED
  BY <1>1, InductiveInvariant, PTL
====
