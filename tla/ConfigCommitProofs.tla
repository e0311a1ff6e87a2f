------------------------ MODULE ConfigCommitProofs ------------------------
(***************************************************************************)
(* For any number of writers and tool executions, any changes, failures    *)
(* and crashes: memory and file agree, the newest change of a domain       *)
(* stands and lasts, the screenshot permission is never wider than the     *)
(* file nor used after it was revoked, and a revocation is not undone.     *)
(***************************************************************************)
EXTENDS ConfigCommit, TLAPS

Places == {"idle", "reserving", "reserved", "locked", "prepared", "stored", "visible", "done"}
Holding == {"locked", "prepared", "stored", "visible"}  \* places of the holder of write_lock
Ahead == {"reserving", "reserved", "locked", "prepared", "stored"}  \* not effective yet
Loading == {"loop", "loaded1", "loaded2", "loaded3", "loaded4"}

Documents == [Domains -> Values]
Snapshots == [llm : Values, persona : Values, language : Values, generation : Nat]

WriterRecords == [pc : Places, domain : Domains, rev : Nat, value : Values, doc : Documents,
                  next : Snapshots, out : {"none", "superseded", "error", "applied", "crashed"}]
ToolRecords == [pc : Loading \cup {"idle", "refused", "capable", "capturing", "dispatched"},
                goal : {"ask", "check"}, requested : Nat, applied : Nat, allowed : Values,
                wanted : Values, cap : Nat, lease : BOOLEAN]

StoreOK ==
    /\ revision \in [Domains -> Nat]
    /\ file \in Documents /\ published \in Documents
    /\ recoverable \in SUBSET Documents /\ file \in recoverable
    /\ agent \in Snapshots /\ agent.generation # 0
    /\ permission \in [requested : Values, applied : Nat, retry : BOOLEAN]
    /\ faults \in 0 .. MaxFaults /\ crashes \in 0 .. MaxCrashes

\* A lock is held by whoever is between the steps that take and release it.
LocksOK ==
    /\ writers \in [Writers -> WriterRecords]
    /\ tools \in [Tools -> ToolRecords]
    /\ \A w \in Writers : (writeLock = w) <=> (writers[w].pc \in Holding)
    /\ \A w \in Writers : (revisionLock = w) <=> (writers[w].pc \in {"reserving", "stored"})

\* A revision was handed out once, and nobody has a later one than the counter.
RevisionOf(w) ==
    /\ writers[w].rev <= revision[writers[w].domain]
    /\ writers[w].pc \in {"idle"} => writers[w].rev = 0
    /\ writers[w].pc \in Ahead \cup {"visible"} => writers[w].rev # 0
    /\ writers[w].out = "applied" => writers[w].pc = "done" /\ writers[w].rev # 0
    /\ writers[w].pc \in {"reserving", "stored"} =>
          Secret(w) /\ writers[w].rev = revision["screenshot"]

RevisionsOK ==
    /\ \A w \in Writers : RevisionOf(w)
    /\ \A v, w \in Writers :
          (v # w /\ writers[v].domain = writers[w].domain /\ writers[v].rev = writers[w].rev)
              => writers[v].rev = 0

\* What the holder of write_lock has composed is still up to date.
WorkOf(w) ==
    /\ (writers[w].pc \in {"locked", "prepared"} /\ writers[w].domain \in AgentDomains)
          => writers[w].next = Candidate(w)
    /\ writers[w].pc = "prepared" => writers[w].doc = [file EXCEPT ![writers[w].domain] = writers[w].value]

WorkOK == \A w \in Writers : WorkOf(w)

\* The newest change of a domain is what memory and file say once it is visible,
\* and what a crash leaves once it was acknowledged.
Stands(w) ==
    ((writers[w].pc \in {"stored", "visible"} \/ writers[w].out = "applied")
        /\ writers[w].rev = revision[writers[w].domain]) =>
        /\ published[writers[w].domain] = writers[w].value
        /\ file[writers[w].domain] = writers[w].value

Lasts(w) ==
    (faults = 0 /\ writers[w].out = "applied" /\ writers[w].rev = revision[writers[w].domain]) =>
        \A d \in recoverable : d[writers[w].domain] = writers[w].value

ChangesOK == \A w \in Writers : Stands(w) /\ Lasts(w)

\* The permission in memory follows the file, and the revision that makes it count
\* is that of a change that was finished.
PermissionOK ==
    /\ published["screenshot"] = 1 => file["screenshot"] = 1
    /\ permission.applied <= revision["screenshot"]
    /\ \A w \in Writers : (Secret(w) /\ writers[w].pc \in Ahead) => permission.applied # writers[w].rev

\* What a tool has loaded is still true as long as no newer request was made.
Fresh(t) ==
    tools[t].requested = revision["screenshot"] =>
        /\ (tools[t].pc \in {"loaded2", "loaded3", "loaded4"} /\ tools[t].applied = tools[t].requested)
              => /\ permission.applied = revision["screenshot"]
                 /\ (tools[t].pc \in {"loaded3", "loaded4"} /\ tools[t].allowed = 1)
                       => published["screenshot"] = 1
                 /\ (tools[t].pc = "loaded4" /\ tools[t].wanted = 1) => permission.requested = 1

ToolOK(t) ==
    /\ tools[t].requested <= revision["screenshot"] /\ tools[t].cap <= revision["screenshot"]
    /\ tools[t].lease => tools[t].goal = "check"
    /\ (tools[t].goal = "check" /\ tools[t].pc \in Loading) => tools[t].lease
    /\ tools[t].pc = "capturing" => tools[t].lease
    /\ tools[t].pc = "idle" => tools[t].goal = "ask"
    /\ Fresh(t)
    /\ (tools[t].pc = "capable" /\ tools[t].cap = revision["screenshot"]) => PermissionOpen
    /\ tools[t].pc = "capturing" => PermissionOpen /\ tools[t].cap = revision["screenshot"]

ToolsOK == \A t \in Tools : ToolOK(t)

IInv ==
    /\ StoreOK /\ LocksOK /\ RevisionsOK /\ WorkOK /\ FileMatchesMemory
    /\ ChangesOK /\ PermissionOK /\ ToolsOK

-----------------------------------------------------------------------------
LEMMA InitIInv == Init => IInv
  <1> SUFFICES ASSUME Init PROVE IInv
    OBVIOUS
  <1> USE ConfigAssumption DEF Init
  <1>1. file \in Documents
    BY DEF Documents, Domains, AgentDomains, Values
  <1>2. StoreOK
    BY <1>1 DEF StoreOK, Documents, Snapshots, Values, Domains, AgentDomains
  <1>3. LocksOK
    BY DEF LocksOK, IdleWriter, IdleTool, WriterRecords, ToolRecords, Places, Holding, Loading,
           Documents, Snapshots, Values, Domains, AgentDomains
  <1>4. RevisionsOK
    BY DEF RevisionsOK, RevisionOf, IdleWriter, Ahead, Domains
  <1>5. WorkOK /\ ChangesOK
    BY DEF WorkOK, WorkOf, IdleWriter, ChangesOK, Stands, Lasts
  <1>6. FileMatchesMemory
    BY DEF FileMatchesMemory, Domains, AgentDomains
  <1>7. PermissionOK
    BY DEF PermissionOK, IdleWriter, Secret, Domains, Ahead
  <1>8. ToolsOK
    BY DEF ToolsOK, ToolOK, Fresh, IdleTool, Loading, Domains
  <1>9. QED
    BY <1>2, <1>3, <1>4, <1>5, <1>6, <1>7, <1>8 DEF IInv

-----------------------------------------------------------------------------
(* A step of writer w that keeps its request, and what it preserves.       *)

Moves(w, pc, out) ==
    /\ writers' \in [Writers -> WriterRecords]
    /\ \A v \in Writers : v # w => writers'[v] = writers[v]
    /\ writers'[w].domain = writers[w].domain
    /\ writers'[w].rev = writers[w].rev
    /\ writers'[w].value = writers[w].value
    /\ writers'[w].pc = pc /\ writers'[w].out = out

LEMMA GotoMoves ==
    ASSUME IInv, NEW w \in Writers, NEW pc \in Places, Goto(w, pc)
    PROVE  Moves(w, pc, writers[w].out)
  <1>1. writers \in [Writers -> WriterRecords] /\ writers' = [writers EXCEPT ![w].pc = pc]
    BY DEF IInv, LocksOK, Goto
  <1>2. QED
    BY <1>1 DEF Moves, WriterRecords

LEMMA ReturnMoves ==
    ASSUME IInv, NEW w \in Writers, NEW out \in {"superseded", "error", "applied"}, Return(w, out)
    PROVE  Moves(w, "done", out)
  <1>1. writers \in [Writers -> WriterRecords] /\ writers[w] \in WriterRecords
    BY DEF IInv, LocksOK
  <1> DEFINE r == [IdleWriter EXCEPT !.pc = "done", !.out = out, !.domain = writers[w].domain,
                                     !.rev = writers[w].rev, !.value = writers[w].value]
  <1>2. r \in WriterRecords /\ r.pc = "done" /\ r.out = out /\ r.domain = writers[w].domain
        /\ r.rev = writers[w].rev /\ r.value = writers[w].value
    BY <1>1 DEF WriterRecords, IdleWriter, Places, Documents, Snapshots, Values
  <1>3. writers' = [writers EXCEPT ![w] = r]
    BY DEF Return
  <1> HIDE DEF r
  <1>4. QED
    BY <1>1, <1>2, <1>3 DEF Moves

\* The writer alone holds write_lock while it is in Holding.
LEMMA OneHolder ==
    ASSUME IInv, NEW v \in Writers, NEW w \in Writers, v # w, writers[w].pc \in Holding
    PROVE  writers[v].pc \notin Holding
  BY DEF IInv, LocksOK

LEMMA MovesRevisions ==
    ASSUME IInv, NEW w \in Writers, NEW pc, NEW out, Moves(w, pc, out), revision' = revision,
           writers[w].pc \in Ahead \cup {"visible"}, pc \notin {"idle", "reserving"},
           pc = "stored" => Secret(w) /\ writers[w].rev = revision["screenshot"],
           out = "applied" => pc = "done"
    PROVE  RevisionsOK'
  <1>1. RevisionsOK /\ RevisionOf(w)
    BY DEF IInv, RevisionsOK
  <1>2. \A v \in Writers : RevisionOf(v)'
    <2> TAKE v \in Writers
    <2>1. CASE v = w
      BY <2>1, <1>1 DEF Moves, RevisionOf, Secret
    <2>2. CASE v # w
      BY <2>2, <1>1 DEF Moves, RevisionsOK, RevisionOf, Secret
    <2>3. QED
      BY <2>1, <2>2
  <1>3. \A v \in Writers : writers'[v].domain = writers[v].domain /\ writers'[v].rev = writers[v].rev
    BY DEF Moves
  <1>4. QED
    BY <1>1, <1>2, <1>3 DEF RevisionsOK

LEMMA MovesWork ==
    ASSUME IInv, NEW w \in Writers, NEW pc, NEW out, Moves(w, pc, out),
           pc \notin {"locked", "prepared"},
           writers[w].pc \in Holding \/ UNCHANGED <<file, published, agent>>
    PROVE  WorkOK'
  <1> SUFFICES ASSUME NEW v \in Writers PROVE WorkOf(v)'
    BY DEF WorkOK
  <1>1. CASE v = w
    BY <1>1 DEF Moves, WorkOf
  <1>2. CASE v # w /\ writers[w].pc \in Holding
    BY <1>2, OneHolder DEF Moves, WorkOf, Holding
  <1>3. CASE v # w /\ UNCHANGED <<file, published, agent>>
    BY <1>3 DEF IInv, WorkOK, Moves, WorkOf, Candidate
  <1>4. QED
    BY <1>1, <1>2, <1>3

LEMMA MovesChanges ==
    ASSUME IInv, NEW w \in Writers, NEW pc, NEW out, Moves(w, pc, out),
           pc \notin {"stored", "visible"}, out # "applied",
           UNCHANGED <<revision, file, published, recoverable>>, faults' = 0 => faults = 0
    PROVE  ChangesOK'
  <1> SUFFICES ASSUME NEW v \in Writers PROVE Stands(v)' /\ Lasts(v)'
    BY DEF ChangesOK
  <1>1. CASE v = w
    BY <1>1 DEF Moves, Stands, Lasts
  <1>2. CASE v # w
    BY <1>2 DEF IInv, ChangesOK, Moves, Stands, Lasts
  <1>3. QED
    BY <1>1, <1>2

LEMMA MovesPermission ==
    ASSUME IInv, NEW w \in Writers, NEW pc, NEW out, Moves(w, pc, out),
           pc \in Ahead => writers[w].pc \in Ahead, UNCHANGED <<revision, permission>>,
           published'["screenshot"] = 1 => file'["screenshot"] = 1
    PROVE  PermissionOK'
  <1>1. PermissionOK
    BY DEF IInv
  <1>2. \A v \in Writers : (Secret(v)' /\ writers'[v].pc \in Ahead) => Secret(v) /\ writers[v].pc \in Ahead
                            /\ writers'[v].rev = writers[v].rev
    BY DEF Moves, Secret
  <1>3. QED
    BY <1>1, <1>2 DEF PermissionOK

\* What tools know is kept as long as nothing they read changes ...
LEMMA SameForTools ==
    ASSUME IInv, UNCHANGED <<permission, tools>>,
           revision'["screenshot"] = revision["screenshot"],
           published'["screenshot"] = published["screenshot"]
    PROVE  ToolsOK'
  BY DEF IInv, ToolsOK, ToolOK, Fresh, PermissionOpen

\* ... and while the newest request has no effect yet they know nothing.
LEMMA NothingForTools ==
    ASSUME IInv, UNCHANGED <<revision, tools>>, permission.applied # revision["screenshot"]
    PROVE  ToolsOK'
  <1> SUFFICES ASSUME NEW t \in Tools PROVE ToolOK(t)'
    BY DEF ToolsOK
  <1>1. ToolOK(t)
    BY DEF IInv, ToolsOK
  <1>2. QED
    BY <1>1 DEF ToolOK, Fresh, PermissionOpen

LEMMA NewestIsAhead ==
    ASSUME IInv, NEW w \in Writers, Secret(w), writers[w].pc \in Ahead,
           writers[w].rev = revision["screenshot"]
    PROVE  permission.applied # revision["screenshot"]
  BY DEF IInv, PermissionOK

LEMMA MovesLocks ==
    ASSUME IInv, NEW w \in Writers, NEW pc, NEW out, Moves(w, pc, out), tools' = tools,
           (writeLock' = w) <=> pc \in Holding, (revisionLock' = w) <=> pc \in {"reserving", "stored"},
           \A v \in Writers : v # w => ((writeLock' = v) <=> (writeLock = v)),
           \A v \in Writers : v # w => ((revisionLock' = v) <=> (revisionLock = v))
    PROVE  LocksOK'
  BY DEF IInv, LocksOK, Moves

\* Nobody is no writer, so a free lock is held by none.
LEMMA FreeLocks ==
    ASSUME IInv
    PROVE  /\ writeLock = Nobody => \A v \in Writers : writers[v].pc \notin Holding
           /\ revisionLock = Nobody => \A v \in Writers : writers[v].pc \notin {"reserving", "stored"}
           /\ \A v \in Writers : v # Nobody
  BY ConfigAssumption DEF IInv, LocksOK

-----------------------------------------------------------------------------
LEMMA ReserveStoreIInv == ASSUME IInv, NEW w \in Writers, ReserveStore(w) PROVE IInv'
  <1>1. /\ writers[w].pc = "reserving" /\ Secret(w) /\ writers[w].rev = revision["screenshot"]
        /\ revisionLock = w
    BY DEF ReserveStore, Pc, IInv, LocksOK, RevisionsOK, RevisionOf
  <1>2. Moves(w, "reserved", writers[w].out) /\ writers[w].out # "applied"
    BY <1>1, GotoMoves DEF ReserveStore, Places, IInv, RevisionsOK, RevisionOf
  <1>3. UNCHANGED <<revision, file, recoverable, published, agent, writeLock, tools, faults, crashes>>
        /\ permission' = [permission EXCEPT !.requested = writers[w].value, !.retry = FALSE]
        /\ revisionLock' = Nobody
    BY DEF ReserveStore
  <1>4. writers[w].value \in Values
    BY DEF IInv, LocksOK, WriterRecords
  <1>5. StoreOK'
    BY <1>3, <1>4 DEF IInv, StoreOK
  <1>6. LocksOK'
    <2>1. writeLock # w
      BY <1>1 DEF IInv, LocksOK, Holding
    <2>2. QED
      BY <1>1, <1>2, <1>3, <2>1, MovesLocks, FreeLocks DEF Holding
  <1>7. RevisionsOK'
    BY <1>1, <1>2, <1>3, MovesRevisions DEF Ahead
  <1>8. WorkOK' /\ ChangesOK'
    BY <1>2, <1>3, MovesWork, MovesChanges
  <1>9. FileMatchesMemory'
    BY <1>3 DEF IInv, FileMatchesMemory
  <1>10. PermissionOK'
    <2>1. permission'.applied = permission.applied
      BY <1>3 DEF IInv, StoreOK
    <2>2. \A v \in Writers : (Secret(v)' /\ writers'[v].pc \in Ahead) =>
             Secret(v) /\ writers[v].pc \in Ahead /\ writers'[v].rev = writers[v].rev
      BY <1>1, <1>2 DEF Moves, Secret, Ahead
    <2>3. QED
      BY <1>3, <2>1, <2>2 DEF IInv, PermissionOK
  <1>11. ToolsOK'
    BY <1>1, <1>3, NewestIsAhead, NothingForTools DEF Ahead
  <1>12. QED
    BY <1>5, <1>6, <1>7, <1>8, <1>9, <1>10, <1>11 DEF IInv

LEMMA SupersededIInv ==
    ASSUME IInv, NEW w \in Writers, writers[w].pc \in {"reserved", "prepared"}, Return(w, "superseded"),
           writers[w].pc = "reserved" => writeLock' = writeLock,
           writers[w].pc = "prepared" => writeLock' = Nobody,
           UNCHANGED <<revision, file, recoverable, published, agent, permission, revisionLock,
                       tools, faults, crashes>>
    PROVE  IInv'
  <1>1. Moves(w, "done", "superseded") /\ writers[w].pc \in Ahead
    BY ReturnMoves DEF Ahead
  <1>2. StoreOK' /\ FileMatchesMemory'
    BY DEF IInv, StoreOK, FileMatchesMemory
  <1>3. LocksOK'
    <2>1. revisionLock # w /\ ((writeLock = w) <=> (writers[w].pc = "prepared"))
      BY DEF IInv, LocksOK, Holding
    <2>2. QED
      BY <1>1, <2>1, MovesLocks, FreeLocks DEF Holding
  <1>4. RevisionsOK' /\ WorkOK' /\ ChangesOK'
    BY <1>1, MovesRevisions, MovesWork, MovesChanges
  <1>5. PermissionOK'
    BY <1>1, MovesPermission DEF IInv, PermissionOK
  <1>6. ToolsOK'
    BY SameForTools
  <1>7. QED
    BY <1>2, <1>3, <1>4, <1>5, <1>6 DEF IInv

LEMMA CandidateIs ==
    ASSUME IInv, NEW w \in Writers
    PROVE  Candidate(w) \in Snapshots /\ Candidate(w).generation # 0
  <1>1. agent \in Snapshots /\ published["appearance"] \in Values /\ writers[w].value \in Values
    BY DEF IInv, StoreOK, LocksOK, Documents, Domains, WriterRecords
  <1>2. QED
    BY <1>1 DEF Candidate, Snapshots

LEMMA LockIInv == ASSUME IInv, NEW w \in Writers, Lock(w) PROVE IInv'
  <1>1. /\ writers[w].pc = "reserved" /\ writeLock = Nobody
        /\ UNCHANGED <<revision, file, recoverable, published, agent, permission, revisionLock,
                       tools, faults, crashes>>
    BY DEF Lock, Pc
  <1>2. CASE ~Current(w)
    BY <1>1, <1>2, SupersededIInv DEF Lock
  <1>3. CASE Current(w)
    <2> DEFINE next == IF writers[w].domain \in AgentDomains THEN Candidate(w) ELSE writers[w].next
    <2>1. writeLock' = w /\ writers' = [writers EXCEPT ![w].pc = "locked", ![w].next = next]
      BY <1>3 DEF Lock
    <2>2. writers \in [Writers -> WriterRecords] /\ writers[w] \in WriterRecords
      BY DEF IInv, LocksOK
    <2>3. writers[w].domain \in AgentDomains => Candidate(w) \in Snapshots
      BY CandidateIs
    <2>4. next \in Snapshots
      BY <2>2, <2>3 DEF WriterRecords
    <2>5. Moves(w, "locked", writers[w].out) /\ writers'[w].next = next
      <3> HIDE DEF next
      <3>1. QED
        BY <2>1, <2>2, <2>4 DEF Moves, WriterRecords, Places
    <2>6. writers[w].out # "applied" /\ writers[w].pc \in Ahead
      BY <1>1 DEF IInv, RevisionsOK, RevisionOf, Ahead
    <2>7. StoreOK' /\ FileMatchesMemory'
      BY <1>1 DEF IInv, StoreOK, FileMatchesMemory
    <2>8. LocksOK'
      <3>1. revisionLock # w
        BY <1>1 DEF IInv, LocksOK
      <3>2. QED
        BY <1>1, <2>1, <2>5, <3>1, MovesLocks, FreeLocks DEF Holding
    <2>9. RevisionsOK' /\ ChangesOK' /\ PermissionOK'
      BY <1>1, <2>5, <2>6, MovesRevisions, MovesChanges, MovesPermission DEF IInv, PermissionOK, Ahead
    <2>10. WorkOK'
      <3> SUFFICES ASSUME NEW v \in Writers PROVE WorkOf(v)'
        BY DEF WorkOK
      <3>1. CASE v = w
        BY <1>1, <3>1, <2>5 DEF WorkOf, Moves, Candidate
      <3>2. CASE v # w
        BY <1>1, <3>2, <2>5 DEF WorkOf, Moves, Candidate, IInv, WorkOK
      <3>3. QED
        BY <3>1, <3>2
    <2>11. ToolsOK'
      BY <1>1, SameForTools
    <2>12. QED
      BY <2>7, <2>8, <2>9, <2>10, <2>11 DEF IInv
  <1>4. QED
    BY <1>2, <1>3

LEMMA FailWriteIInv ==
    ASSUME IInv, NEW w \in Writers, writers[w].pc \in {"locked", "prepared"}, FailWrite(w)
    PROVE  IInv'
  <1>1. /\ UNCHANGED <<revision, file, recoverable, agent, revisionLock, tools, crashes>>
        /\ faults' = faults + 1 /\ faults < MaxFaults /\ writeLock' = Nobody
        /\ Moves(w, "done", "error") /\ writers[w].pc \in Ahead \cap Holding
    BY ReturnMoves DEF FailWrite, Ahead, Holding
  <1>2. faults' \in 0 .. MaxFaults /\ faults' # 0 /\ writers[w].value \in Values
    BY <1>1, ConfigAssumption DEF IInv, StoreOK, LocksOK, WriterRecords
  <1>3. writeLock = w /\ revisionLock # w
    BY DEF IInv, LocksOK, Holding
  <1>4. LocksOK'
    BY <1>1, <1>3, MovesLocks, FreeLocks DEF Holding
  <1>5. RevisionsOK' /\ WorkOK'
    BY <1>1, MovesRevisions, MovesWork
  <1>6. CASE Secret(w) /\ Current(w)
    <2>1. /\ published' = [published EXCEPT !["screenshot"] = 0]
          /\ permission' = [permission EXCEPT !.requested = 0, !.retry = (writers[w].value = 0)]
      BY <1>6 DEF FailWrite, Closed
    <2>2. writers[w].rev = revision["screenshot"] /\ writers[w].domain = "screenshot"
      BY <1>6 DEF Secret, Current
    <2>3. StoreOK'
      BY <1>1, <1>2, <2>1 DEF IInv, StoreOK, Documents, Values
    <2>4. /\ published'["screenshot"] = 0 /\ permission'.applied = permission.applied
          /\ \A d \in Domains : d # "screenshot" => published'[d] = published[d]
      BY <2>1 DEF IInv, StoreOK, Documents, Domains
    <2>5. FileMatchesMemory'
      BY <1>1, <2>4 DEF IInv, FileMatchesMemory
    <2>6. ChangesOK'
      <3> SUFFICES ASSUME NEW v \in Writers PROVE Stands(v)' /\ Lasts(v)'
        BY DEF ChangesOK
      <3>1. Lasts(v)'
        BY <1>2 DEF Lasts
      <3>2. CASE v = w
        BY <1>1, <3>1, <3>2 DEF Moves, Stands
      <3>3. CASE v # w /\ writers[v].domain = "screenshot"
        <4>1. writers[v].rev # writers[w].rev
          BY <1>1, <2>2, <3>3 DEF IInv, RevisionsOK, RevisionOf
        <4>2. QED
          BY <1>1, <2>2, <3>1, <3>3, <4>1 DEF Moves, Stands
      <3>4. CASE v # w /\ writers[v].domain # "screenshot"
        <4>1. writers[v].domain \in Domains
          BY DEF IInv, LocksOK, WriterRecords
        <4>2. QED
          BY <1>1, <2>4, <3>1, <3>4, <4>1 DEF Moves, Stands, IInv, ChangesOK
      <3>5. QED
        BY <3>1, <3>2, <3>3, <3>4
    <2>7. PermissionOK'
      <3>1. \A v \in Writers : (Secret(v)' /\ writers'[v].pc \in Ahead) =>
               Secret(v) /\ writers[v].pc \in Ahead /\ writers'[v].rev = writers[v].rev
        BY <1>1 DEF Moves, Secret, Ahead
      <3>2. QED
        BY <1>1, <2>4, <3>1 DEF IInv, PermissionOK
    <2>8. ToolsOK'
      BY <1>1, <1>6, <2>2, NewestIsAhead, NothingForTools
    <2>9. QED
      BY <1>4, <1>5, <2>3, <2>5, <2>6, <2>7, <2>8 DEF IInv
  <1>7. CASE ~(Secret(w) /\ Current(w))
    <2>1. UNCHANGED <<published, permission>>
      BY <1>7 DEF FailWrite
    <2>2. StoreOK' /\ FileMatchesMemory'
      BY <1>1, <1>2, <2>1 DEF IInv, StoreOK, FileMatchesMemory
    <2>3. ChangesOK' /\ PermissionOK' /\ ToolsOK'
      BY <1>1, <1>2, <2>1, MovesChanges, MovesPermission, SameForTools DEF IInv, PermissionOK, Ahead
    <2>4. QED
      BY <1>4, <1>5, <2>2, <2>3 DEF IInv
  <1>8. QED
    BY <1>6, <1>7

LEMMA PrepareIInv == ASSUME IInv, NEW w \in Writers, Prepare(w) PROVE IInv'
  <1>1. writers[w].pc = "locked"
    BY DEF Prepare, Pc
  <1>2. CASE FailWrite(w)
    BY <1>1, <1>2, FailWriteIInv
  <1>3. CASE ~FailWrite(w)
    <2> DEFINE doc == [file EXCEPT ![writers[w].domain] = writers[w].value]
    <2>1. /\ writers' = [writers EXCEPT ![w].pc = "prepared", ![w].doc = doc]
          /\ UNCHANGED <<revision, file, recoverable, published, agent, permission, writeLock,
                         revisionLock, tools, faults, crashes>>
      BY <1>3 DEF Prepare
    <2>2. writers \in [Writers -> WriterRecords] /\ writers[w] \in WriterRecords /\ file \in Documents
      BY DEF IInv, LocksOK, StoreOK
    <2>3. doc \in Documents
      BY <2>2 DEF Documents, WriterRecords
    <2>4. Moves(w, "prepared", writers[w].out) /\ writers'[w].doc = doc /\ writers'[w].next = writers[w].next
      <3> HIDE DEF doc
      <3>1. QED
        BY <2>1, <2>2, <2>3 DEF Moves, WriterRecords, Places
    <2>5. writers[w].out # "applied" /\ writers[w].pc \in Ahead
      BY <1>1 DEF IInv, RevisionsOK, RevisionOf, Ahead
    <2>6. StoreOK' /\ FileMatchesMemory'
      BY <2>1 DEF IInv, StoreOK, FileMatchesMemory
    <2>7. LocksOK'
      <3>1. revisionLock # w /\ writeLock = w
        BY <1>1 DEF IInv, LocksOK, Holding
      <3>2. QED
        BY <2>1, <2>4, <3>1, MovesLocks, FreeLocks DEF Holding
    <2>8. RevisionsOK' /\ ChangesOK' /\ PermissionOK' /\ ToolsOK'
      <3>1. RevisionsOK' /\ ChangesOK'
        BY <2>1, <2>4, <2>5, MovesRevisions, MovesChanges
      <3>2. PermissionOK' /\ ToolsOK'
        BY <2>1, <2>4, <2>5, MovesPermission, SameForTools DEF IInv, PermissionOK
      <3>3. QED
        BY <3>1, <3>2
    <2>9. WorkOK'
      <3> SUFFICES ASSUME NEW v \in Writers PROVE WorkOf(v)'
        BY DEF WorkOK
      <3>1. WorkOf(v)
        BY DEF IInv, WorkOK
      <3>2. CASE v = w
        BY <1>1, <2>1, <2>4, <3>1, <3>2 DEF WorkOf, Moves, Candidate
      <3>3. CASE v # w
        BY <2>1, <2>4, <3>1, <3>3 DEF WorkOf, Moves, Candidate
      <3>4. QED
        BY <3>2, <3>3
    <2>10. QED
      BY <2>6, <2>7, <2>8, <2>9 DEF IInv
  <1>4. QED
    BY <1>2, <1>3

LEMMA CommitSupersededIInv == ASSUME IInv, NEW w \in Writers, CommitSuperseded(w) PROVE IInv'
  BY SupersededIInv DEF CommitSuperseded, Pc

LEMMA CommitFailedIInv == ASSUME IInv, NEW w \in Writers, CommitFailed(w) PROVE IInv'
  BY FailWriteIInv DEF CommitFailed, Pc

\* What a rename makes visible: the file with one domain changed.
LEMMA RenameIs ==
    ASSUME IInv, NEW w \in Writers, writers[w].pc = "prepared", Rename(w)
    PROVE  /\ file' \in Documents /\ recoverable' \in SUBSET Documents /\ file' \in recoverable'
           /\ file'[writers[w].domain] = writers[w].value
           /\ \A d \in Domains : d # writers[w].domain => file'[d] = file[d]
           /\ recoverable' = recoverable \cup {file'}
  <1>1. file' = [file EXCEPT ![writers[w].domain] = writers[w].value]
        /\ recoverable' = recoverable \cup {file'}
    BY DEF Rename, IInv, WorkOK, WorkOf
  <1>2. file \in Documents /\ writers[w].domain \in Domains /\ writers[w].value \in Values
        /\ recoverable \in SUBSET Documents
    BY DEF IInv, StoreOK, LocksOK, WriterRecords
  <1>3. QED
    BY <1>1, <1>2 DEF Documents

\* A rename of the newest change of a domain and its publication in memory.
LEMMA VisibleChanges ==
    ASSUME IInv, NEW w \in Writers, writers[w].pc = "prepared", Rename(w), Current(w),
           published' = [published EXCEPT ![writers[w].domain] = writers[w].value],
           NEW pc \in {"stored", "visible"}, Moves(w, pc, writers[w].out),
           UNCHANGED <<revision, faults>>
    PROVE  ChangesOK'
  <1>1. /\ writers[w].domain \in Domains
        /\ published'[writers[w].domain] = writers[w].value
        /\ \A d \in Domains : d # writers[w].domain => published'[d] = published[d]
    BY DEF IInv, StoreOK, LocksOK, WriterRecords, Documents
  <1>2. writers[w].rev = revision[writers[w].domain] /\ writers[w].out # "applied"
        /\ writers[w].rev # 0
    BY DEF Current, IInv, RevisionsOK, RevisionOf, Ahead
  <1> SUFFICES ASSUME NEW v \in Writers PROVE Stands(v)' /\ Lasts(v)'
    BY DEF ChangesOK
  <1>3. CASE v = w
    BY <1>1, <1>2, <1>3, RenameIs DEF Moves, Stands, Lasts
  <1>4. CASE v # w /\ writers[v].domain = writers[w].domain
    <2>1. writers[v].rev # writers[w].rev
      BY <1>2, <1>4 DEF IInv, RevisionsOK
    <2>2. QED
      BY <1>2, <1>4, <2>1 DEF Moves, Stands, Lasts
  <1>5. CASE v # w /\ writers[v].domain # writers[w].domain
    <2>1. writers[v].domain \in Domains /\ file \in recoverable
      BY DEF IInv, LocksOK, WriterRecords, StoreOK
    <2>2. file'[writers[v].domain] = file[writers[v].domain]
          /\ published'[writers[v].domain] = published[writers[v].domain]
          /\ recoverable' = recoverable \cup {file'}
      BY <1>1, <1>5, <2>1, RenameIs
    <2>3. Stands(v) /\ Lasts(v)
      BY DEF IInv, ChangesOK
    <2>4. QED
      BY <1>5, <2>1, <2>2, <2>3 DEF Moves, Stands, Lasts
  <1>6. QED
    BY <1>3, <1>4, <1>5

LEMMA CommitIInv == ASSUME IInv, NEW w \in Writers, Commit(w) PROVE IInv'
  <1>1. /\ writers[w].pc = "prepared" /\ writers[w].domain # "screenshot"
        /\ Rename(w) /\ Publish(w) /\ Current(w) /\ Goto(w, "visible")
        /\ UNCHANGED <<revision, permission, writeLock, revisionLock, tools, faults, crashes>>
    BY DEF Commit, Pc, Secret
  <1>2. Moves(w, "visible", writers[w].out) /\ writers[w].out # "applied"
    BY <1>1, GotoMoves DEF Places, IInv, RevisionsOK, RevisionOf
  <1>3. /\ writers[w].domain \in Domains /\ writers[w].value \in Values
        /\ published \in Documents /\ file \in Documents /\ agent \in Snapshots /\ agent.generation # 0
    BY DEF IInv, StoreOK, LocksOK, WriterRecords
  <1>4. /\ published' \in Documents /\ published'[writers[w].domain] = writers[w].value
        /\ \A d \in Domains : d # writers[w].domain => published'[d] = published[d]
        /\ published' = [published EXCEPT ![writers[w].domain] = writers[w].value]
    BY <1>1, <1>3 DEF Publish, Documents
  <1>5. /\ file' \in Documents /\ recoverable' \in SUBSET Documents /\ file' \in recoverable'
        /\ file'[writers[w].domain] = writers[w].value
        /\ \A d \in Domains : d # writers[w].domain => file'[d] = file[d]
    BY <1>1, RenameIs
  <1>6. /\ agent' \in Snapshots /\ agent'.generation # 0
        /\ agent'.llm = IF writers[w].domain = "llm" THEN writers[w].value ELSE agent.llm
        /\ agent'.persona = IF writers[w].domain = "persona" THEN writers[w].value ELSE agent.persona
        /\ agent'.language = IF writers[w].domain = "appearance" THEN writers[w].value ELSE agent.language
    <2>1. FileMatchesMemory
      BY DEF IInv
    <2>2. CASE writers[w].domain \in AgentDomains
      <3>1. agent' = Candidate(w) /\ writers[w].domain # "appearance"
        BY <1>1, <2>2 DEF Publish, IInv, WorkOK, WorkOf, AgentDomains
      <3>2. agent.language = published["appearance"]
        BY <2>1 DEF FileMatchesMemory, Domains
      <3>3. Candidate(w) \in Snapshots /\ Candidate(w).generation # 0
        BY CandidateIs
      <3>4. QED
        BY <3>1, <3>2, <3>3 DEF Candidate
    <2>3. CASE writers[w].domain = "appearance"
      <3>1. agent.language = published["appearance"]
        BY <2>1 DEF FileMatchesMemory, Domains
      <3>2. CASE published["appearance"] = writers[w].value
        <4>1. agent' = agent
          BY <1>1, <2>3, <3>2 DEF Publish, AgentDomains
        <4>2. QED
          BY <1>3, <2>3, <3>1, <3>2, <4>1
      <3>3. CASE published["appearance"] # writers[w].value
        <4>1. agent' = [agent EXCEPT !.language = writers[w].value, !.generation = @ + 1]
          BY <1>1, <2>3, <3>3 DEF Publish, AgentDomains
        <4>2. /\ agent' \in Snapshots /\ agent'.llm = agent.llm /\ agent'.persona = agent.persona
              /\ agent'.language = writers[w].value /\ agent'.generation = agent.generation + 1
          <5> DEFINE other == [agent EXCEPT !.language = writers[w].value]
          <5>1. other \in Snapshots /\ other.llm = agent.llm /\ other.persona = agent.persona
                /\ other.language = writers[w].value /\ other.generation = agent.generation
            BY <1>3 DEF Snapshots
          <5>2. agent' = [other EXCEPT !.generation = @ + 1]
            BY <4>1
          <5> HIDE DEF other
          <5>3. QED
            BY <5>1, <5>2 DEF Snapshots
        <4>3. agent'.generation # 0
          BY <1>3, <4>2 DEF Snapshots
        <4>4. QED
          BY <2>3, <4>2, <4>3
      <3>4. QED
        BY <3>2, <3>3
    <2>4. CASE writers[w].domain \notin AgentDomains \cup {"appearance"}
      <3>1. agent' = agent
        BY <1>1, <2>4 DEF Publish
      <3>2. QED
        BY <1>3, <2>4, <3>1 DEF AgentDomains
    <2>5. QED
      BY <2>2, <2>3, <2>4
  <1>7. StoreOK'
    BY <1>1, <1>4, <1>5, <1>6 DEF IInv, StoreOK
  <1>8. LocksOK'
    <2>1. writeLock = w /\ revisionLock # w
      BY <1>1 DEF IInv, LocksOK, Holding
    <2>2. QED
      BY <1>1, <1>2, <2>1, MovesLocks DEF Holding
  <1>9. RevisionsOK' /\ WorkOK'
    BY <1>1, <1>2, MovesRevisions, MovesWork DEF Ahead, Holding
  <1>10. FileMatchesMemory'
    <2>1. \A d \in Domains \ {"screenshot"} : published'[d] = file'[d]
      BY <1>4, <1>5 DEF IInv, FileMatchesMemory
    <2>2. QED
      BY <1>5, <1>6, <2>1 DEF IInv, FileMatchesMemory, Domains, AgentDomains
  <1>11. ChangesOK'
    BY <1>1, <1>2, <1>4, VisibleChanges
  <1>12. published'["screenshot"] = published["screenshot"] /\ file'["screenshot"] = file["screenshot"]
    BY <1>1, <1>4, <1>5 DEF Domains
  <1>13. PermissionOK' /\ ToolsOK'
    BY <1>1, <1>2, <1>12, MovesPermission, SameForTools DEF IInv, PermissionOK, Ahead
  <1>14. QED
    BY <1>7, <1>8, <1>9, <1>10, <1>11, <1>13 DEF IInv

LEMMA CommitPermissionIInv == ASSUME IInv, NEW w \in Writers, CommitPermission(w) PROVE IInv'
  <1>1. /\ writers[w].pc = "prepared" /\ Secret(w) /\ writers[w].domain = "screenshot"
        /\ Rename(w) /\ Current(w) /\ Goto(w, "stored") /\ revisionLock = Nobody /\ revisionLock' = w
        /\ published' = [published EXCEPT !["screenshot"] = writers[w].value]
        /\ UNCHANGED <<revision, agent, permission, writeLock, tools, faults, crashes>>
    BY DEF CommitPermission, Pc, Secret
  <1>2. Moves(w, "stored", writers[w].out) /\ writers[w].rev = revision["screenshot"]
        /\ writers[w].out # "applied"
    BY <1>1, GotoMoves DEF Places, Current, IInv, RevisionsOK, RevisionOf
  <1>3. /\ published' \in Documents /\ published'["screenshot"] = writers[w].value
        /\ \A d \in Domains : d # "screenshot" => published'[d] = published[d]
    BY <1>1 DEF IInv, StoreOK, LocksOK, WriterRecords, Documents, Domains
  <1>4. /\ file' \in Documents /\ recoverable' \in SUBSET Documents /\ file' \in recoverable'
        /\ file'["screenshot"] = writers[w].value
        /\ \A d \in Domains : d # "screenshot" => file'[d] = file[d]
    BY <1>1, RenameIs
  <1>5. StoreOK'
    BY <1>1, <1>3, <1>4 DEF IInv, StoreOK
  <1>6. LocksOK'
    <2>1. writeLock = w
      BY <1>1 DEF IInv, LocksOK, Holding
    <2>2. QED
      BY <1>1, <1>2, <2>1, MovesLocks, FreeLocks DEF Holding
  <1>7. RevisionsOK' /\ WorkOK'
    BY <1>1, <1>2, MovesRevisions, MovesWork DEF Ahead, Holding
  <1>8. FileMatchesMemory'
    BY <1>1, <1>3, <1>4 DEF IInv, FileMatchesMemory, Domains, AgentDomains
  <1>9. ChangesOK'
    BY <1>1, <1>2, VisibleChanges
  <1>10. PermissionOK'
    BY <1>1, <1>2, <1>3, <1>4, MovesPermission DEF Ahead
  <1>11. ToolsOK'
    BY <1>1, <1>2, NewestIsAhead, NothingForTools DEF Ahead
  <1>12. QED
    BY <1>5, <1>6, <1>7, <1>8, <1>9, <1>10, <1>11 DEF IInv

LEMMA ApplyPermissionIInv == ASSUME IInv, NEW w \in Writers, ApplyPermission(w) PROVE IInv'
  <1>1. /\ writers[w].pc = "stored" /\ Secret(w) /\ writers[w].rev = revision["screenshot"]
        /\ permission' = [permission EXCEPT !.applied = writers[w].rev, !.retry = FALSE]
        /\ revisionLock' = Nobody /\ Goto(w, "visible")
        /\ UNCHANGED <<revision, file, recoverable, published, agent, writeLock, tools, faults, crashes>>
    BY DEF ApplyPermission, Pc, IInv, RevisionsOK, RevisionOf
  <1>2. Moves(w, "visible", writers[w].out) /\ writers[w].out # "applied"
    BY <1>1, GotoMoves DEF Places, IInv, RevisionsOK, RevisionOf
  <1>3. StoreOK' /\ permission'.applied = writers[w].rev
    BY <1>1 DEF IInv, StoreOK, LocksOK, WriterRecords
  <1>4. LocksOK'
    <2>1. writeLock = w /\ revisionLock = w
      BY <1>1 DEF IInv, LocksOK, Holding
    <2>2. QED
      BY <1>1, <1>2, <2>1, MovesLocks, FreeLocks DEF Holding
  <1>5. RevisionsOK' /\ WorkOK'
    BY <1>1, <1>2, MovesRevisions, MovesWork DEF Ahead, Holding
  <1>6. FileMatchesMemory'
    BY <1>1 DEF IInv, FileMatchesMemory
  <1>7. ChangesOK'
    <2> SUFFICES ASSUME NEW v \in Writers PROVE Stands(v)' /\ Lasts(v)'
      BY DEF ChangesOK
    <2>1. Stands(v) /\ Lasts(v)
      BY DEF IInv, ChangesOK
    <2>2. QED
      BY <1>1, <1>2, <2>1 DEF Moves, Stands, Lasts
  <1>8. PermissionOK'
    <2>1. \A v \in Writers : (Secret(v)' /\ writers'[v].pc \in Ahead) =>
             writers[v].domain = writers[w].domain /\ v # w /\ writers[v].rev # 0
             /\ writers'[v].rev = writers[v].rev
      BY <1>1, <1>2 DEF Moves, Secret, Ahead, IInv, RevisionsOK, RevisionOf
    <2>2. \A v \in Writers : (Secret(v)' /\ writers'[v].pc \in Ahead) => permission'.applied # writers'[v].rev
      BY <1>3, <2>1 DEF IInv, RevisionsOK
    <2>3. writers[w].rev <= revision["screenshot"] /\ (published["screenshot"] = 1 => file["screenshot"] = 1)
      BY <1>1 DEF IInv, PermissionOK, RevisionsOK, RevisionOf, Secret
    <2>4. QED
      BY <1>1, <1>3, <2>2, <2>3 DEF PermissionOK
  <1>9. ToolsOK'
    BY <1>1, NewestIsAhead, NothingForTools DEF Ahead
  <1>10. QED
    BY <1>3, <1>4, <1>5, <1>6, <1>7, <1>8, <1>9 DEF IInv

LEMMA SyncParentIInv == ASSUME IInv, NEW w \in Writers, SyncParent(w) PROVE IInv'
  <1>1. /\ writers[w].pc = "visible" /\ writeLock' = Nobody /\ Return(w, "applied")
        /\ UNCHANGED <<revision, file, published, agent, permission, revisionLock, tools, crashes>>
        /\ \/ recoverable' = {file} /\ faults' = faults
           \/ faults < MaxFaults /\ faults' = faults + 1 /\ recoverable' = recoverable
    BY DEF SyncParent, Pc
  <1>2. Moves(w, "done", "applied") /\ writers[w].rev # 0
    BY <1>1, ReturnMoves DEF IInv, RevisionsOK, RevisionOf, Ahead
  <1>3. /\ file \in Documents /\ recoverable \in SUBSET Documents /\ file \in recoverable
        /\ faults \in 0 .. MaxFaults
    BY DEF IInv, StoreOK
  <1>4. /\ recoverable' \in SUBSET Documents /\ file' \in recoverable' /\ faults' \in 0 .. MaxFaults
        /\ faults' = 0 => faults = 0 /\ recoverable' = {file}
        /\ recoverable' \subseteq recoverable
    BY <1>1, <1>3, ConfigAssumption
  <1>5. StoreOK' /\ FileMatchesMemory'
    BY <1>1, <1>4 DEF IInv, StoreOK, FileMatchesMemory
  <1>6. LocksOK'
    <2>1. writeLock = w /\ revisionLock # w
      BY <1>1 DEF IInv, LocksOK, Holding
    <2>2. QED
      BY <1>1, <1>2, <2>1, MovesLocks, FreeLocks DEF Holding
  <1>7. RevisionsOK' /\ WorkOK'
    BY <1>1, <1>2, MovesRevisions, MovesWork
  <1>8. ChangesOK'
    <2> SUFFICES ASSUME NEW v \in Writers PROVE Stands(v)' /\ Lasts(v)'
      BY DEF ChangesOK
    <2>1. Stands(v) /\ Lasts(v) /\ Stands(w)
      BY DEF IInv, ChangesOK
    <2>2. CASE v = w
      BY <1>1, <1>2, <1>4, <2>1, <2>2 DEF Moves, Stands, Lasts
    <2>3. CASE v # w
      BY <1>1, <1>2, <1>4, <2>1, <2>3 DEF Moves, Stands, Lasts
    <2>4. QED
      BY <2>2, <2>3
  <1>9. PermissionOK' /\ ToolsOK'
    BY <1>1, <1>2, MovesPermission, SameForTools DEF IInv, PermissionOK, Ahead
  <1>10. QED
    BY <1>5, <1>6, <1>7, <1>8, <1>9 DEF IInv

LEMMA ReserveIInv ==
    ASSUME IInv, NEW w \in Writers, NEW d \in Domains, NEW v \in Values, Reserve(w, d, v)
    PROVE  IInv'
  <1> DEFINE r == [IdleWriter EXCEPT !.domain = d, !.value = v, !.rev = revision[d] + 1,
                     !.pc = IF d = "screenshot" THEN "reserving" ELSE "reserved"]
  <1>1. /\ writers[w].pc = "idle" /\ revisionLock = Nobody
        /\ d = "screenshot" => \A t \in Tools : ~tools[t].lease
        /\ revision' = [revision EXCEPT ![d] = @ + 1]
        /\ writers' = [writers EXCEPT ![w] = r]
        /\ revisionLock' = IF d = "screenshot" THEN w ELSE Nobody
        /\ UNCHANGED <<file, recoverable, published, agent, permission, writeLock, tools, faults, crashes>>
    BY DEF Reserve, Pc
  <1>2. /\ revision \in [Domains -> Nat] /\ writers \in [Writers -> WriterRecords]
        /\ tools \in [Tools -> ToolRecords]
    BY DEF IInv, StoreOK, LocksOK
  <1>3. /\ r \in WriterRecords /\ r.domain = d /\ r.value = v /\ r.rev = revision[d] + 1
        /\ r.pc = (IF d = "screenshot" THEN "reserving" ELSE "reserved") /\ r.out = "none"
    <2> DEFINE place == IF d = "screenshot" THEN "reserving" ELSE "reserved"
               number == revision[d] + 1
    <2>1. place \in Places /\ number \in Nat
      BY <1>2 DEF Places
    <2>2. r = [IdleWriter EXCEPT !.domain = d, !.value = v, !.rev = number, !.pc = place]
      OBVIOUS
    <2> HIDE DEF place, number, r
    <2>3. r \in WriterRecords /\ r.domain = d /\ r.value = v /\ r.rev = number /\ r.pc = place
          /\ r.out = "none"
      BY <2>1, <2>2 DEF WriterRecords, IdleWriter, Places, Documents, Snapshots, Values
    <2>4. QED
      BY <2>3 DEF place, number
  <1> HIDE DEF r
  <1>4. /\ writers' \in [Writers -> WriterRecords] /\ writers'[w] = r
        /\ \A u \in Writers : u # w => writers'[u] = writers[u]
    BY <1>1, <1>2, <1>3
  <1>5. /\ revision' \in [Domains -> Nat] /\ revision'[d] = revision[d] + 1
        /\ \A e \in Domains : e # d => revision'[e] = revision[e]
    BY <1>1, <1>2
  <1>6. \A u \in Writers : writers[u].domain \in Domains /\ writers[u].rev \in Nat /\ RevisionOf(u)
                           /\ writers[u].pc \notin {"reserving", "stored"}
    BY <1>1, <1>2, FreeLocks DEF WriterRecords, IInv, RevisionsOK
  <1>7. StoreOK' /\ FileMatchesMemory'
    BY <1>1, <1>5 DEF IInv, StoreOK, FileMatchesMemory
  <1>8. LocksOK'
    <2>1. writeLock # w /\ \A u \in Writers : u # Nobody
      BY <1>1, FreeLocks DEF IInv, LocksOK, Holding
    <2>2. \A u \in Writers : (writeLock' = u) <=> (writers'[u].pc \in Holding)
      BY <1>1, <1>3, <1>4, <2>1 DEF IInv, LocksOK, Holding
    <2>3. \A u \in Writers : (revisionLock' = u) <=> (writers'[u].pc \in {"reserving", "stored"})
      BY <1>1, <1>3, <1>4, <1>6, <2>1
    <2>4. QED
      BY <1>1, <1>2, <1>4, <2>2, <2>3 DEF LocksOK
  <1>9. RevisionsOK'
    <2>1. \A u \in Writers : RevisionOf(u)'
      <3> TAKE u \in Writers
      <3>1. CASE u = w
        BY <1>2, <1>3, <1>4, <1>5, <3>1 DEF RevisionOf, Secret, Ahead
      <3>2. CASE u # w
        <4>1. writers[u].rev <= revision'[writers[u].domain]
          BY <1>2, <1>5, <1>6 DEF RevisionOf
        <4>2. QED
          BY <1>4, <1>6, <3>2, <4>1 DEF RevisionOf
      <3>3. QED
        BY <3>1, <3>2
    <2>2. \A u \in Writers : writers[u].domain = d => writers[u].rev # r.rev
      BY <1>2, <1>3, <1>6 DEF RevisionOf
    <2>3. QED
      BY <1>3, <1>4, <2>1, <2>2 DEF IInv, RevisionsOK
  <1>10. WorkOK'
    <2> SUFFICES ASSUME NEW u \in Writers PROVE WorkOf(u)'
      BY DEF WorkOK
    <2>1. CASE u = w
      BY <1>3, <1>4, <2>1 DEF WorkOf
    <2>2. CASE u # w
      BY <1>1, <1>4, <2>2 DEF WorkOf, Candidate, IInv, WorkOK
    <2>3. QED
      BY <2>1, <2>2
  <1>11. ChangesOK'
    <2> SUFFICES ASSUME NEW u \in Writers PROVE Stands(u)' /\ Lasts(u)'
      BY DEF ChangesOK
    <2>1. CASE u = w
      BY <1>3, <1>4, <2>1 DEF Stands, Lasts
    <2>2. CASE u # w
      <3>1. writers[u].domain = d => writers[u].rev # revision'[d]
        BY <1>2, <1>5, <1>6 DEF RevisionOf
      <3>2. Stands(u) /\ Lasts(u)
        BY DEF IInv, ChangesOK
      <3>3. QED
        BY <1>1, <1>4, <1>5, <1>6, <2>2, <3>1, <3>2 DEF Stands, Lasts
    <2>3. QED
      BY <2>1, <2>2
  <1>12. PermissionOK'
    <2>1. "screenshot" \in Domains /\ permission.applied \in Nat
      BY DEF Domains, IInv, StoreOK
    <2>2. permission.applied <= revision["screenshot"]
          /\ (published["screenshot"] = 1 => file["screenshot"] = 1)
          /\ \A u \in Writers : (writers[u].domain = "screenshot" /\ writers[u].pc \in Ahead)
                                   => permission.applied # writers[u].rev
      BY DEF IInv, PermissionOK, Secret
    <2>3. permission'.applied <= revision'["screenshot"]
      BY <1>1, <1>2, <1>5, <2>1, <2>2
    <2>4. d = "screenshot" => permission.applied # r.rev
      BY <1>2, <1>3, <2>1, <2>2
    <2>5. \A u \in Writers : (Secret(u)' /\ writers'[u].pc \in Ahead) => permission'.applied # writers'[u].rev
      <3> TAKE u \in Writers
      <3>1. CASE u = w
        BY <1>1, <1>3, <1>4, <2>4, <3>1 DEF Secret
      <3>2. CASE u # w
        BY <1>1, <1>4, <2>2, <3>2 DEF Secret
      <3>3. QED
        BY <3>1, <3>2
    <2>6. QED
      BY <1>1, <2>2, <2>3, <2>5 DEF PermissionOK
  <1>13. ToolsOK'
    <2>1. CASE d # "screenshot"
      <3>1. revision'["screenshot"] = revision["screenshot"]
        BY <1>5, <2>1 DEF Domains
      <3>2. QED
        BY <1>1, <3>1, SameForTools
    <2>2. CASE d = "screenshot"
      <3> SUFFICES ASSUME NEW t \in Tools PROVE ToolOK(t)'
        BY DEF ToolsOK
      <3>1. ToolOK(t) /\ ~tools[t].lease /\ tools[t].requested \in Nat /\ tools[t].cap \in Nat
        BY <1>1, <1>2, <2>2 DEF IInv, ToolsOK, ToolRecords
      <3>2. revision["screenshot"] \in Nat /\ revision'["screenshot"] = revision["screenshot"] + 1
        BY <1>2, <1>5, <2>2
      <3>3. tools[t].pc # "capturing"
        BY <3>1 DEF ToolOK
      <3>4. QED
        BY <1>1, <3>1, <3>2, <3>3 DEF ToolOK, Fresh
    <2>3. QED
      BY <2>1, <2>2
  <1>14. QED
    BY <1>7, <1>8, <1>9, <1>10, <1>11, <1>12, <1>13 DEF IInv

-----------------------------------------------------------------------------
(* A step of one tool disturbs only what is said of it.                     *)
LEMMA ToolFrame ==
    ASSUME IInv, NEW t \in Tools, NEW r \in ToolRecords, tools' = [tools EXCEPT ![t] = r],
           (tools'[t] = r) => ToolOK(t)',
           UNCHANGED <<revision, file, recoverable, published, agent, permission, writeLock,
                       revisionLock, writers, faults, crashes>>
    PROVE  IInv'
  <1>1. /\ tools' \in [Tools -> ToolRecords] /\ tools'[t] = r
        /\ \A u \in Tools : u # t => tools'[u] = tools[u]
    BY DEF IInv, LocksOK
  <1>2. StoreOK' /\ LocksOK' /\ RevisionsOK' /\ WorkOK'
    BY <1>1 DEF IInv, StoreOK, LocksOK, RevisionsOK, RevisionOf, Secret, WorkOK, WorkOf, Candidate
  <1>3. FileMatchesMemory' /\ ChangesOK' /\ PermissionOK'
    BY DEF IInv, FileMatchesMemory, ChangesOK, Stands, Lasts, PermissionOK, Secret
  <1>4. ToolsOK'
    <2> SUFFICES ASSUME NEW u \in Tools PROVE ToolOK(u)'
      BY DEF ToolsOK
    <2>1. CASE u = t
      BY <1>1, <2>1
    <2>2. CASE u # t
      BY <1>1, <2>2 DEF IInv, ToolsOK, ToolOK, Fresh, PermissionOpen
    <2>3. QED
      BY <2>1, <2>2
  <1>5. QED
    BY <1>2, <1>3, <1>4 DEF IInv

LEMMA ToolIs ==
    ASSUME IInv, NEW t \in Tools
    PROVE  /\ tools[t] \in ToolRecords /\ ToolOK(t)
           /\ revision["screenshot"] \in Nat /\ published["screenshot"] \in Values
           /\ permission.applied \in Nat /\ permission.requested \in Values
           /\ permission.applied <= revision["screenshot"]
  BY DEF IInv, LocksOK, StoreOK, ToolsOK, PermissionOK, Documents, Domains

LEMMA LoadIInv ==
    ASSUME IInv, NEW t \in Tools,
           LoadRequestRevision(t) \/ LoadAppliedRevision(t) \/ LoadAllowed(t) \/ LoadRequested(t)
    PROVE  IInv'
  <1>1. /\ tools[t] \in ToolRecords /\ ToolOK(t)
        /\ revision["screenshot"] \in Nat /\ published["screenshot"] \in Values
        /\ permission.applied \in Nat /\ permission.requested \in Values
    BY ToolIs
  <1>2. UNCHANGED <<revision, file, recoverable, published, agent, permission, writeLock,
                    revisionLock, writers, faults, crashes>>
    BY DEF LoadRequestRevision, LoadAppliedRevision, LoadAllowed, LoadRequested, ToolLoad
  <1>3. CASE LoadRequestRevision(t)
    <2> DEFINE r == [tools[t] EXCEPT !.pc = "loaded1", !.requested = revision["screenshot"]]
    <2>1. tools[t].pc = "loop" /\ tools' = [tools EXCEPT ![t] = r]
      BY <1>3 DEF LoadRequestRevision, ToolLoad
    <2>2. /\ r \in ToolRecords /\ r.pc = "loaded1" /\ r.requested = revision["screenshot"]
          /\ r.goal = tools[t].goal /\ r.cap = tools[t].cap /\ r.lease = tools[t].lease
      BY <1>1 DEF ToolRecords, Loading
    <2> HIDE DEF r
    <2>3. (tools'[t] = r) => ToolOK(t)'
      BY <1>1, <1>2, <2>1, <2>2 DEF ToolOK, Fresh, Loading
    <2>4. QED
      BY <1>2, <2>1, <2>2, <2>3, ToolFrame
  <1>4. CASE LoadAppliedRevision(t)
    <2> DEFINE r == [tools[t] EXCEPT !.pc = "loaded2", !.applied = permission.applied]
    <2>1. tools[t].pc = "loaded1" /\ tools' = [tools EXCEPT ![t] = r]
      BY <1>4 DEF LoadAppliedRevision, ToolLoad
    <2>2. /\ r \in ToolRecords /\ r.pc = "loaded2" /\ r.applied = permission.applied
          /\ r.requested = tools[t].requested
          /\ r.goal = tools[t].goal /\ r.cap = tools[t].cap /\ r.lease = tools[t].lease
      BY <1>1 DEF ToolRecords, Loading
    <2> HIDE DEF r
    <2>3. (tools'[t] = r) => ToolOK(t)'
      BY <1>1, <1>2, <2>1, <2>2 DEF ToolOK, Fresh, Loading
    <2>4. QED
      BY <1>2, <2>1, <2>2, <2>3, ToolFrame
  <1>5. CASE LoadAllowed(t)
    <2> DEFINE r == [tools[t] EXCEPT !.pc = "loaded3", !.allowed = published["screenshot"]]
    <2>1. tools[t].pc = "loaded2" /\ tools' = [tools EXCEPT ![t] = r]
      BY <1>5 DEF LoadAllowed, ToolLoad
    <2>2. /\ r \in ToolRecords /\ r.pc = "loaded3" /\ r.allowed = published["screenshot"]
          /\ r.requested = tools[t].requested /\ r.applied = tools[t].applied
          /\ r.goal = tools[t].goal /\ r.cap = tools[t].cap /\ r.lease = tools[t].lease
      BY <1>1 DEF ToolRecords, Loading
    <2> HIDE DEF r
    <2>3. (tools'[t] = r) => ToolOK(t)'
      BY <1>1, <1>2, <2>1, <2>2 DEF ToolOK, Fresh, Loading
    <2>4. QED
      BY <1>2, <2>1, <2>2, <2>3, ToolFrame
  <1>6. CASE LoadRequested(t)
    <2> DEFINE r == [tools[t] EXCEPT !.pc = "loaded4", !.wanted = permission.requested]
    <2>1. tools[t].pc = "loaded3" /\ tools' = [tools EXCEPT ![t] = r]
      BY <1>6 DEF LoadRequested, ToolLoad
    <2>2. /\ r \in ToolRecords /\ r.pc = "loaded4" /\ r.wanted = permission.requested
          /\ r.requested = tools[t].requested /\ r.applied = tools[t].applied
          /\ r.allowed = tools[t].allowed
          /\ r.goal = tools[t].goal /\ r.cap = tools[t].cap /\ r.lease = tools[t].lease
      BY <1>1 DEF ToolRecords, Loading
    <2> HIDE DEF r
    <2>3. (tools'[t] = r) => ToolOK(t)'
      BY <1>1, <1>2, <2>1, <2>2 DEF ToolOK, Fresh, Loading
    <2>4. QED
      BY <1>2, <2>1, <2>2, <2>3, ToolFrame
  <1>7. QED
    BY <1>3, <1>4, <1>5, <1>6

\* The counter has not moved since the first load, so all loads are still true.
LEMMA PermissionAnswerIInv ==
    ASSUME IInv, NEW t \in Tools, PermissionAnswer(t) PROVE IInv'
  <1> DEFINE outcome == IF tools[t].requested # revision["screenshot"] THEN "loop"
                        ELSE IF ~Granted(t) THEN "refused"
                        ELSE IF tools[t].goal = "ask" THEN "capable"
                        ELSE IF tools[t].requested = tools[t].cap THEN "capturing" ELSE "refused"
             cap == IF outcome = "capable" THEN tools[t].requested ELSE tools[t].cap
             lease == tools[t].lease /\ outcome # "refused"
             r == [tools[t] EXCEPT !.pc = outcome, !.cap = cap, !.lease = lease]
  <1>1. /\ tools[t] \in ToolRecords /\ ToolOK(t) /\ revision["screenshot"] \in Nat
        /\ tools[t].pc = "loaded4"
    BY ToolIs DEF PermissionAnswer
  <1>2. UNCHANGED <<revision, file, recoverable, published, agent, permission, writeLock,
                    revisionLock, writers, faults, crashes>>
    BY DEF PermissionAnswer
  <1>3. tools' = [tools EXCEPT ![t].pc = outcome, ![t].cap = cap, ![t].lease = lease]
    BY DEF PermissionAnswer
  <1>4. /\ outcome \in {"loop", "refused", "capable", "capturing"} /\ lease \in BOOLEAN
        /\ outcome \in {"capable", "capturing"} =>
              /\ PermissionOpen /\ tools[t].requested = revision["screenshot"]
              /\ cap = revision["screenshot"]
        /\ outcome = "capturing" => tools[t].goal = "check"
        /\ cap \in {tools[t].requested, tools[t].cap}
    BY <1>1 DEF Granted, ToolOK, Fresh, PermissionOpen, ToolRecords
  <1>5. lease => tools[t].lease
    OBVIOUS
  <1>6. tools[t].lease /\ outcome # "refused" => lease
    OBVIOUS
  <1> HIDE DEF outcome, cap, lease
  <1>7. /\ r \in ToolRecords /\ r.pc = outcome /\ r.cap = cap /\ r.lease = lease
        /\ r.requested = tools[t].requested /\ r.goal = tools[t].goal
    BY <1>1, <1>4 DEF ToolRecords, Loading
  <1>8. tools' = [tools EXCEPT ![t] = r]
    BY <1>1, <1>3 DEF IInv, LocksOK
  <1> HIDE DEF r
  <1>9. (tools'[t] = r) => ToolOK(t)'
    BY <1>1, <1>2, <1>4, <1>5, <1>6, <1>7 DEF ToolOK, Fresh, Loading, PermissionOpen
  <1>10. QED
    BY <1>2, <1>7, <1>8, <1>9, ToolFrame

LEMMA ToolIInv ==
    ASSUME IInv, NEW t \in Tools, AskPermission(t) \/ BeginCapture(t) \/ Dispatched(t)
    PROVE  IInv'
  <1>1. /\ tools[t] \in ToolRecords /\ ToolOK(t) /\ tools \in [Tools -> ToolRecords]
    BY ToolIs DEF IInv, LocksOK
  <1>2. UNCHANGED <<revision, file, recoverable, published, agent, permission, writeLock,
                    revisionLock, writers, faults, crashes>>
    BY DEF AskPermission, BeginCapture, Dispatched
  <1>3. CASE AskPermission(t)
    <2> DEFINE r == [tools[t] EXCEPT !.pc = "loop"]
    <2>1. tools[t].pc = "idle" /\ tools' = [tools EXCEPT ![t] = r]
      BY <1>1, <1>3 DEF AskPermission
    <2>2. /\ r \in ToolRecords /\ r.pc = "loop" /\ r.requested = tools[t].requested
          /\ r.goal = tools[t].goal /\ r.cap = tools[t].cap /\ r.lease = tools[t].lease
      BY <1>1 DEF ToolRecords, Loading
    <2> HIDE DEF r
    <2>3. tools[t].goal = "ask"
      BY <1>1, <2>1 DEF ToolOK, ToolRecords
    <2>4. (tools'[t] = r) => ToolOK(t)'
      BY <1>1, <1>2, <2>1, <2>2, <2>3 DEF ToolOK, Fresh, Loading
    <2>5. QED
      BY <1>2, <2>1, <2>2, <2>4, ToolFrame
  <1>4. CASE BeginCapture(t)
    <2> DEFINE r == [tools[t] EXCEPT !.pc = "loop", !.goal = "check", !.lease = TRUE]
    <2>1. tools[t].pc = "capable" /\ tools' = [tools EXCEPT ![t] = r]
      BY <1>1, <1>4 DEF BeginCapture
    <2>2. /\ r \in ToolRecords /\ r.pc = "loop" /\ r.requested = tools[t].requested
          /\ r.goal = "check" /\ r.cap = tools[t].cap /\ r.lease = TRUE
      BY <1>1 DEF ToolRecords, Loading
    <2> HIDE DEF r
    <2>3. (tools'[t] = r) => ToolOK(t)'
      BY <1>1, <1>2, <2>1, <2>2 DEF ToolOK, Fresh, Loading
    <2>4. QED
      BY <1>2, <2>1, <2>2, <2>3, ToolFrame
  <1>5. CASE Dispatched(t)
    <2> DEFINE r == [tools[t] EXCEPT !.pc = "dispatched", !.lease = FALSE]
    <2>1. tools[t].pc = "capturing" /\ tools' = [tools EXCEPT ![t] = r]
      BY <1>1, <1>5 DEF Dispatched
    <2>2. /\ r \in ToolRecords /\ r.pc = "dispatched" /\ r.requested = tools[t].requested
          /\ r.goal = tools[t].goal /\ r.cap = tools[t].cap /\ r.lease = FALSE
      BY <1>1 DEF ToolRecords, Loading
    <2> HIDE DEF r
    <2>3. (tools'[t] = r) => ToolOK(t)'
      BY <1>1, <1>2, <2>1, <2>2 DEF ToolOK, Fresh, Loading
    <2>4. QED
      BY <1>2, <2>1, <2>2, <2>3, ToolFrame
  <1>6. QED
    BY <1>3, <1>4, <1>5

-----------------------------------------------------------------------------
\* A restart knows no writer, no lock and no capability of the old process.
LEMMA CrashIInv == ASSUME IInv, Crash PROVE IInv'
  <1>1. PICK d \in recoverable : Loaded(d) /\ recoverable' = {d}
    BY DEF Crash
  <1>2. d \in Documents /\ d["llm"] \in Values /\ d["persona"] \in Values
        /\ d["appearance"] \in Values /\ d["screenshot"] \in Values
    BY <1>1 DEF IInv, StoreOK, Documents, Domains, AgentDomains
  <1>3. /\ writers' = [w \in Writers |-> IF Pc(w, "idle") THEN IdleWriter
                                         ELSE [IdleWriter EXCEPT !.pc = "done", !.out = "crashed"]]
        /\ tools' = [t \in Tools |-> IF tools[t].pc = "idle" THEN IdleTool
                                     ELSE [IdleTool EXCEPT !.pc = "refused"]]
        /\ writeLock' = Nobody /\ revisionLock' = Nobody /\ faults' = faults
        /\ crashes' \in 0 .. MaxCrashes
    BY ConfigAssumption DEF Crash, IInv, StoreOK
  <1>4. StoreOK' /\ FileMatchesMemory'
    BY <1>1, <1>2, <1>3 DEF StoreOK, FileMatchesMemory, Loaded, IInv, Snapshots, Documents, Values
  <1>5. /\ IdleWriter \in WriterRecords
        /\ [IdleWriter EXCEPT !.pc = "done", !.out = "crashed"] \in WriterRecords
        /\ IdleTool \in ToolRecords
        /\ [IdleTool EXCEPT !.pc = "refused"] \in ToolRecords
    BY DEF IdleWriter, IdleTool, WriterRecords, ToolRecords, Places, Loading, Documents, Snapshots,
           Values, Domains, AgentDomains
  <1>6. /\ writers' \in [Writers -> WriterRecords] /\ tools' \in [Tools -> ToolRecords]
    BY <1>3, <1>5
  <1>7. \A w \in Writers : /\ writers'[w].pc \in {"idle", "done"} /\ writers'[w].rev = 0
                           /\ writers'[w].domain = "other" /\ writers'[w].out # "applied"
    BY <1>3 DEF IdleWriter
  <1>8. \A t \in Tools : /\ tools'[t].pc \in {"idle", "refused"} /\ tools'[t].requested = 0
                         /\ tools'[t].cap = 0 /\ tools'[t].lease = FALSE /\ tools'[t].goal = "ask"
    BY <1>3 DEF IdleTool
  <1>9. LocksOK'
    BY <1>3, <1>6, <1>7, ConfigAssumption DEF LocksOK, Holding
  <1>10. revision' \in [Domains -> Nat] /\ \A e \in Domains : revision'[e] = 0
    BY <1>1 DEF Loaded
  <1>11. RevisionsOK'
    BY <1>7, <1>10 DEF RevisionsOK, RevisionOf, Ahead, Domains
  <1>12. WorkOK' /\ ChangesOK'
    BY <1>7 DEF WorkOK, WorkOf, ChangesOK, Stands, Lasts
  <1>13. PermissionOK'
    BY <1>1, <1>2, <1>7, <1>10 DEF PermissionOK, Loaded, Ahead, Domains
  <1>14. ToolsOK'
    BY <1>8, <1>10 DEF ToolsOK, ToolOK, Fresh, Loading, Domains
  <1>15. QED
    BY <1>4, <1>9, <1>11, <1>12, <1>13, <1>14 DEF IInv

LEMMA NextIInv == ASSUME IInv, [Next]_vars PROVE IInv'
  <1>1. CASE UNCHANGED vars
    BY <1>1 DEF vars, IInv, StoreOK, LocksOK, RevisionsOK, RevisionOf, Secret, WorkOK, WorkOf,
                Candidate, FileMatchesMemory, ChangesOK, Stands, Lasts, PermissionOK, ToolsOK,
                ToolOK, Fresh, PermissionOpen
  <1>2. ASSUME NEW w \in Writers, WriterStep(w) PROVE IInv'
    BY <1>2, ReserveStoreIInv, LockIInv, PrepareIInv, CommitSupersededIInv, CommitFailedIInv,
       CommitIInv, CommitPermissionIInv, ApplyPermissionIInv, SyncParentIInv DEF WriterStep
  <1>3. ASSUME NEW w \in Writers, NEW d \in Domains, NEW v \in Values, Reserve(w, d, v) PROVE IInv'
    BY <1>3, ReserveIInv
  <1>4. ASSUME NEW t \in Tools, AskPermission(t) \/ ToolStep(t) PROVE IInv'
    BY <1>4, LoadIInv, PermissionAnswerIInv, ToolIInv DEF ToolStep
  <1>5. CASE Crash
    BY <1>5, CrashIInv
  <1>6. QED
    BY <1>1, <1>2, <1>3, <1>4, <1>5 DEF Next, Rest

LEMMA InductiveInvariant == Spec => []IInv
  BY InitIInv, NextIInv, PTL DEF Spec

-----------------------------------------------------------------------------
\* The counters, documents and permission stay typed, and each mutex of the
\* write path is held exactly while its owner is between the steps that take
\* and release it.
THEOREM ConfigTypeCorrect == Spec => []TypeOK
  <1>1. IInv => TypeOK
    BY DEF IInv, StoreOK, LocksOK, ToolsOK, ToolOK, TypeOK, Documents, Snapshots, WriterRecords,
           Places, Holding
  <1>2. QED
    BY <1>1, InductiveInvariant, PTL

\* Background tasks of different domains that commit in any order leave the
\* file, the published values and the agent's snapshot in agreement.
THEOREM MemoryFollowsFile == Spec => []FileMatchesMemory
  <1>1. IInv => FileMatchesMemory
    BY DEF IInv
  <1>2. QED
    BY <1>1, InductiveInvariant, PTL

\* A change that was reserved last is what memory and file say once it was
\* applied, and, when no sync failed, what a power loss leaves.
THEOREM NewestChangeStands == Spec => []NewestChangeLasts
  <1>1. IInv => NewestChangeLasts
    BY DEF IInv, ChangesOK, Stands, Lasts, NewestChangeLasts, NewestRequestStands,
           AcknowledgedIsDurable
  <1>2. QED
    BY <1>1, InductiveInvariant, PTL

\* The lock-free readers of the screenshot permission hand out a capability,
\* and the lease lets a capture start, only under the newest, stored grant.
THEOREM CapturesArePermitted == Spec => []CaptureIsPermitted
  <1>1. IInv => CaptureIsPermitted
    BY DEF IInv, PermissionOK, ToolsOK, ToolOK, CaptureIsPermitted, GrantIsOnDisk,
           CapabilityIsGranted, CaptureUnderPermission, PermissionOpen
  <1>2. QED
    BY <1>1, InductiveInvariant, PTL

\* No writer that was overtaken by a revocation stores its grant: the check
\* under the revision lock compares the requested value and the revision.
LEMMA FileStaysClosed ==
    ASSUME IInv, [Next]_vars
    PROVE  (permission.requested = 0 /\ file["screenshot"] = 0 /\ crashes' = crashes)
              => file'["screenshot"] = 0
  <1> SUFFICES ASSUME permission.requested = 0, file["screenshot"] = 0, crashes' = crashes,
                      file' # file
               PROVE  file'["screenshot"] = 0
    OBVIOUS
  <1>1. ~Crash
    BY DEF Crash, IInv, StoreOK
  <1>2. PICK w \in Writers : Commit(w) \/ CommitPermission(w)
    <2>1. PICK w \in Writers : WriterStep(w)
      BY <1>1 DEF Next, Rest, vars, Reserve, AskPermission, ToolStep, LoadRequestRevision,
                  LoadAppliedRevision, LoadAllowed, LoadRequested, ToolLoad, PermissionAnswer,
                  BeginCapture, Dispatched
    <2>2. QED
      BY <2>1 DEF WriterStep, ReserveStore, Lock, Prepare, FailWrite, CommitSuperseded,
                  CommitFailed, ApplyPermission, SyncParent
  <1>3. Rename(w) /\ writers[w].pc = "prepared" /\ Current(w)
    BY <1>2 DEF Commit, CommitPermission, Pc
  <1>4. CASE Secret(w)
    BY <1>3, <1>4, RenameIs DEF Current, Secret
  <1>5. CASE ~Secret(w)
    BY <1>3, <1>5, RenameIs DEF Secret, Domains
  <1>6. QED
    BY <1>4, <1>5

\* A revoked or failed permission is not written back as a grant by a task
\* that was still on its way.
THEOREM RevocationStays == Spec => ClosedIsNotReopened
  BY InductiveInvariant, FileStaysClosed, PTL DEF Spec, ClosedIsNotReopened

=============================================================================
