---------------------------- MODULE ConfigCommit ----------------------------
(***************************************************************************)
(* Settings of lunamate-config: one TOML file and the values published     *)
(* from it (commit.rs, persistence.rs, revision.rs, access.rs,             *)
(* atomic_file.rs).  The UI reserves a revision of a domain for each       *)
(* change and hands it to a background task; tasks take the write lock in  *)
(* any order.  The final check, the rename and the publication happen      *)
(* under the revision lock, which a reservation needs as well; the sync of *)
(* the parent directory does not.                                          *)
(*                                                                         *)
(* The screenshot permission is a domain of its own kind: it is revoked by *)
(* the reservation, opened only by a finished write, closed when a write   *)
(* fails, and read without a lock.  Values are 0 and 1; for the permission *)
(* 1 is granted.                                                           *)
(***************************************************************************)
EXTENDS Naturals, FiniteSets

CONSTANTS
    Writers,     \* slots, each for one change of a setting
    Tools,       \* tool executions that use the screenshot permission
    Changes,     \* Changes[w]: what slot w may set, as domain and value
    MaxFaults,   \* bound on failing file operations
    MaxCrashes   \* bound on crashes

AgentDomains == {"llm", "persona"}
Domains == AgentDomains \cup {"appearance", "screenshot", "other"}
Values == {0, 1}
Nobody == "nobody"

ASSUME ConfigAssumption ==
    /\ Changes \in [Writers -> SUBSET (Domains \X Values)]
    /\ MaxFaults \in Nat /\ MaxCrashes \in Nat
    /\ Nobody \notin Writers

VARIABLES
    revision,     \* the request counter of each domain
    file,         \* the document a reader of config.toml sees
    recoverable,  \* the documents a crash may leave in its place
    published,    \* the value of each domain in memory
    agent,        \* AgentConfigSnapshot: llm, persona, language, generation
    permission,   \* requested, applied, retry of the screenshot permission
    writeLock,    \* holder of write_lock
    revisionLock, \* holder of revision_lock across the steps of one writer
    writers,      \* what each change is doing
    tools,        \* what each tool execution is doing
    faults, crashes

vars == <<revision, file, recoverable, published, agent, permission, writeLock,
          revisionLock, writers, tools, faults, crashes>>

IdleWriter == [pc |-> "idle", domain |-> "other", rev |-> 0, value |-> 0,
               doc |-> [d \in Domains |-> 0],
               next |-> [llm |-> 0, persona |-> 0, language |-> 0, generation |-> 0],
               out |-> "none"]

IdleTool == [pc |-> "idle", goal |-> "ask", requested |-> 0, applied |-> 0,
             allowed |-> 0, wanted |-> 0, cap |-> 0, lease |-> FALSE]

\* load_from_optional_path with document d.
Loaded(d) ==
    /\ file' = d
    /\ published' = d
    /\ agent' = [llm |-> d["llm"], persona |-> d["persona"],
                 language |-> d["appearance"], generation |-> 1]
    /\ permission' = [requested |-> d["screenshot"], applied |-> 0, retry |-> FALSE]
    /\ revision' = [e \in Domains |-> 0]

Init ==
    /\ \E granted \in Values : file = [[d \in Domains |-> 0] EXCEPT !["screenshot"] = granted]
    /\ recoverable = {file}
    /\ published = file
    /\ agent = [llm |-> 0, persona |-> 0, language |-> 0, generation |-> 1]
    /\ permission = [requested |-> file["screenshot"], applied |-> 0, retry |-> FALSE]
    /\ revision = [d \in Domains |-> 0]
    /\ writeLock = Nobody /\ revisionLock = Nobody
    /\ writers = [w \in Writers |-> IdleWriter]
    /\ tools = [t \in Tools |-> IdleTool]
    /\ faults = 0 /\ crashes = 0

-----------------------------------------------------------------------------
Pc(w, pc) == writers[w].pc = pc
Goto(w, pc) == writers' = [writers EXCEPT ![w].pc = pc]
Return(w, out) ==
    writers' = [writers EXCEPT ![w] = [IdleWriter EXCEPT !.pc = "done", !.out = out,
                   !.domain = writers[w].domain, !.rev = writers[w].rev, !.value = writers[w].value]]
Secret(w) == writers[w].domain = "screenshot"

\* reserve_request_revision.  The screenshot permission also takes the
\* execution gate, which waits until no tool holds a lease, and stores the
\* request in a second step that lock-free readers can see separately.  The
\* settings page asks for a grant only while it shows none.
Reserve(w, d, v) ==
    /\ Pc(w, "idle") /\ <<d, v>> \in Changes[w]
    /\ revisionLock = Nobody
    /\ d = "screenshot" => \A t \in Tools : ~tools[t].lease
    /\ d = "screenshot" /\ v = 1 => permission.requested = 0
    /\ revision' = [revision EXCEPT ![d] = @ + 1]
    /\ writers' = [writers EXCEPT ![w] = [IdleWriter EXCEPT
          !.domain = d, !.value = v, !.rev = revision[d] + 1,
          !.pc = IF d = "screenshot" THEN "reserving" ELSE "reserved"]]
    /\ revisionLock' = IF d = "screenshot" THEN w ELSE Nobody
    /\ UNCHANGED <<file, recoverable, published, agent, permission, writeLock, tools, faults, crashes>>

ReserveStore(w) ==
    /\ Pc(w, "reserving")
    /\ permission' = [permission EXCEPT !.requested = writers[w].value, !.retry = FALSE]
    /\ revisionLock' = Nobody
    /\ Goto(w, "reserved")
    /\ UNCHANGED <<revision, file, recoverable, published, agent, writeLock, tools, faults, crashes>>

\* Variant: the revision is not compared.
CurrentAlways(w) == TRUE

\* revision_is_current; screenshot_request_is_current compares the value too.
Current(w) ==
    /\ revision[writers[w].domain] = writers[w].rev
    /\ Secret(w) => permission.requested = writers[w].value

\* edit_config_at_revision and its siblings: the write lock is taken, a
\* superseded request is dropped.  The candidate snapshot of an agent domain
\* is built here, from the snapshot of the moment.
Candidate(w) ==
    [llm |-> IF writers[w].domain = "llm" THEN writers[w].value ELSE agent.llm,
     persona |-> IF writers[w].domain = "persona" THEN writers[w].value ELSE agent.persona,
     language |-> published["appearance"],
     generation |-> agent.generation + 1]

\* Variant: the change is prepared without the write lock.
LockWithoutMutex(w) ==
    /\ Pc(w, "reserved")
    /\ Current(w)
    /\ writeLock' = w
    /\ writers' = [writers EXCEPT ![w].pc = "locked",
          ![w].next = IF writers[w].domain \in AgentDomains THEN Candidate(w) ELSE @]
    /\ UNCHANGED <<revision, file, recoverable, published, agent, permission, revisionLock,
                   tools, faults, crashes>>

Lock(w) ==
    /\ Pc(w, "reserved")
    /\ writeLock = Nobody
    /\ IF Current(w)
       THEN /\ writeLock' = w
            /\ writers' = [writers EXCEPT ![w].pc = "locked",
                  ![w].next = IF writers[w].domain \in AgentDomains THEN Candidate(w) ELSE @]
       ELSE Return(w, "superseded") /\ UNCHANGED writeLock
    /\ UNCHANGED <<revision, file, recoverable, published, agent, permission, revisionLock,
                   tools, faults, crashes>>

\* A failing file operation ends the change; fail_screenshot_persistence_locked
\* closes the permission if the request is still the newest.
Closed(w) == [permission EXCEPT !.requested = 0, !.retry = (writers[w].value = 0)]

FailWrite(w) ==
    /\ faults < MaxFaults
    /\ faults' = faults + 1
    /\ Secret(w) => revisionLock = Nobody
    /\ IF Secret(w) /\ Current(w)
       THEN /\ published' = [published EXCEPT !["screenshot"] = 0]
            /\ permission' = Closed(w)
       ELSE UNCHANGED <<published, permission>>
    /\ writeLock' = Nobody
    /\ Return(w, "error")
    /\ UNCHANGED <<revision, file, recoverable, agent, revisionLock, tools, crashes>>

\* prepare_document_locked: the file is read, changed and written beside.
Prepare(w) ==
    /\ Pc(w, "locked")
    /\ \/ /\ writers' = [writers EXCEPT ![w].pc = "prepared",
                            ![w].doc = [file EXCEPT ![writers[w].domain] = writers[w].value]]
          /\ UNCHANGED <<revision, file, recoverable, published, agent, permission, writeLock,
                         revisionLock, tools, faults, crashes>>
       \/ FailWrite(w)

\* commit_prepared_config_at_revision.  Superseded meanwhile:
CommitSuperseded(w) ==
    /\ Pc(w, "prepared")
    /\ revisionLock = Nobody
    /\ ~Current(w)
    /\ writeLock' = Nobody
    /\ Return(w, "superseded")
    /\ UNCHANGED <<revision, file, recoverable, published, agent, permission, revisionLock,
                   tools, faults, crashes>>

\* ... or the rename fails, ...
CommitFailed(w) ==
    /\ Pc(w, "prepared")
    /\ revisionLock = Nobody
    /\ Current(w)
    /\ FailWrite(w)

\* ... or makes the document visible and publishes it.
Rename(w) ==
    /\ file' = writers[w].doc
    /\ recoverable' = recoverable \cup {writers[w].doc}

Publish(w) ==
    /\ published' = [published EXCEPT ![writers[w].domain] = writers[w].value]
    /\ agent' = IF writers[w].domain \in AgentDomains THEN writers[w].next
                ELSE IF writers[w].domain = "appearance" /\ published["appearance"] # writers[w].value
                THEN [agent EXCEPT !.language = writers[w].value, !.generation = @ + 1]
                ELSE agent

Commit(w) ==
    /\ Pc(w, "prepared") /\ ~Secret(w)
    /\ revisionLock = Nobody
    /\ Current(w)
    /\ Rename(w) /\ Publish(w)
    /\ Goto(w, "visible")
    /\ UNCHANGED <<revision, permission, writeLock, revisionLock, tools, faults, crashes>>

\* Variant: the request is not checked again before the rename.
CommitPermissionUnchecked(w) ==
    /\ Pc(w, "prepared") /\ Secret(w)
    /\ revisionLock = Nobody
    /\ Rename(w)
    /\ published' = [published EXCEPT !["screenshot"] = writers[w].value]
    /\ revisionLock' = w
    /\ Goto(w, "stored")
    /\ UNCHANGED <<revision, agent, permission, writeLock, tools, faults, crashes>>

\* The permission is published in separate stores under the revision lock:
\* allowed first, then the revision that makes it count.
CommitPermission(w) ==
    /\ Pc(w, "prepared") /\ Secret(w)
    /\ revisionLock = Nobody
    /\ Current(w)
    /\ Rename(w)
    /\ published' = [published EXCEPT !["screenshot"] = writers[w].value]
    /\ revisionLock' = w
    /\ Goto(w, "stored")
    /\ UNCHANGED <<revision, agent, permission, writeLock, tools, faults, crashes>>

ApplyPermission(w) ==
    /\ Pc(w, "stored")
    /\ permission' = [permission EXCEPT !.applied = writers[w].rev, !.retry = FALSE]
    /\ revisionLock' = Nobody
    /\ Goto(w, "visible")
    /\ UNCHANGED <<revision, file, recoverable, published, agent, writeLock, tools, faults, crashes>>

\* sync_config_file_parent: a failure is only logged.
SyncParent(w) ==
    /\ Pc(w, "visible")
    /\ \/ recoverable' = {file} /\ UNCHANGED faults
       \/ faults < MaxFaults /\ faults' = faults + 1 /\ UNCHANGED recoverable
    /\ writeLock' = Nobody
    /\ Return(w, "applied")
    /\ UNCHANGED <<revision, file, published, agent, permission, revisionLock, tools, crashes>>

-----------------------------------------------------------------------------
\* agent_screenshot_permission_revision: four loads without a lock, and the
\* counter once more.  The second answer is used to check a capability.
ToolLoad(t, from, loaded) ==
    /\ tools[t].pc = from
    /\ tools' = [tools EXCEPT ![t] = loaded]
    /\ UNCHANGED <<revision, file, recoverable, published, agent, permission, writeLock,
                   revisionLock, writers, faults, crashes>>

LoadRequestRevision(t) ==
    ToolLoad(t, "loop", [tools[t] EXCEPT !.pc = "loaded1", !.requested = revision["screenshot"]])
LoadAppliedRevision(t) ==
    ToolLoad(t, "loaded1", [tools[t] EXCEPT !.pc = "loaded2", !.applied = permission.applied])
LoadAllowed(t) ==
    ToolLoad(t, "loaded2", [tools[t] EXCEPT !.pc = "loaded3", !.allowed = published["screenshot"]])
LoadRequested(t) ==
    ToolLoad(t, "loaded3", [tools[t] EXCEPT !.pc = "loaded4", !.wanted = permission.requested])

\* Variant: the revision of the finished write is not compared.
GrantedBeforeApplied(t) == tools[t].allowed = 1 /\ tools[t].wanted = 1

Granted(t) ==
    /\ tools[t].allowed = 1
    /\ tools[t].wanted = 1
    /\ tools[t].applied = tools[t].requested

\* The loop ends when the counter has not moved.  A request keeps the revision
\* as its capability; a capture compares it and dispatches under the lease.
PermissionAnswer(t) ==
    /\ tools[t].pc = "loaded4"
    /\ LET r == tools[t].requested
           outcome == IF r # revision["screenshot"] THEN "loop"
                      ELSE IF ~Granted(t) THEN "refused"
                      ELSE IF tools[t].goal = "ask" THEN "capable"
                      ELSE IF r = tools[t].cap THEN "capturing" ELSE "refused"
       IN  tools' = [tools EXCEPT ![t].pc = outcome,
                        ![t].cap = IF outcome = "capable" THEN r ELSE @,
                        ![t].lease = @ /\ outcome # "refused"]
    /\ UNCHANGED <<revision, file, recoverable, published, agent, permission, writeLock,
                   revisionLock, writers, faults, crashes>>

\* host_screenshot_capability, when the request is composed.
AskPermission(t) ==
    /\ tools[t].pc = "idle"
    /\ tools' = [tools EXCEPT ![t].pc = "loop"]
    /\ UNCHANGED <<revision, file, recoverable, published, agent, permission, writeLock,
                   revisionLock, writers, faults, crashes>>

\* begin_agent_screenshot_capture: the gate is read-locked before the check.
\* A reservation holds it for writing over both of its steps.
BeginCapture(t) ==
    /\ tools[t].pc = "capable"
    /\ \A w \in Writers : ~Pc(w, "reserving")
    /\ tools' = [tools EXCEPT ![t].pc = "loop", ![t].goal = "check", ![t].lease = TRUE]
    /\ UNCHANGED <<revision, file, recoverable, published, agent, permission, writeLock,
                   revisionLock, writers, faults, crashes>>

\* The platform task was spawned; the lease is dropped.
Dispatched(t) ==
    /\ tools[t].pc = "capturing"
    /\ tools' = [tools EXCEPT ![t].pc = "dispatched", ![t].lease = FALSE]
    /\ UNCHANGED <<revision, file, recoverable, published, agent, permission, writeLock,
                   revisionLock, writers, faults, crashes>>

-----------------------------------------------------------------------------
\* The process dies; the next start reads what the crash left.
Crash ==
    /\ crashes < MaxCrashes
    /\ crashes' = crashes + 1
    /\ \E d \in recoverable : Loaded(d) /\ recoverable' = {d}
    /\ writeLock' = Nobody /\ revisionLock' = Nobody
    /\ writers' = [w \in Writers |-> IF Pc(w, "idle") THEN IdleWriter
                                     ELSE [IdleWriter EXCEPT !.pc = "done", !.out = "crashed"]]
    /\ tools' = [t \in Tools |-> IF tools[t].pc = "idle" THEN IdleTool
                                 ELSE [IdleTool EXCEPT !.pc = "refused"]]
    /\ UNCHANGED faults

WriterStep(w) ==
    \/ ReserveStore(w) \/ Lock(w) \/ Prepare(w) \/ CommitSuperseded(w) \/ CommitFailed(w)
    \/ Commit(w) \/ CommitPermission(w) \/ ApplyPermission(w) \/ SyncParent(w)

ToolStep(t) ==
    \/ LoadRequestRevision(t) \/ LoadAppliedRevision(t) \/ LoadAllowed(t) \/ LoadRequested(t)
    \/ PermissionAnswer(t) \/ BeginCapture(t) \/ Dispatched(t)

Quiet == /\ \A w \in Writers : writers[w].pc \in {"idle", "done"}
         /\ \A t \in Tools : tools[t].pc \in {"idle", "refused", "dispatched"}
Rest == Quiet /\ UNCHANGED vars

Next ==
    \/ \E w \in Writers : WriterStep(w) \/ \E d \in Domains, v \in Values : Reserve(w, d, v)
    \/ \E t \in Tools : AskPermission(t) \/ ToolStep(t)
    \/ Crash \/ Rest

Spec == Init /\ [][Next]_vars

-----------------------------------------------------------------------------
\* The state is well typed, and the locks are held exactly during the steps
\* the guards of the Rust scopes span.
TypeOK ==
    /\ revision \in [Domains -> Nat]
    /\ file \in [Domains -> Values] /\ published \in [Domains -> Values]
    /\ recoverable \subseteq [Domains -> Values] /\ file \in recoverable
    /\ agent \in [llm : Values, persona : Values, language : Values, generation : Nat \ {0}]
    /\ permission \in [requested : Values, applied : Nat, retry : BOOLEAN]
    /\ faults \in 0..MaxFaults /\ crashes \in 0..MaxCrashes
    /\ \A w \in Writers :
          /\ writers[w].pc \in {"idle", "reserving", "reserved", "locked", "prepared", "stored",
                                "visible", "done"}
          /\ (writeLock = w) <=> (writers[w].pc \in {"locked", "prepared", "stored", "visible"})
          /\ (revisionLock = w) <=> (writers[w].pc \in {"reserving", "stored"})
    /\ \A t \in Tools : tools[t].lease => tools[t].goal = "check"

\* What the program reads from memory is what config.toml says, whichever
\* tasks write different domains at the same time: no write drops the
\* change of another, neither in the file nor in the agent's snapshot, which
\* a domain's task builds before its rename.  The permission is the exception.
FileMatchesMemory ==
    /\ \A d \in Domains \ {"screenshot"} : published[d] = file[d]
    /\ agent.llm = file["llm"] /\ agent.persona = file["persona"]
    /\ agent.language = file["appearance"]

\* Of all changes of a domain the newest reserved one stays, in the order of
\* the reservations and not of the background tasks.
NewestRequestStands ==
    \A w \in Writers :
        writers[w].out = "applied" /\ writers[w].rev = revision[writers[w].domain] =>
            /\ published[writers[w].domain] = writers[w].value
            /\ file[writers[w].domain] = writers[w].value

\* A change that was reported as saved is still there after a power loss,
\* unless a sync failed.
AcknowledgedIsDurable ==
    faults = 0 =>
        \A w \in Writers :
            writers[w].out = "applied" /\ writers[w].rev = revision[writers[w].domain] =>
                \A d \in recoverable : d[writers[w].domain] = writers[w].value

\* The newest change of a domain stands, in memory, in the file and after a crash.
NewestChangeLasts == NewestRequestStands /\ AcknowledgedIsDurable

\* What a reader without locks would be told of the permission now.
PermissionOpen == /\ published["screenshot"] = 1 /\ permission.requested = 1
                  /\ permission.applied = revision["screenshot"]

\* The permission is never open in memory while the file denies it.
GrantIsOnDisk == PermissionOpen => file["screenshot"] = 1

\* A capability composed from four unlocked loads is worth no more than the
\* permission: as long as its revision is the newest, the permission is open.
CapabilityIsGranted ==
    \A t \in Tools :
        tools[t].pc = "capable" /\ tools[t].cap = revision["screenshot"] => PermissionOpen

\* The platform capture is dispatched under the permission it was asked
\* under: no revocation, failure or newer grant comes between the check and
\* the dispatch.
CaptureUnderPermission ==
    \A t \in Tools :
        tools[t].pc = "capturing" => PermissionOpen /\ tools[t].cap = revision["screenshot"]

\* The permission is open, a capability is handed out and a capture starts
\* only under a grant that is the newest request and on disk.
CaptureIsPermitted == GrantIsOnDisk /\ CapabilityIsGranted /\ CaptureUnderPermission

\* Once a revocation is requested, or forced by a failure, the running
\* program does not write a grant to the file until a newer one is requested.
ClosedIsNotReopened ==
    [][permission.requested = 0 /\ file["screenshot"] = 0 /\ crashes' = crashes
          => file'["screenshot"] = 0]_vars

\* When nothing runs, a permission that is closed is closed in the file too,
\* or the retry flag says that the file is behind (access.rs).
ClosedIsOnDiskOrRetried ==
    Quiet /\ permission.requested = 0 /\ file["screenshot"] = 1 => permission.retry
=============================================================================
