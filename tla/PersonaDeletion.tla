-------------------------- MODULE PersonaDeletion --------------------------
(***************************************************************************)
(* Deleting a persona and forgetting it (ui/settings/agent/persona,        *)
(* ui/settings/lifecycle.rs, lunamate-agent memory.rs).  The settings are  *)
(* published first with a tombstone; only then are the conversation and    *)
(* the memories of the id deleted; a second write removes the tombstone,   *)
(* and only after that may the id name another persona.  Several editors   *)
(* may be at work: the one of the open window and those of closed windows  *)
(* whose writes or cleanups have not ended, besides the cleanup at the     *)
(* start of the program.  A crash loses all of them.                       *)
(*                                                                         *)
(* A handler of the UI thread is one action.  A persona is the number of   *)
(* its birth, so that two personas with the same id can be told apart;     *)
(* 0 is none.  Which persona is selected does not matter here: the agent   *)
(* may store something for any published one.  Nor do the writes made on   *)
(* the way out of the program, which a crash may always lose.  A crash is  *)
(* one of the process: that a power loss may undo a rename is the matter   *)
(* of ConfigCommit.                                                        *)
(***************************************************************************)
EXTENDS Naturals, FiniteSets, FiniteSetsExt

CONSTANTS
    MaxId,       \* the ids are 1 .. MaxId
    MaxBorn,     \* bound on personas ever created
    MaxWindows,  \* bound on settings windows between two starts
    MaxFaults,   \* bound on failing writes and deletions, and on invalid inputs
    MaxCrashes,
    Inputs       \* how many inputs of the user may be handled between the end of a
                 \* task and the handler of its result

Ids == 1 .. MaxId
Parts == {"context", "memory"}

ASSUME DeletionAssumption ==
    /\ {MaxWindows, MaxFaults, MaxCrashes, Inputs} \subseteq Nat
    /\ MaxId \in Nat /\ MaxBorn \in Nat /\ 2 <= MaxId /\ 2 <= MaxBorn

VARIABLES
    published,  \* the persona settings of CONFIG, in memory and in the file
    stored,     \* stored[id][part]: the persona whose data the database holds
    s,          \* what the process does, see Startup
    used        \* births, faults and crashes; and, as history, the ids that named
                \* another persona while the claim on their cleanup was still held

vars == <<published, stored, s, used>>

Nothing == [part \in Parts |-> 0]
Startups == 0            \* owner of work that belongs to no editor
NoDraft == [kept |-> FALSE]
Blank == [active |-> [id \in Ids |-> 0], pending |-> {}, valid |-> TRUE]

NoEditor == [status |-> "unused", draft |-> Blank, submitted |-> Blank,
             reserved |-> {}, cleaning |-> {}, last |-> 0]
Cleanup(id, owner) == [id |-> id, owner |-> owner, context |-> "todo", memory |-> "todo",
                        waited |-> 0]

\* start_pending_persona_cleanup: the program starts from the settings it reads.
Startup ==
    [revision |-> 0, writes |-> {}, draft |-> NoDraft, windows |-> 0,
     editors |-> [e \in 1 .. MaxWindows |-> NoEditor],
     claims |-> [id \in Ids |-> IF id \in published.pending THEN "inflight" ELSE "none"],
     cleanups |-> {Cleanup(id, Startups) : id \in published.pending}]

Init ==
    /\ published = [active |-> [id \in Ids |-> IF id <= 2 THEN id ELSE 0],
                    pending |-> {}, valid |-> TRUE]
    /\ stored = [id \in Ids |-> Nothing]
    /\ s = Startup
    /\ used = [born |-> 2, faults |-> 0, crashes |-> 0, early |-> {}]

AFault == used.faults < MaxFaults /\ used' = [used EXCEPT !.faults = @ + 1]

-----------------------------------------------------------------------------
(* The claims that AgentMemory keeps on cleanups.                          *)

Completed(t) == {id \in Ids : t.claims[id] = "completed"}

Set(t, ids, claim) == [t EXCEPT !.claims = [id \in Ids |-> IF id \in ids THEN claim ELSE @[id]]]

\* release_deleted_persona_cleanup
ReleaseClaims(t, ids) == Set(t, ids \cap Completed(t), "none")

-----------------------------------------------------------------------------
(* An editor (PersonaSettingsView).                                        *)

Active(t) == {e \in 1 .. MaxWindows : t.editors[e].status = "active"}
Alive(t, e) == e # Startups /\ t.editors[e].status \in {"active", "retired"}

\* Variant: an id is cleaned as soon as the draft has dropped it.
RetryUnpublished(t, e) ==
    LET ed == t.editors[e]
        start == {id \in ed.draft.pending : id \notin ed.cleaning /\ t.claims[id] = "none"}
    IN  [Set(t, start, "inflight") EXCEPT
            !.editors[e].cleaning = @ \cup start,
            !.cleanups = @ \cup {Cleanup(id, e) : id \in start}]

\* retry_pending_persona_cleanup, and the claim each clear_memory is run under.
Retry(t, e) ==
    LET ed == t.editors[e]
        start == {id \in ed.draft.pending \cap published.pending :
                     id \notin ed.cleaning /\ t.claims[id] = "none"}
    IN  [Set(t, start, "inflight") EXCEPT
            !.editors[e].reserved =
                (@ \cap (ed.draft.pending \cup ed.cleaning)) \cup published.pending,
            !.editors[e].cleaning = @ \cup start,
            !.cleanups = @ \cup {Cleanup(id, e) : id \in start}]

\* normalized rejects an invalid form and a persona with a tombstone.
Normal(settings) == settings.valid /\ \A id \in settings.pending : settings.active[id] = 0

Submit(t, owner, settings) ==
    [t EXCEPT !.revision = @ + 1,
              !.writes = @ \cup {[owner |-> owner, rev |-> t.revision + 1,
                                  settings |-> settings, out |-> "running", waited |-> 0]}]

\* save
Save(t, e) ==
    LET draft == t.editors[e].draft
    IN  IF ~Normal(draft) THEN t
        ELSE IF draft = t.editors[e].submitted THEN Retry(t, e)
        ELSE [Submit(t, e, draft) EXCEPT !.editors[e].submitted = draft,
                                         !.editors[e].last = t.revision + 1]

\* finish_persona_cleanup
Finish(t, e, id) ==
    IF id \in t.editors[e].draft.pending
    THEN Save([t EXCEPT !.editors[e].draft.pending = @ \ {id}], e) ELSE t

FinishAll(t, e, ids) == FoldSet(LAMBDA id, u : Finish(u, e, id), t, ids)

\* emit_save_finished_if_idle: the settings let go of the editor of a closed window.
DropIdle(t, e) ==
    IF /\ t.editors[e].status = "retired"
       /\ t.editors[e].cleaning = {}
       /\ \A w \in t.writes : w.owner # e
    THEN [t EXCEPT !.editors[e] = [NoEditor EXCEPT !.status = "gone"]] ELSE t

-----------------------------------------------------------------------------
(* The settings (SettingsView).                                            *)

\* release_published_persona_cleanups
Release(t) ==
    LET gone == Completed(t) \ published.pending
        u == ReleaseClaims(t, gone)
    IN  [u EXCEPT
            !.editors = [e \in 1 .. MaxWindows |->
                IF e \notin Active(t) THEN @[e]
                ELSE [@[e] EXCEPT !.draft.pending = @ \ gone, !.submitted.pending = @ \ gone,
                                  !.reserved = @ \ gone]],
            !.draft = IF @.kept THEN [@ EXCEPT !.settings.pending = @ \ gone,
                                               !.reserved = @ \ gone] ELSE @]

\* PersonaSettingsDraft::current
KeptDraft(t) ==
    IF t.draft.kept THEN t.draft
    ELSE [kept |-> TRUE, settings |-> published, reserved |-> published.pending]

\* finish_deleted_persona_cleanup
FinishDeleted(t) ==
    LET done == Completed(t) \cap published.pending
        draft == KeptDraft(t)
        kept == [t EXCEPT !.draft = [draft EXCEPT !.settings.pending = @ \ done]]
    IN  IF Active(t) # {}
        THEN Release(FoldSet(LAMBDA e, u : FinishAll(u, e, done), t, Active(t)))
        ELSE IF draft.settings.pending \cap done = {} \/ kept.draft.settings = published
        THEN Release(kept)
        ELSE Submit(kept, Startups, kept.draft.settings)

-----------------------------------------------------------------------------
(* The UI thread.  The result of a task waits until its handler runs.  The  *)
(* thread is faster than a file or the database: no task ends while an      *)
(* older result is kept waiting by another handler.                         *)

Ended(w) == w.out # "running"
BothEnded(c) == "todo" \notin {c.context, c.memory}

NoneIsKeptWaiting ==
    /\ \A w \in s.writes : w.waited = 0
    /\ \A c \in s.cleanups : c.waited = 0

\* What every handler does to the results it comes before.
Passed(t) ==
    [t EXCEPT !.writes = {IF Ended(w) THEN [w EXCEPT !.waited = @ + 1] ELSE w : w \in @},
              !.cleanups = {IF BothEnded(c) THEN [c EXCEPT !.waited = @ + 1] ELSE c : c \in @}]

\* An input may come before results that so few handlers kept waiting.
Input ==
    /\ \A w \in s.writes : Ended(w) => w.waited < Inputs
    /\ \A c \in s.cleanups : BothEnded(c) => c.waited < Inputs

-----------------------------------------------------------------------------
(* The user.                                                               *)

Edit(e, draft) == s' = Save([Passed(s) EXCEPT !.editors[e].draft = draft], e)

\* next_persona_id
FreeIds(ed) == {id \in Ids : /\ ed.draft.active[id] = 0
                             /\ id \notin ed.draft.pending \cup ed.reserved}

\* add_persona
Add(e) ==
    LET ed == s.editors[e]
        id == Min(FreeIds(ed))
    IN  /\ Input /\ used.born < MaxBorn /\ FreeIds(ed) # {}
        /\ used' = [used EXCEPT !.born = @ + 1, !.early = @ \cup ({id} \cap Completed(s))]
        /\ Edit(e, [ed.draft EXCEPT !.active[id] = used.born + 1])
        /\ UNCHANGED <<published, stored>>

\* delete_persona
Delete(e, id) ==
    LET ed == s.editors[e]
        draft == [ed.draft EXCEPT !.active[id] = 0, !.pending = @ \cup {id}]
    IN  /\ Input /\ ed.draft.active[id] # 0
        /\ \E other \in Ids \ {id} : ed.draft.active[other] # 0
        /\ s' = Save([Passed(s) EXCEPT !.editors[e].draft = draft,
                                       !.editors[e].reserved = @ \cup {id}], e)
        /\ UNCHANGED <<published, stored, used>>

\* A field of the form becomes invalid, or valid again.
Type(e) ==
    /\ Input
    /\ IF s.editors[e].draft.valid THEN AFault ELSE UNCHANGED used
    /\ Edit(e, [s.editors[e].draft EXCEPT !.valid = ~@])
    /\ UNCHANGED <<published, stored>>

\* The focus leaves a field, or another page is selected, and nothing changed.
Leave(e) ==
    /\ Input
    /\ Edit(e, s.editors[e].draft)
    /\ UNCHANGED <<published, stored, used>>

\* activate_persona_settings
Open ==
    /\ Input
    /\ Active(s) = {} /\ s.windows < MaxWindows
    /\ LET e == s.windows + 1
           draft == KeptDraft(s)
           new == [NoEditor EXCEPT !.status = "active",
                                   !.draft = draft.settings, !.submitted = published,
                                   !.reserved = draft.reserved \cup draft.settings.pending]
           opened == [Passed(s) EXCEPT !.windows = e, !.draft = NoDraft, !.editors[e] = new]
       IN  s' = Release(Save(FinishAll(opened, e, Completed(s) \cap published.pending), e))
    /\ UNCHANGED <<published, stored, used>>

\* deactivate_window and take_window_state
Close(e) ==
    /\ Input
    /\ LET t == Save(Passed(s), e)
       IN  s' = DropIdle([t EXCEPT
               !.editors[e].status = "retired",
               !.draft = [kept |-> TRUE, settings |-> t.editors[e].draft,
                          reserved |-> t.editors[e].reserved]], e)
    /\ UNCHANGED <<published, stored, used>>

User == \E e \in Active(s) : \/ Add(e) \/ Type(e) \/ Leave(e) \/ Close(e)
                             \/ \E id \in Ids : Delete(e, id)

-----------------------------------------------------------------------------
(* Writes of the settings.                                                 *)

Becomes(w, out) == s' = [s EXCEPT !.writes = (@ \ {w}) \cup {[w EXCEPT !.out = out]}]

\* set_persona_settings_at_revision on a background thread.  An error may come
\* before the settings are published or, when the directory is synced, after it.
Commit(w) ==
    /\ w.out = "running" /\ NoneIsKeptWaiting
    /\ \/ /\ w.rev = s.revision /\ Normal(w.settings)
          /\ published' = w.settings
          /\ \/ Becomes(w, "published") /\ UNCHANGED used
             \/ Becomes(w, "error") /\ AFault
       \/ /\ w.rev # s.revision /\ Normal(w.settings)
          /\ Becomes(w, "superseded")
          /\ UNCHANGED <<published, used>>
       \/ /\ Becomes(w, "error")
          /\ IF Normal(w.settings) THEN AFault ELSE UNCHANGED used
          /\ UNCHANGED published
    /\ UNCHANGED stored

\* The editor hears of its write.
Heard(t, e, w) ==
    LET ed == t.editors[e]
    IN  IF w.out = "published"
        THEN Retry([ReleaseClaims(t, ed.reserved \ w.settings.pending) EXCEPT
                       !.editors[e].reserved = @ \cap (w.settings.pending \cup ed.cleaning)], e)
        ELSE IF ed.last = w.rev
        THEN [t EXCEPT !.editors[e].submitted = published] ELSE t

HearWrite(w) ==
    /\ Ended(w)
    /\ LET t == Passed([s EXCEPT !.writes = @ \ {w}])
       IN  s' = IF Alive(s, w.owner) THEN DropIdle(Heard(t, w.owner, w), w.owner)
                ELSE IF w.owner = Startups /\ w.out # "error" THEN Release(t) ELSE t
    /\ UNCHANGED <<published, stored, used>>

-----------------------------------------------------------------------------
(* Cleanups.                                                               *)

\* cleanup_deleted_persona, at the start of the program, deletes one part after
\* the other.
InItsTurn(c, part) == part = "memory" /\ c.owner = Startups => c.context # "todo"

\* The conversation is deleted by the agent, the memories by the database.
Clean(c, part) ==
    /\ c[part] = "todo" /\ NoneIsKeptWaiting
    /\ InItsTurn(c, part)
    /\ \E out \in {"ok", "failed"} :
          /\ s' = [s EXCEPT !.cleanups = (@ \ {c}) \cup {[c EXCEPT ![part] = out]}]
          /\ stored' = IF out = "ok" THEN [stored EXCEPT ![c.id][part] = 0] ELSE stored
          /\ IF out = "ok" THEN UNCHANGED used ELSE AFault
    /\ UNCHANGED published

\* Variant: one deletion of the two is enough.
CleanedAnyPart(c) == "ok" \in {c.context, c.memory}

Cleaned(c) == c.context = "ok" /\ c.memory = "ok"

\* Variant: a failed cleanup keeps its claim.
SettleClaimOnSuccess(t, c) == IF Cleaned(c) THEN Set(t, {c.id}, "completed") ELSE t

\* complete_deleted_persona_cleanup or fail_deleted_persona_cleanup
SettleClaim(t, c) == Set(t, {c.id}, IF Cleaned(c) THEN "completed" ELSE "none")

\* The end of clear_memory in an editor: it removes the tombstone itself, or
\* tells the settings if its window was closed.
HearCleaned(t, e, c) ==
    LET forgotten == Cleaned(c) /\ t.editors[e].draft.active[c.id] = 0
        u == [t EXCEPT !.editors[e].cleaning = @ \ {c.id}]
    IN  IF t.editors[e].status = "retired"
        THEN DropIdle(IF forgotten THEN FinishDeleted(u) ELSE u, e)
        ELSE IF forgotten
        THEN Save([u EXCEPT !.editors[e].draft.pending = @ \ {c.id}], e) ELSE u

HearCleanup(c) ==
    /\ BothEnded(c)
    /\ LET t == Passed(SettleClaim([s EXCEPT !.cleanups = @ \ {c}], c))
       IN  s' = IF Alive(s, c.owner) THEN HearCleaned(t, c.owner, c)
                ELSE IF c.owner = Startups /\ Cleaned(c) THEN FinishDeleted(t) ELSE t
    /\ UNCHANGED <<published, stored, used>>

-----------------------------------------------------------------------------
\* The agent stores a conversation and memories of a persona that exists.
AgentStores(id) ==
    /\ published.active[id] # 0
    /\ stored' = [stored EXCEPT ![id] = [part \in Parts |-> published.active[id]]]
    /\ UNCHANGED <<published, s, used>>

Crash ==
    /\ used.crashes < MaxCrashes
    /\ used' = [used EXCEPT !.crashes = @ + 1]
    /\ s' = Startup
    /\ UNCHANGED <<published, stored>>

Next ==
    \/ User \/ Open \/ Crash
    \/ \E w \in s.writes : Commit(w) \/ HearWrite(w)
    \/ \E c \in s.cleanups : HearCleanup(c) \/ \E part \in Parts : Clean(c, part)
    \/ \E id \in Ids : AgentStores(id)

Spec == Init /\ [][Next]_vars

-----------------------------------------------------------------------------
\* The state is well typed, and the settings never name a persona by an id
\* that still has a tombstone.
TypeOK ==
    /\ published.active \in [Ids -> 0 .. MaxBorn] /\ published.pending \subseteq Ids
    /\ Normal(published)
    /\ stored \in [Ids -> [Parts -> 0 .. MaxBorn]]
    /\ s.claims \in [Ids -> {"none", "inflight", "completed"}]
    /\ Cardinality(Active(s)) <= 1

\* What the database holds of an id belongs to the persona that has it now, or
\* the id has a tombstone by which it will still be deleted.
Accounted(id) ==
    \A part \in Parts : \/ stored[id][part] \in {0, published.active[id]}
                         \/ id \in published.pending

\* No failure, crash or closed window leaves data behind that a later persona of
\* the same id inherits (delete_persona, clear_memory, TODO.md:227).  The code
\* does not keep this, see persona_forgotten_claim.
NoOrphanedMemory == TypeOK /\ \A id \in Ids : Accounted(id)

\* An id that never named another persona before the claim on its cleanup was
\* released leaves nothing behind, so nothing else in the deletion does: no
\* failure, crash, closed window, unheard or overtaken write
\* (delete_persona, clear_memory, start_pending_persona_cleanup).
FreedIdsLeaveNothing == TypeOK /\ \A id \in Ids \ used.early : Accounted(id)

\* The data of a persona that exists is never deleted, also when the write
\* that deletes it fails or is overtaken, and when its id is used again while
\* an old cleanup is under way; but for an id that was used again before its
\* claim was released (retry_pending_persona_cleanup, next_persona_id).
LivingMemoryIsKept ==
    [][\A id \in Ids \ used.early, part \in Parts :
          (stored[id][part] # 0 /\ stored[id][part] = published.active[id])
              => stored'[id][part] = stored[id][part]]_vars

\* A claim tells the truth: one in flight has exactly one cleanup that will
\* settle it, so that no tombstone waits for nobody and no two cleanups of an id
\* run together, and where a completed one would let the tombstone be removed
\* nothing is stored any more, but for an id that was used again before its
\* claim was released (claim_, complete_, fail_ and
\* release_deleted_persona_cleanup).
ClaimIsHonest ==
    \A id \in Ids :
        /\ Cardinality({c \in s.cleanups : c.id = id})
               = (IF s.claims[id] = "inflight" THEN 1 ELSE 0)
        /\ (s.claims[id] = "completed" /\ id \in published.pending \ used.early)
               => stored[id] = Nothing
=============================================================================
