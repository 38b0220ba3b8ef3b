--------------------------- MODULE OperatorBroker ---------------------------
(***************************************************************************)
(* The operator approval broker of src/src/plane_mcp_karval/               *)
(* operator_broker.py: a request is prepared, confirmed by an operator's   *)
(* attestation and executed once; its state lives in memory under one lock *)
(* and is saved to the state store at every transition.                    *)
(*                                                                         *)
(* A locked section with its save is one atomic step.  Attestation checks  *)
(* and provider calls happen outside the lock, in any number of threads.   *)
(* The process may die between steps and restart under the same or under a *)
(* new boot identity, and a save may fail before or after it took effect.  *)
(*                                                                         *)
(* A nonce belongs to one request for its whole life and a receipt to one  *)
(* terminal request, so both are read off the request.  The request's      *)
(* digest is its key, target and boot.                                     *)
(***************************************************************************)
EXTENDS Naturals, FiniteSets

CONSTANTS
    Ids,            \* request identifiers, each generated once
    Keys,           \* idempotency keys
    Targets,        \* work items
    NoId,           \* no request
    MaxBoot,        \* model bound on boot identities
    MaxPending,     \* MAX_PENDING (1024 in the code)
    MaxTombstones,  \* MAX_TOMBSTONES (1024 in the code)
    SaveFaults,     \* TRUE: a save may raise, with or without effect
    BrokerErrors,   \* TRUE: clock and provider may raise one during an execution
    SameBoot        \* TRUE: the process may restart under its boot identity

ASSUME NoIdAssumption == NoId \notin Ids
ASSUME BrokerFlags == {SaveFaults, BrokerErrors, SameBoot} \subseteq BOOLEAN
ASSUME BrokerBounds ==
    /\ MaxBoot \in Nat \ {0}
    /\ MaxPending \in Nat \ {0}
    /\ MaxTombstones \in Nat

VARIABLES
    mem,        \* the broker's collections
    store,      \* the last snapshot saved, with the boot that saved it
    up,         \* the process runs
    boot,       \* the machine's boot identity
    attesting,  \* requests whose attestation a thread is verifying
    task,       \* what the thread executing a request does next
    expired,    \* requests whose deadline the clock has passed
    used,       \* identifiers generated so far
    approved,   \* history: which request was confirmed under which boot
    calls,      \* history: conditional_execute calls made
    flying      \* calls whose write the provider may still apply

vars == <<mem, store, up, boot, attesting, task, expired, used, approved,
          calls, flying>>
history == <<approved, calls, flying>>

-----------------------------------------------------------------------------
(* Types.                                                                  *)

Pending == {"PREPARED", "CONFIRMED", "ATTEMPT_STARTED"}
Compactable == {"COMPLETED", "DRIFTED", "EXPIRED"}
Doubtful == {"UNKNOWN", "APPLIED_UNVERIFIED"}
Terminal == Compactable \union Doubtful

Boots == 1 .. MaxBoot
Absent == [state |-> "ABSENT"]
\* why tells the two receipts of an EXPIRED request apart: its deadline passed
\* while it was executed, or the boot changed.
Request == [state : Pending \union Terminal, key : Keys, target : Targets,
            boot : Boots, why : {"none", "deadline", "boot"}]
Collections ==
    [req : [Ids -> Request \union {Absent}],
     idem : [Keys -> Ids \union {NoId}], tomb : SUBSET Keys,
     inflight : SUBSET Targets, quar : SUBSET Targets]
Task == {"none", "check", "call", "reply"} \union Terminal
Call == [id : Ids, key : Keys, target : Targets, boot : Boots]

Empty ==
    [req |-> [i \in Ids |-> Absent], idem |-> [k \in Keys |-> NoId],
     tomb |-> {}, inflight |-> {}, quar |-> {}]

InState(m, states) == {i \in Ids : m.req[i].state \in states}
Present(m) == InState(m, Pending \union Terminal)
KeysOf(m, ids) == {m.req[i].key : i \in ids}
TargetsOf(m, ids) == {m.req[i].target : i \in ids}

\* Mutants (here and below, named ...Mutant) are the plausible bugs each property
\* must catch; nothing but those checks uses them.
UnlimitedMutant(m) == Cardinality(m.tomb) <= MaxTombstones
\* _validate_snapshot_capacity
Fits(m) ==
    /\ Cardinality(Present(m)) <= MaxPending
    /\ Cardinality(m.tomb) <= MaxTombstones

TypeOK ==
    /\ mem \in Collections /\ Cardinality(Present(mem)) <= MaxPending
    /\ store \in [boot : Boots, state : Collections]
    /\ up \in BOOLEAN /\ boot \in Boots
    /\ attesting \subseteq Ids /\ task \in [Ids -> Task]
    /\ expired \subseteq used /\ used \subseteq Ids
    /\ approved \subseteq [id : Ids, boot : Boots]
    /\ calls \subseteq Call /\ flying \subseteq calls

Init ==
    /\ mem = Empty
    /\ store = [boot |-> 1, state |-> Empty]
    /\ up = TRUE /\ boot = 1
    /\ attesting = {} /\ task = [i \in Ids |-> "none"]
    /\ expired = {} /\ used = {}
    /\ approved = {} /\ calls = {} /\ flying = {}

-----------------------------------------------------------------------------
(* Saving.                                                                 *)

Snapshot(m) == [boot |-> boot, state |-> m]
Save(m) == store' = Snapshot(m)
\* The store raised: before replacing the file, or only after.
FailedSave(m) == SaveFaults /\ store' \in {store, Snapshot(m)}

-----------------------------------------------------------------------------
(* prepare()                                                               *)

LeakedKeyMutant(m, gone) ==
    [m EXCEPT !.req = [i \in Ids |-> IF i \in gone THEN Absent ELSE @[i]]]
Without(m, gone) ==
    [m EXCEPT !.req = [i \in Ids |-> IF i \in gone THEN Absent ELSE @[i]],
              !.idem = [k \in Keys |-> IF k \in KeysOf(m, gone) THEN NoId
                                       ELSE @[k]]]

\* _prune: requests nobody executed in time disappear, and their key is free.
Pruned(m) == Without(m, InState(m, {"PREPARED", "CONFIRMED"}) \intersect expired)

\* _compact_retention: settled requests beyond MaxPending - 1 leave a tombstone.
\* (At most one does, since no more than MaxPending requests are kept.)
Surplus(m) ==
    LET settled == Cardinality(InState(m, Compactable))
    IN  IF settled >= MaxPending THEN settled - (MaxPending - 1) ELSE 0
MayCompact(m, gone) ==
    /\ gone \subseteq InState(m, Compactable)
    /\ Cardinality(gone) = Surplus(m)
    /\ gone # {} => Cardinality(m.tomb) < MaxTombstones
ForgottenKeyMutant(m, gone) == Without(m, gone)
Compacted(m, gone) ==
    [Without(m, gone) EXCEPT !.tomb = @ \union KeysOf(m, gone)]

Added(m, i, k, t) ==
    [m EXCEPT !.idem[k] = i,
              !.req[i] = [state |-> "PREPARED", key |-> k, target |-> t,
                          boot |-> boot, why |-> "none"]]

Prepare(i, k, t) ==
    /\ up /\ i \notin used
    /\ \E gone \in SUBSET Ids :
        LET clean == Compacted(Pruned(mem), gone)
            new == Added(clean, i, k, t)
        IN  /\ MayCompact(Pruned(mem), gone)
            /\ clean.idem[k] = NoId /\ k \notin clean.tomb
            /\ Cardinality(InState(clean, Pending)) < MaxPending
            /\ Fits(new)
            /\ \/ mem' = new /\ Save(new)
               \/ mem' = mem /\ FailedSave(new)
    /\ used' = used \union {i}
    /\ UNCHANGED <<up, boot, attesting, task, expired, history>>

\* The same binding again returns the request it has, after cleaning up in
\* memory without a save.
PrepareAgain(k, t) ==
    /\ up
    /\ \E gone \in SUBSET Ids :
        LET clean == Compacted(Pruned(mem), gone)
        IN  /\ MayCompact(Pruned(mem), gone)
            /\ clean.idem[k] # NoId
            /\ clean.req[clean.idem[k]].target = t
            /\ clean.req[clean.idem[k]].boot = boot
            /\ mem' = clean
    /\ UNCHANGED <<store, up, boot, attesting, task, expired, used, history>>

-----------------------------------------------------------------------------
(* confirm(): the attestation is verified outside the lock.                *)

BeginConfirm(i) ==
    /\ up /\ i \notin expired
    /\ mem.req[i].state = "PREPARED"
    /\ attesting' = attesting \union {i}
    /\ UNCHANGED <<mem, store, up, boot, task, expired, used, history>>

Confirmed(i) == [mem EXCEPT !.req[i].state = "CONFIRMED"]
FinishConfirm(i) ==
    /\ i \in attesting
    /\ attesting' = attesting \ {i}
    /\ mem.req[i].state = "PREPARED" /\ i \notin expired
    /\ mem' = Confirmed(i)
    /\ Save(mem') \/ FailedSave(mem')
    /\ approved' = approved \union {[id |-> i, boot |-> boot]}
    /\ UNCHANGED <<up, boot, task, expired, used, calls, flying>>

\* A bad attestation, a request consumed meanwhile or a deadline passed.
RejectConfirm(i) ==
    /\ i \in attesting
    /\ attesting' = attesting \ {i}
    /\ UNCHANGED <<mem, store, up, boot, task, expired, used, history>>

-----------------------------------------------------------------------------
(* execute(): the confirmation is consumed and saved under the lock before *)
(* any provider call.                                                      *)

Started(i) ==
    [mem EXCEPT !.req[i].state = "ATTEMPT_STARTED",
                !.inflight = @ \union {mem.req[i].target}]

UnguardedMutant(i) == mem.req[i].target \notin mem.inflight
TargetFree(i) ==
    /\ mem.req[i].target \notin mem.inflight \union mem.quar
    /\ Cardinality(mem.quar) < MaxPending

UnsavedStartMutant(i) ==
    /\ up /\ i \notin expired
    /\ mem.req[i].state = "CONFIRMED" /\ TargetFree(i)
    /\ mem' = Started(i)
    /\ task' = [task EXCEPT ![i] = "check"]
    /\ UNCHANGED <<store, up, boot, attesting, expired, used, history>>
BeginExecute(i) ==
    /\ up /\ i \notin expired
    /\ mem.req[i].state = "CONFIRMED" /\ TargetFree(i)
    /\ mem' = Started(i)
    /\ \/ Save(mem') /\ task' = [task EXCEPT ![i] = "check"]
       \/ FailedSave(mem') /\ UNCHANGED task
    /\ UNCHANGED <<up, boot, attesting, expired, used, history>>

\* current_updated_at and the clock decide whether the call is still made; an
\* exception counts as unknown, and a BrokerError (the clock's, when threads see
\* it regress, or the provider's) leaves the attempt as it is.
UncaughtMutant(i) ==
    /\ task[i] = "check"
    /\ \E next \in {"call", "DRIFTED", "none"} :
        /\ next \in {"call", "DRIFTED"} => i \notin expired
        /\ task' = [task EXCEPT ![i] = next]
    /\ UNCHANGED <<mem, store, up, boot, attesting, expired, used, history>>
CheckBinding(i) ==
    /\ task[i] = "check"
    /\ \E next \in {"call", "DRIFTED", "EXPIRED", "UNKNOWN", "none"} :
        /\ next \in {"call", "DRIFTED"} => i \notin expired
        /\ next = "EXPIRED" => i \in expired
        /\ next = "none" => BrokerErrors
        /\ task' = [task EXCEPT ![i] = next]
    /\ UNCHANGED <<mem, store, up, boot, attesting, expired, used, history>>

CallOf(i) == [id |-> i, key |-> mem.req[i].key, target |-> mem.req[i].target,
              boot |-> boot]
ConditionalExecute(i) ==
    /\ task[i] = "call"
    /\ calls' = calls \union {CallOf(i)}
    /\ flying' = flying \union {CallOf(i)}
    /\ task' = [task EXCEPT ![i] = "reply"]
    /\ UNCHANGED <<mem, store, up, boot, attesting, expired, used, approved>>

\* How conditional_execute and verify_readback end.  Only a verified readback
\* shows that the write is no longer under way.  A BrokerError of either leaves the
\* attempt as it is.
VerifyReadback(i) ==
    /\ task[i] = "reply"
    /\ \E next \in {"COMPLETED", "APPLIED_UNVERIFIED", "UNKNOWN", "none"} :
        /\ next = "none" => BrokerErrors
        /\ task' = [task EXCEPT ![i] = next]
        /\ flying' = IF next = "COMPLETED" THEN flying \ {CallOf(i)} ELSE flying
    /\ UNCHANGED <<mem, store, up, boot, attesting, expired, used, approved, calls>>

\* The receipt settles the request, frees the target and quarantines it when
\* the outcome is in doubt.
OnlyUnknownMutant(i) ==
    [mem EXCEPT !.req[i].state = task[i],
                !.inflight = @ \ {mem.req[i].target},
                !.quar = IF task[i] = "UNKNOWN" THEN @ \union {mem.req[i].target}
                         ELSE @]
Settled(i) ==
    [mem EXCEPT !.req[i].state = task[i],
                !.req[i].why = IF task[i] = "EXPIRED" THEN "deadline" ELSE "none",
                !.inflight = @ \ {mem.req[i].target},
                !.quar = IF task[i] \in Doubtful THEN @ \union {mem.req[i].target}
                         ELSE @]
Settle(i) ==
    /\ task[i] \in Terminal
    /\ mem' = Settled(i)
    /\ Save(mem') \/ FailedSave(mem')
    /\ task' = [task EXCEPT ![i] = "none"]
    /\ UNCHANGED <<up, boot, attesting, expired, used, history>>

-----------------------------------------------------------------------------
(* _restore(): what a snapshot becomes under a boot, and whether it is     *)
(* accepted.                                                               *)

Rebooted(r) ==
    IF r.state \in {"PREPARED", "CONFIRMED"}
    THEN [r EXCEPT !.state = "EXPIRED", !.why = "boot"]
    ELSE IF r.state = "ATTEMPT_STARTED" THEN [r EXCEPT !.state = "UNKNOWN"] ELSE r

SurvivingApprovalMutant(s, b) == s.state
Converted(s, b) ==
    IF s.boot = b THEN s.state
    ELSE LET new == [s.state EXCEPT !.req = [i \in Ids |-> Rebooted(@[i])]]
             unknown == InState(new, {"UNKNOWN"})
         IN  [new EXCEPT
                !.idem = [k \in Keys |->
                            IF @[k] \in InState(new, {"EXPIRED"}) THEN NoId ELSE @[k]],
                !.tomb = @ \union
                    KeysOf(new, InState(s.state, {"PREPARED", "CONFIRMED"})),
                !.inflight = @ \ TargetsOf(new, unknown),
                !.quar = @ \union TargetsOf(new, unknown)]

\* A request without its idempotency mapping is history of a boot change.
BootHistory(m, i, b) ==
    /\ m.req[i].state = "EXPIRED" /\ m.req[i].why = "boot"
    /\ m.req[i].boot # b
    /\ m.req[i].key \in m.tomb

Consistent(m, b) ==
    /\ \A k \in Keys : m.idem[k] # NoId =>
        /\ m.idem[k] \in Present(m)
        /\ m.req[m.idem[k]].key = k
        /\ k \notin m.tomb
    /\ \A i \in Present(m) :
        \/ m.idem[m.req[i].key] = i
        \/ m.idem[m.req[i].key] = NoId /\ BootHistory(m, i, b)
    /\ m.inflight = TargetsOf(m, InState(m, {"ATTEMPT_STARTED"}))
    /\ m.quar = TargetsOf(m, InState(m, Doubtful))
    /\ m.inflight \intersect m.quar = {}
    /\ Fits(m)

BootsAgree(s, b) ==
    \A i \in Present(s.state) :
        \/ s.state.req[i].boot = s.boot
        \/ /\ s.boot # b \/ i \in InState(s.state, Terminal)
           /\ s.state.req[i].boot # b

Restorable(s, b) == BootsAgree(s, b) /\ Consistent(Converted(s, b), b)

Start ==
    /\ ~up /\ Restorable(store, boot)
    /\ up' = TRUE
    /\ mem' = Converted(store, boot)
    /\ UNCHANGED <<store, boot, attesting, task, expired, used, history>>

-----------------------------------------------------------------------------
(* The environment.                                                        *)

Crash ==
    /\ up
    /\ \/ SameBoot /\ UNCHANGED boot
       \/ boot < MaxBoot /\ boot' = boot + 1
    /\ up' = FALSE
    /\ mem' = Empty /\ attesting' = {} /\ task' = [i \in Ids |-> "none"]
    /\ UNCHANGED <<store, expired, used, history>>

DeadlinePasses(i) ==
    /\ i \in used \ expired
    /\ expired' = expired \union {i}
    /\ UNCHANGED <<mem, store, up, boot, attesting, task, used, history>>

ProviderSettles(c) ==
    /\ flying' = flying \ {c}
    /\ UNCHANGED <<mem, store, up, boot, attesting, task, expired, used,
                   approved, calls>>

-----------------------------------------------------------------------------
Execute(i) ==
    \/ CheckBinding(i) \/ ConditionalExecute(i) \/ VerifyReadback(i) \/ Settle(i)

Next ==
    \/ \E i \in Ids, k \in Keys, t \in Targets : Prepare(i, k, t)
    \/ \E k \in Keys, t \in Targets : PrepareAgain(k, t)
    \/ \E i \in Ids :
        \/ BeginConfirm(i) \/ FinishConfirm(i) \/ RejectConfirm(i)
        \/ BeginExecute(i) \/ Execute(i) \/ DeadlinePasses(i)
    \/ Start
    \/ Crash
    \/ \E c \in flying : ProviderSettles(c)

Spec == Init /\ [][Next]_vars

\* The thread executing a request keeps running and a dead process is restarted.
Fairness == WF_vars(Start) /\ \A i \in Ids : WF_vars(Execute(i))
FairSpec == Spec /\ Fairness

-----------------------------------------------------------------------------
(* Safety.                                                                 *)

\* A key reaches the provider at most once, through retention, restarts, boot
\* changes and failed saves.
OneCallPerKey == \A c, d \in calls : c.key = d.key => c = d

\* Two writes to one work item are never under way together, a dead process's
\* last call included.
NoOverlappingWrites == \A c, d \in flying : c.target = d.target => c = d

\* Every provider call was confirmed by the operator under the boot that made it.
ApprovedInThisBoot ==
    \A c \in calls : [id |-> c.id, boot |-> c.boot] \in approved

\* What was sent is on disk before it is sent and never forgotten: the request
\* is stored as started or settled, or its key has a tombstone.
CallsAreDurable ==
    \A c \in calls :
        \/ c.id \in InState(store.state, {"ATTEMPT_STARTED"} \union Terminal)
        \/ c.key \in store.state.tomb

\* The broker can always restart from its snapshot: under the boot that saved it,
\* and under a later one as long as no request's deadline ran out in the middle
\* of its execution and the new tombstones fit.
Overflows(s) ==
    Cardinality(s.state.tomb) + Cardinality(InState(s.state, {"PREPARED", "CONFIRMED"}))
        > MaxTombstones
SnapshotRestarts ==
    /\ Restorable(store, store.boot)
    /\ \/ Restorable(store, store.boot + 1)
       \/ Overflows(store)
       \/ \E i \in InState(store.state, {"EXPIRED"}) :
                store.state.req[i].why = "deadline"

-----------------------------------------------------------------------------
(* The abstract promise.  A call is cleared once the snapshot says that its  *)
(* request ended without doubt.                                            *)

Uncleared == {"ATTEMPT_STARTED"} \union Doubtful
InDoubt == {c \in calls : store.state.req[c.id].state \in Uncleared}

Promise == INSTANCE ApprovedCalls WITH
    now <- boot, called <- calls, out <- flying, doubt <- InDoubt

\* The broker implements ApprovedCalls, whatever fails to be saved, is pruned or
\* compacted, restarts or overlaps: an approval is used once and under its boot,
\* and no call is made on a work item of whose last call the snapshot does not
\* know that it is over.
ImplementsApprovedCalls == Promise!ASpec

-----------------------------------------------------------------------------
(* The inductive invariant behind the properties: memory and snapshot are  *)
(* each in order under the boot they belong to, each knows every call that *)
(* was made, and a thread at work has its attempt in both.                 *)

Sent == {"ATTEMPT_STARTED"} \union Terminal

\* known are the identifiers generated, oks the confirmations given.
Orderly(m, b, known, oks) ==
    /\ IsFiniteSet(Present(m)) /\ IsFiniteSet(m.tomb)
    /\ Consistent(m, b)
    /\ Present(m) \subseteq known
    /\ \A i \in Present(m) :
        /\ m.req[i].boot <= b
        /\ m.req[i].state \in Pending => m.req[i].boot = b
        /\ m.req[i].state = "CONFIRMED" => [id |-> i, boot |-> b] \in oks
        /\ m.req[i].state = "EXPIRED" => m.req[i].why # "none"
        /\ m.req[i].state = "EXPIRED" /\ m.req[i].why = "boot" =>
             m.idem[m.req[i].key] = NoId
    /\ \A i, j \in InState(m, {"ATTEMPT_STARTED"}) :
        m.req[i].target = m.req[j].target => i = j

\* made are the calls made, out those the provider may still apply.
Knows(m, made, out) ==
    /\ \A c \in made :
        /\ c.id \in Present(m) =>
            /\ m.req[c.id].state \in Sent
            /\ m.req[c.id].key = c.key /\ m.req[c.id].target = c.target
        /\ c.id \in Present(m) \/ c.key \in m.tomb
    /\ \A c \in out : c.id \in InState(m, {"ATTEMPT_STARTED"} \union Doubtful)

AtWork(i) ==
    /\ up /\ mem.req[i].state = "ATTEMPT_STARTED"
    /\ store.state.req[i] = mem.req[i]
    /\ [id |-> i, boot |-> boot] \in approved
    /\ task[i] \in {"check", "call", "DRIFTED", "EXPIRED"} =>
         \A c \in calls : c.id # i
    /\ task[i] = "reply" => \A c \in calls : c.id = i => c = CallOf(i)
    /\ task[i] = "COMPLETED" => \A c \in flying : c.id # i

BrokerInv ==
    /\ store.boot <= boot
    /\ \A c \in calls : c.id \in used
    /\ Orderly(store.state, store.boot, used, approved)
    /\ Knows(store.state, calls, flying)
    /\ up => /\ Orderly(mem, boot, used, approved)
             /\ Knows(mem, calls, flying)
             /\ store.state.quar \subseteq mem.quar
    /\ ~up => mem = Empty
    /\ \A i \in Ids : task[i] # "none" => AtWork(i)
    /\ OneCallPerKey /\ NoOverlappingWrites /\ ApprovedInThisBoot

\* No call is cleared on disk before it is in memory.
DoubtsAreSaved ==
    up => \A c \in calls :
            mem.req[c.id].state \in Uncleared =>
                store.state.req[c.id].state \in Uncleared

-----------------------------------------------------------------------------
(* Action properties.                                                      *)

\* A target in quarantine stays there and is never written again.
QuarantineHolds ==
    [][/\ store.state.quar \subseteq store'.state.quar
       /\ \A c \in calls' \ calls : c.target \notin store.state.quar]_vars

-----------------------------------------------------------------------------
(* Liveness.                                                               *)

\* An attempt never stays open: it is settled, or the boot change after a crash
\* makes it unknown, unless the snapshot cannot be restored.
AttemptsSettle ==
    \A i \in Ids :
        up /\ mem.req[i].state = "ATTEMPT_STARTED" ~>
            \/ up /\ mem.req[i].state \in Terminal \union {"ABSENT"}
            \/ ~Restorable(store, boot)
=============================================================================
