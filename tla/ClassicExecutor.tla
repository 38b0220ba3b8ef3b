-------------------------- MODULE ClassicExecutor --------------------------
(***************************************************************************)
(* The version-1 executor of src/src/plane_api/client.py: the one-shot     *)
(* execute_mutation_action, the tail of reconcile_native_mutation, and the *)
(* two reconciliations that append evidence to an attempt, as several      *)
(* processes run them under one idempotency key.                           *)
(*                                                                         *)
(* The ledger lock covers state only: each locked section is one atomic    *)
(* step, and every provider request happens between two of them.  What a   *)
(* process learnt from the provider may be old when it takes the lock      *)
(* again; a post-write transition compares the fingerprint only, while a   *)
(* reconciliation compares the whole receipt.                              *)
(*                                                                         *)
(* A mutation stands for action, target and payload, which the fingerprint *)
(* covers.  A call that is refused without a change is no step: a key used *)
(* for another mutation, a key of unknown or rejected outcome, an unproven *)
(* write of a kind that is not read again, a used authorization.  Checks   *)
(* that come before any state is read are taken as passed; keys blocked by *)
(* a migration are the subject of LedgerMigration.                         *)
(***************************************************************************)
EXTENDS Naturals, Sequences

CONSTANTS
    Processes,      \* processes that share the ledger file
    Mutations,      \* mutations callers ask for under the key
    KindOf,         \* how each mutation is proved
    Reconciled,     \* module archives and updates: open to reconciliation
    Auths,          \* reconciliation authorization ids
    None            \* no call

\* "ack": the answer is the proof.  "listing": a readback shows the effect, of
\* a module archive among others.  "detail": an update of a module or an issue,
\* which the object shows, and which a duplicate call may prove again.
Kinds == {"ack", "listing", "detail"}

ASSUME KindAssumption == KindOf \in [Mutations -> Kinds]
ASSUME ReconciledAssumption == Reconciled \subseteq Mutations

VARIABLES
    receipt,        \* the key's receipt
    consumed,       \* reconciliation_authorizations
    events,         \* reconciliation_events
    pc,             \* the step each process takes next
    call,           \* what each process carries between two sections
    flying,         \* writes the provider may still apply
    effect,         \* mutations whose effect the provider shows
    posts,          \* history: how many writes were sent under the key
    landed          \* history: mutations a write of the key applied

vars ==
    <<receipt, consumed, events, pc, call, flying, effect, posts, landed>>
evidence == <<consumed, events>>
provider == <<flying, effect, landed>>

-----------------------------------------------------------------------------
(* Types.                                                                  *)

\* The write succeeded; whether its effect is proved is another matter.
Acknowledged ==
    {"applied_pending_readback", "write_succeeded_readback_validation_failed",
     "verified"}
Unproven == "write_succeeded_readback_validation_failed"

\* metadata: the stored response metadata passes as evidence of the write.
\* applied: mutation_applied was recorded as true.
Receipt ==
    [mutation : Mutations,
     status : {"attempt_started", "rejected_not_applied"} \union Acknowledged,
     metadata : BOOLEAN, applied : BOOLEAN]
NoReceipt == [status |-> "none"]

\* learnt: what the last provider request told the process.
Findings ==
    {"nothing", "acknowledged", "invalid", "rejected", "confirmed", "unproven"}
Dispositions == {"absent", "present", "inconclusive"}
Call ==
    [op : {"execute", "duplicate", "recover"}, mutation : Mutations,
     prior : Receipt, learnt : Findings]
Reconciliation ==
    [op : {"archive", "update"}, auth : Auths, prior : Receipt,
     learnt : {"nothing"} \union Dispositions]
ASSUME NoneAssumption == None \notin Call \union Reconciliation

Event ==
    [auth : Auths, kind : {"archive", "update"}, unfinished : SUBSET Auths,
     disposition : Dispositions]

Steps == {"idle", "send", "answer", "note", "readback", "settle",
          "archived", "active", "detail", "append"}

\* Between the reservation of the key and its first outcome; between that, or
\* a look at the receipt, and what the proof of the effect makes of it; and
\* between the two sections of a reconciliation.
Sending(p) == pc[p] \in {"send", "answer", "note"}
Proving(p) == pc[p] \in {"readback", "settle"}
Reconciling(p) == pc[p] \in {"archived", "active", "detail", "append"}

TypeOK ==
    /\ receipt \in Receipt \union {NoReceipt}
    /\ consumed \subseteq Auths
    /\ events \in Seq(Event)
    /\ pc \in [Processes -> Steps]
    /\ call \in [Processes -> Call \union Reconciliation \union {None}]
    /\ flying \subseteq Mutations
    /\ effect \subseteq Mutations
    /\ landed \subseteq Mutations
    /\ posts \in Nat
    /\ \A p \in Processes :
        /\ pc[p] = "idle" => call[p] = None
        /\ Sending(p) \/ Proving(p) => call[p] \in Call
        /\ Reconciling(p) => call[p] \in Reconciliation
        /\ pc[p] = "append" => call[p].learnt \in Dispositions

Init ==
    /\ receipt = NoReceipt
    /\ consumed = {} /\ events = <<>>
    /\ pc = [p \in Processes |-> "idle"]
    /\ call = [p \in Processes |-> None]
    /\ flying = {} /\ effect = {} /\ landed = {}
    /\ posts = 0

-----------------------------------------------------------------------------
(* Helpers.                                                                *)

Goto(p, step) == pc' = [pc EXCEPT ![p] = step]

Learn(p, finding, step) ==
    /\ call' = [call EXCEPT ![p].learnt = finding]
    /\ Goto(p, step)

Return(p) == Goto(p, "idle") /\ call' = [call EXCEPT ![p] = None]

\* A post-write transition: the reservation must still be of this mutation.
Cas(m, updates) ==
    receipt' = IF receipt # NoReceipt /\ receipt.mutation = m
               THEN updates ELSE receipt

Moved(status) == [receipt EXCEPT !.status = status]

-----------------------------------------------------------------------------
(* The one-shot write.                                                     *)

Started(m) ==
    [mutation |-> m, status |-> "attempt_started", metadata |-> FALSE,
     applied |-> FALSE]

\* Mutants (here and below, named ...Mutant) are the plausible bugs each
\* property must catch; nothing but those checks uses them.
RetryingMutant(p, m) ==
    /\ pc[p] = "idle"
    /\ \/ receipt = NoReceipt
       \/ receipt.status = "attempt_started" /\ receipt.mutation = m
    /\ receipt' = Started(m)
    /\ call' = [call EXCEPT ![p] =
        [op |-> "execute", mutation |-> m, prior |-> Started(m),
         learnt |-> "nothing"]]
    /\ Goto(p, "send")
    /\ UNCHANGED <<evidence, provider, posts>>

\* Reserve the key before the request leaves.
Reserve(p, m) ==
    /\ pc[p] = "idle"
    /\ receipt = NoReceipt
    /\ receipt' = Started(m)
    /\ call' = [call EXCEPT ![p] =
        [op |-> "execute", mutation |-> m, prior |-> Started(m),
         learnt |-> "nothing"]]
    /\ Goto(p, "send")
    /\ UNCHANGED <<evidence, provider, posts>>

Send(p) ==
    /\ pc[p] = "send"
    /\ posts' = posts + 1
    /\ flying' = flying \union {call[p].mutation}
    /\ Goto(p, "answer")
    /\ UNCHANGED <<receipt, evidence, call, effect, landed>>

\* The provider applies a write, at once or long after its sender gave up.
Land(m) ==
    /\ m \in flying
    /\ flying' = flying \ {m}
    /\ landed' = landed \union {m}
    /\ effect' = effect \union {m}
    /\ UNCHANGED <<receipt, evidence, pc, call, posts>>

\* Somebody else brings the effect about, or takes it back.  What the provider
\* shows of another mutation than the key's is never looked at.
Others(m) ==
    /\ receipt # NoReceipt
    /\ receipt.mutation = m
    /\ effect' = IF m \in effect THEN effect \ {m} ELSE effect \union {m}
    /\ UNCHANGED <<receipt, evidence, pc, call, flying, landed, posts>>

\* The answer of a write that was applied, valid or not.
Answered(p) ==
    /\ pc[p] = "answer"
    /\ call[p].mutation \notin flying
    /\ \E finding \in {"acknowledged", "invalid"} : Learn(p, finding, "note")
    /\ UNCHANGED <<receipt, evidence, provider, posts>>

AnyErrorMutant(p) ==
    /\ pc[p] = "answer"
    /\ Learn(p, "rejected", "note")
    /\ UNCHANGED <<receipt, evidence, provider, posts>>

\* A 400 or 422: the provider will not apply the write.
Refused(p) ==
    /\ pc[p] = "answer"
    /\ call[p].mutation \in flying
    /\ flying' = flying \ {call[p].mutation}
    /\ Learn(p, "rejected", "note")
    /\ UNCHANGED <<receipt, evidence, effect, landed, posts>>

\* No answer, another error status, or an unexpected success status: the call
\* raises and the receipt stays attempt_started.
Unanswered(p) ==
    /\ pc[p] = "answer"
    /\ Return(p)
    /\ UNCHANGED <<receipt, evidence, provider, posts>>

\* The answer is a decision about the write itself, or evidence to be proved.
Noted(status, metadata, applied) ==
    [Moved(status) EXCEPT !.metadata = metadata, !.applied = applied]

NotedAs(p, status, metadata, applied) ==
    Cas(call[p].mutation, Noted(status, metadata, applied))

NoteAck(p) ==
    /\ pc[p] = "note"
    /\ call[p].learnt = "acknowledged"
    /\ NotedAs(p, "applied_pending_readback", TRUE, FALSE)
    /\ Goto(p, "readback")
    /\ UNCHANGED <<evidence, call, provider, posts>>

\* Metadata of an invalid answer may still pass as evidence later.
NoteInvalid(p) ==
    /\ pc[p] = "note"
    /\ call[p].learnt = "invalid"
    /\ \E passes \in BOOLEAN : NotedAs(p, Unproven, passes, TRUE)
    /\ Return(p)
    /\ UNCHANGED <<evidence, provider, posts>>

NoteRejection(p) ==
    /\ pc[p] = "note"
    /\ call[p].learnt = "rejected"
    /\ NotedAs(p, "rejected_not_applied", FALSE, FALSE)
    /\ Return(p)
    /\ UNCHANGED <<evidence, provider, posts>>

-----------------------------------------------------------------------------
(* Proof of the effect: fresh, for a duplicate, or for a reconciliation.   *)

Rereads(p, m, op) ==
    /\ call' = [call EXCEPT ![p] =
        [op |-> op, mutation |-> m, prior |-> receipt, learnt |-> "nothing"]]
    /\ Goto(p, "readback")
    /\ UNCHANGED <<receipt, evidence, provider, posts>>

\* A duplicate of an acknowledged write gets fresh proof and sends nothing.
Repeat(p, m) ==
    /\ pc[p] = "idle"
    /\ receipt # NoReceipt
    /\ receipt.mutation = m
    /\ \/ receipt.status \in {"applied_pending_readback", "verified"}
       \/ receipt.status = Unproven /\ KindOf[m] = "detail"
    /\ Rereads(p, m, "duplicate")

\* reconcile_native_mutation of a version-1 receipt.
Recover(p, m) ==
    /\ pc[p] = "idle"
    /\ receipt # NoReceipt
    /\ receipt.mutation = m
    /\ receipt.status = Unproven
    /\ Rereads(p, m, "recover")

\* The answer in hand, or the metadata kept of it, is evidence of the write.
HasEvidence(p) == call[p].op = "execute" \/ call[p].prior.metadata

Confirm(p) ==
    /\ pc[p] = "readback"
    /\ HasEvidence(p)
    /\ KindOf[call[p].mutation] # "ack" => call[p].mutation \in effect
    /\ Learn(p, "confirmed", "settle")
    /\ UNCHANGED <<receipt, evidence, provider, posts>>

\* The request fails, or the provider does not show the effect.
FailToConfirm(p) ==
    /\ pc[p] = "readback"
    /\ HasEvidence(p)
    /\ KindOf[call[p].mutation] # "ack"
    /\ Learn(p, "unproven", "settle")
    /\ UNCHANGED <<receipt, evidence, provider, posts>>

\* Evidence that does not pass, a page budget or a broken cursor: an error no
\* handler names ends the call.
GiveUp(p) ==
    /\ pc[p] = "readback"
    /\ ~HasEvidence(p) \/ KindOf[call[p].mutation] # "ack"
    /\ Return(p)
    /\ UNCHANGED <<receipt, evidence, provider, posts>>

StaleCopyMutant(p) ==
    CASE call[p].learnt = "confirmed" ->
            [call[p].prior EXCEPT !.status = "verified"]
      [] call[p].op = "recover" -> receipt
      [] OTHER -> [call[p].prior EXCEPT !.status = Unproven, !.applied = TRUE]

\* A reconciliation that proves nothing leaves the receipt alone.
Settled(p) ==
    CASE call[p].learnt = "confirmed" -> Moved("verified")
      [] call[p].op = "recover" -> receipt
      [] call[p].op = "duplicate" -> Moved(Unproven)
      [] OTHER -> [Moved(Unproven) EXCEPT !.applied = TRUE]

Settle(p) ==
    /\ pc[p] = "settle"
    /\ Cas(call[p].mutation, Settled(p))
    /\ Return(p)
    /\ UNCHANGED <<evidence, provider, posts>>

-----------------------------------------------------------------------------
(* Evidence about an attempt: one authorization, one event, and a receipt  *)
(* that must not have moved in between.                                    *)

\* An archive attempt of unknown outcome, or an applied update without proof.
Matches(kind) ==
    /\ receipt # NoReceipt
    /\ receipt.mutation \in Reconciled
    /\ \/ /\ kind = "archive" /\ KindOf[receipt.mutation] = "listing"
          /\ receipt.status = "attempt_started"
       \/ /\ kind = "update" /\ KindOf[receipt.mutation] = "detail"
          /\ receipt.status = Unproven
          /\ receipt.applied

Frozen(p, a, kind) ==
    call' = [call EXCEPT ![p] =
        [op |-> kind, auth |-> a, prior |-> receipt, learnt |-> "nothing"]]

\* The first section.  The authorization is used up even when the receipt does
\* not match: the ledger is written on the way out of an exception too.
Reconcile(p, a, kind) ==
    /\ pc[p] = "idle"
    /\ a \notin consumed
    /\ consumed' = consumed \union {a}
    /\ IF Matches(kind)
       THEN /\ Frozen(p, a, kind)
            /\ Goto(p, IF kind = "archive" THEN "archived" ELSE "detail")
       ELSE UNCHANGED <<call, pc>>
    /\ UNCHANGED <<receipt, events, provider, posts>>

Target(p) == call[p].prior.mutation

\* Absence is an exhaustive archived listing without the target, then an
\* active listing with it; any failure or contradiction is inconclusive.
LookArchived(p) ==
    /\ pc[p] = "archived"
    /\ \/ Target(p) \notin effect /\ Goto(p, "active") /\ UNCHANGED call
       \/ Learn(p, "inconclusive", "append")
    /\ UNCHANGED <<receipt, evidence, provider, posts>>

LookActive(p) ==
    /\ pc[p] = "active"
    /\ \/ Target(p) \notin effect /\ Learn(p, "absent", "append")
       \/ Learn(p, "inconclusive", "append")
    /\ UNCHANGED <<receipt, evidence, provider, posts>>

\* The update's proof is the object itself, with every field as intended.
LookDetail(p) ==
    /\ pc[p] = "detail"
    /\ \/ Target(p) \in effect /\ Learn(p, "present", "append")
       \/ Learn(p, "inconclusive", "append")
    /\ UNCHANGED <<receipt, evidence, provider, posts>>

Finished == {events[i].auth : i \in DOMAIN events}

EarlierMutant(p) ==
    IF call[p].op = "archive"
    THEN UNION {events[i].unfinished : i \in DOMAIN events} \ {call[p].auth}
    ELSE {}

\* prior_incomplete_authorization_ids of an archive attempt's event.
Unfinished(p) ==
    IF call[p].op = "archive"
    THEN consumed \ (Finished \union {call[p].auth})
    ELSE {}

Entry(p) ==
    [auth |-> call[p].auth, kind |-> call[p].op,
     unfinished |-> Unfinished(p), disposition |-> call[p].learnt]

SameMutationMutant(p) == receipt.mutation = call[p].prior.mutation

Unmoved(p) == receipt = call[p].prior

\* The second section: the evidence is kept only of an unchanged receipt.
AppendEvent(p) ==
    /\ pc[p] = "append"
    /\ events' = IF Unmoved(p) THEN Append(events, Entry(p)) ELSE events
    /\ Return(p)
    /\ UNCHANGED <<receipt, consumed, provider, posts>>

-----------------------------------------------------------------------------
\* A process dies.  What it saved stays; its request may still land.
Die(p) ==
    /\ pc[p] # "idle"
    /\ Return(p)
    /\ UNCHANGED <<receipt, evidence, provider, posts>>

Begin(p) ==
    \/ \E m \in Mutations : Reserve(p, m) \/ Repeat(p, m) \/ Recover(p, m)
    \/ \E a \in Auths, kind \in {"archive", "update"} : Reconcile(p, a, kind)

Write(p) ==
    \/ Send(p) \/ Answered(p) \/ Refused(p) \/ Unanswered(p)
    \/ NoteAck(p) \/ NoteInvalid(p) \/ NoteRejection(p)

Prove(p) == Confirm(p) \/ FailToConfirm(p) \/ GiveUp(p) \/ Settle(p)

Observe(p) ==
    LookArchived(p) \/ LookActive(p) \/ LookDetail(p) \/ AppendEvent(p)

Next ==
    \/ \E p \in Processes :
        Begin(p) \/ Write(p) \/ Prove(p) \/ Observe(p) \/ Die(p)
    \/ \E m \in Mutations : Land(m) \/ Others(m)

Spec == Init /\ [][Next]_vars

-----------------------------------------------------------------------------
(* Safety.                                                                 *)

\* However many processes call, repeat, die and reconcile, at most one write
\* leaves under the key.
OneWritePerKey == posts <= 1

\* A receipt's verdict on the write is true: an acknowledged one was applied,
\* though perhaps taken back by others; a rejected one was not, and is not
\* under way.
VerdictsAreTrue ==
    /\ receipt.status \in Acknowledged => receipt.mutation \in landed
    /\ receipt.status = "rejected_not_applied" =>
        receipt.mutation \notin landed \union flying

Forward ==
    \/ receipt' = receipt
    \/ receipt = NoReceipt
    \/ /\ receipt.status = "attempt_started"
       /\ \E p \in Processes : Sending(p)
    \/ /\ receipt.status \in Acknowledged
       /\ receipt'.status \in Acknowledged \ {"applied_pending_readback"}
       /\ receipt.applied => receipt'.applied

\* What the receipt says moves forward only, and a receipt of unknown outcome
\* is moved by the process that sent its write and by nobody else: a process
\* slower than a second one may unprove a write, never unsay it.
ReceiptsMoveForward == [][Forward]_vars

Fits(new) ==
    /\ new.auth \notin Finished
    /\ new.disposition = "absent" => receipt.status = "attempt_started"
    /\ new.disposition = "present" => receipt.mutation \in landed
    /\ new.kind = "archive" =>
        consumed = Finished \union {new.auth} \union new.unfinished

\* Evidence is appended once for an authorization, about a receipt that still
\* says what it said when the authorization was used: absence only while the
\* outcome is unknown, presence only of a write that was applied.  An archive
\* event leaves no other authorization of the key unaccounted for.
EvidenceFitsReceipt == [][events' # events => Fits(events'[Len(events')])]_vars

-----------------------------------------------------------------------------
(* The inductive invariant behind the properties: the key has one sender,  *)
(* what the sender knows is true, and a reconciliation holds an            *)
(* authorization that is its own.                                          *)

NothingBeforeReservation ==
    receipt = NoReceipt =>
        /\ posts = 0 /\ flying = {} /\ landed = {}
        /\ \A p \in Processes : ~Sending(p) /\ ~Proving(p)

OneSender ==
    \A p \in Processes : Sending(p) =>
        /\ receipt.status = "attempt_started"
        /\ receipt.mutation = call[p].mutation
        /\ call[p].op = "execute"
        /\ \A q \in Processes : Sending(q) => p = q

OneWrite ==
    /\ posts <= 1
    /\ flying \intersect landed = {}
    /\ \A m \in flying \union landed : receipt.mutation = m
    /\ \A p \in Processes : pc[p] = "send" =>
        posts = 0 /\ flying = {} /\ landed = {}

SenderKnows ==
    \A p \in Processes :
        /\ pc[p] = "answer" => call[p].mutation \in flying \union landed
        /\ pc[p] = "note" =>
            \/ /\ call[p].learnt \in {"acknowledged", "invalid"}
               /\ call[p].mutation \in landed
            \/ /\ call[p].learnt = "rejected"
               /\ call[p].mutation \notin flying \union landed

ProvingIsAcknowledged ==
    \A p \in Processes : Proving(p) =>
        /\ receipt.status \in Acknowledged
        /\ receipt.mutation = call[p].mutation

ReconcilersObserve ==
    \A p \in Processes : Reconciling(p) =>
        /\ pc[p] \in {"archived", "active"} \/ call[p].learnt = "absent" =>
            call[p].prior.status = "attempt_started"
        /\ pc[p] = "detail" \/ call[p].learnt = "present" =>
            call[p].prior.status = Unproven

AuthorizationsAreOwn ==
    /\ Finished \subseteq consumed
    /\ \A p \in Processes : Reconciling(p) =>
        /\ call[p].auth \in consumed \ Finished
        /\ \A q \in Processes :
            Reconciling(q) /\ call[q].auth = call[p].auth => p = q

ClassicInv ==
    /\ TypeOK
    /\ NothingBeforeReservation
    /\ OneSender
    /\ OneWrite
    /\ SenderKnows
    /\ VerdictsAreTrue
    /\ ProvingIsAcknowledged
    /\ ReconcilersObserve
    /\ AuthorizationsAreOwn
=============================================================================
