--------------------------- MODULE NativeExecutor ---------------------------
(***************************************************************************)
(* The durable mutation executor of src/src/plane_api/resilience.py.       *)
(*                                                                         *)
(* One idempotency key is modelled: its receipt in the shared ledger, the  *)
(* processes that call execute() and authorize_reattempt() for it, and the *)
(* provider their requests travel to.  Receipts of different keys share    *)
(* nothing but the provider cooldown, which `cooldown' stands for.         *)
(*                                                                         *)
(* A locked ledger section (client._locked_ledger) is one atomic step;     *)
(* provider I/O happens between sections.  A process may die anywhere      *)
(* outside a section, a lease may run out at any time, and a request that  *)
(* left a process may be applied, refused or lost at any later time.       *)
(* Calls that return without changing the receipt (in_progress, stored     *)
(* duplicates, refused bindings) are stuttering steps.                     *)
(***************************************************************************)
EXTENDS Naturals, FiniteSets

CONSTANTS
    Executors,     \* processes that call execute() with the key
    NoOne,         \* the owner of a receipt nobody has claimed
    Legacy,        \* TRUE: the ledger may already hold a version-1 receipt
    DecodeFaults,  \* TRUE: an acquired write response may be undecodable
    MaxTries,      \* MAX_TRANSPORT_ATTEMPTS (3 in the code)
    MaxAuth,       \* cap on reattempt authorizations (8 in the code)
    MaxFence       \* model bound on claims; the code has none

ASSUME ExecutorAssumption == NoOne \notin Executors
ASSUME FlagAssumption == {Legacy, DecodeFaults} \subseteq BOOLEAN
ASSUME BoundAssumption ==
    /\ MaxTries \in Nat \ {0}
    /\ MaxAuth \in Nat
    /\ MaxFence \in Nat

VARIABLES
    receipt,   \* the key's receipt in the ledger
    me,        \* what each executing process keeps in memory
    cooldown,  \* the provider cooldown outlasts the retry budget
    sent,      \* history: write requests that may have reached the provider
    wire,      \* those whose fate the provider has not settled
    landed,    \* those the provider applied: the rows of this operation
    refused    \* those the provider answered with 400/422

vars == <<receipt, me, cooldown, sent, wire, landed, refused>>
provider == <<sent, wire, landed, refused>>

-----------------------------------------------------------------------------
(* Types.                                                                  *)

Terminal == {"verified", "rejected_not_applied"}
Uncertain == {"outcome_unknown", "recovery_required", "correlation_conflict"}
Acknowledged ==
    {"applied_pending_readback", "write_succeeded_readback_validation_failed"}
Status == Terminal \union Uncertain \union Acknowledged \union
    {"none", "legacy", "reserved", "sending", "not_sent_retryable",
     "authorized_retry"}

Grants == 0 .. MaxAuth    \* 0: the first reservation; n: the n-th authorization
Fences == 0 .. MaxFence   \* 0: before any claim
Request == [fence : Fences, try : Nat, grant : Grants]
SendMark == [fence : Fences, grant : Grants]

\* evidence abstracts recovery_evidence: "partial" an unfinished scan, "absent"
\* and "found" a complete one with zero or more matches, "failed" one with a
\* failure code; scanFence is a history field, the claim that ran the scan;
\* correlated says that the action is one of CORRELATED_CREATES.
Receipt ==
    [correlated : BOOLEAN, status : Status, owner : Executors \union {NoOne},
     fence : Fences, leaseLive : BOOLEAN, applied : {"unset", "no", "yes"},
     ackValidated : BOOLEAN,
     evidence : {"none", "partial", "absent", "found", "failed"},
     fresh : BOOLEAN, scanFence : Fences, issued : Grants,
     consumed : SUBSET Grants, activeAuth : Grants, mark : SendMark,
     uncertain : SUBSET SendMark]

\* Where a process is between two of its ledger sections.
Step == {"idle", "reserve", "dispatch", "await", "notSent", "backoff", "acked",
         "refusal", "opaque", "validate", "resume", "readback", "scan",
         "pages", "scanned", "decide", "fail", "conclude"}
Local == [pc : Step, fence : Fences, try : 0 .. MaxTries, grant : Grants,
          base : Nat, found : Nat]

NoMark == [fence |-> 0, grant |-> 0]
Idle == [pc |-> "idle", fence |-> 0, try |-> 0, grant |-> 0,
         base |-> 0, found |-> 0]
LegacyRequest == [fence |-> 0, try |-> 1, grant |-> 0]

TypeOK ==
    /\ receipt \in Receipt
    /\ me \in [Executors -> Local]
    /\ cooldown \in BOOLEAN
    /\ sent \subseteq Request
    /\ wire \subseteq sent
    /\ landed \subseteq sent
    /\ refused \subseteq sent

-----------------------------------------------------------------------------
(* The initial ledger holds no receipt, or a version-1 attempt_started     *)
(* receipt whose one write may still be anywhere.                          *)

NewReceipt(status, correlated) ==
    [correlated |-> correlated, status |-> status, owner |-> NoOne,
     fence |-> 0, leaseLive |-> FALSE, applied |-> "unset", ackValidated |-> FALSE, evidence |-> "none",
     fresh |-> FALSE, scanFence |-> 0, issued |-> 0, consumed |-> {},
     activeAuth |-> 0, mark |-> NoMark, uncertain |-> {}]

Init ==
    /\ me = [e \in Executors |-> Idle]
    /\ cooldown = FALSE
    /\ landed = {}
    /\ refused = {}
    /\ \/ /\ \E c \in BOOLEAN : receipt = NewReceipt("none", c)
          /\ sent = {}
          /\ wire = {}
       \/ /\ Legacy
          /\ receipt = NewReceipt("legacy", TRUE)
          /\ sent = {LegacyRequest}
          /\ wire = {LegacyRequest}

-----------------------------------------------------------------------------
(* Building blocks.                                                        *)

Live(e) == me[e].pc # "idle"
MyMark(e) == [fence |-> me[e].fence, grant |-> me[e].grant]
Req(e) == [fence |-> me[e].fence, try |-> me[e].try, grant |-> me[e].grant]
Goto(e, step) == me' = [me EXCEPT ![e].pc = step]
Return(e) == me' = [me EXCEPT ![e] = Idle]

\* Mutants (here and below, named ...Mutant) are the plausible bugs each property
\* must catch; nothing but those checks uses them.
UncheckedMutant(e) == TRUE
LeaseIgnoredMutant(e) == receipt.owner = e /\ receipt.fence = me[e].fence

\* save(): only the current owner under its own fence and a live lease writes.
Owns(e) ==
    /\ receipt.owner = e
    /\ receipt.fence = me[e].fence
    /\ receipt.leaseLive

\* A fenced-off process gets OwnershipLost and leaves without a trace.
SaveThen(e, new, step) ==
    \/ Owns(e) /\ receipt' = new /\ Goto(e, step)
    \/ ~Owns(e) /\ UNCHANGED receipt /\ Return(e)

\* A save that also gives the lease back (lease_until=0) ends the call.
SaveAndReturn(e, new) ==
    /\ receipt' = IF Owns(e) THEN [new EXCEPT !.leaseLive = FALSE] ELSE receipt
    /\ Return(e)

-----------------------------------------------------------------------------
(* The first locked section of execute(): claim the receipt.  Each action  *)
(* is one way through its status tests.                                    *)

Claimable(e) ==
    /\ ~Live(e)
    /\ ~receipt.leaseLive
    /\ receipt.fence < MaxFence

Claim(e, new, step) ==
    /\ receipt' = [new EXCEPT !.owner = e, !.fence = @ + 1, !.leaseLive = TRUE]
    /\ me' = [me EXCEPT ![e] = [@ EXCEPT !.pc = step, !.fence = receipt.fence + 1]]
    /\ UNCHANGED <<provider, cooldown>>

BeginFresh(e) ==
    /\ Claimable(e) /\ receipt.status = "none"
    /\ Claim(e, [receipt EXCEPT !.status = "reserved"], "reserve")

LegacyResentMutant(e) ==
    /\ Claimable(e) /\ receipt.status = "legacy"
    /\ Claim(e, [receipt EXCEPT !.status = "reserved"], "reserve")
\* Read-only recovery of an explicitly correlated version-1 attempt_started
\* receipt: its successor in native_recoveries starts as recovery_required.
BeginLegacyRecovery(e) ==
    /\ Claimable(e) /\ receipt.status = "legacy"
    /\ Claim(e, [receipt EXCEPT !.status = "recovery_required"], "scan")

BeginResumeNotSent(e) ==
    /\ Claimable(e) /\ receipt.status = "not_sent_retryable"
    /\ Claim(e, receipt, "reserve")

\* The next same-key call consumes the authorization and drops old evidence.
Pending == (1 .. receipt.issued) \ receipt.consumed
StaleEvidenceMutant(a) ==
    [receipt EXCEPT !.status = "reserved", !.consumed = @ \union {a},
                    !.activeAuth = a]
ConsumeAuthorization(a) ==
    [receipt EXCEPT !.status = "reserved", !.consumed = @ \union {a},
                    !.activeAuth = a, !.evidence = "none", !.fresh = FALSE]
BeginAuthorized(e) ==
    /\ Claimable(e) /\ receipt.status = "authorized_retry"
    /\ \E a \in Pending :
        /\ Pending = {a}
        /\ Claim(e, ConsumeAuthorization(a), "reserve")

\* An expired reserved or sending lease goes to recovery; the send boundary of
\* the dead owner is kept among the uncertain writes.
ForgottenBoundaryMutant == [receipt EXCEPT !.status = "recovery_required"]
AfterCrash ==
    [receipt EXCEPT !.status = "recovery_required",
                    !.uncertain = IF receipt.status = "sending"
                                  THEN @ \union {receipt.mark} ELSE @]
ResendAfterCrashMutant(e) ==
    /\ Claimable(e) /\ receipt.status \in {"reserved", "sending"}
    /\ Claim(e, [AfterCrash EXCEPT !.status = "reserved"], "reserve")
SendingUnclaimedMutant(e) ==
    /\ Claimable(e) /\ receipt.status = "reserved"
    /\ Claim(e, AfterCrash, "scan")
BeginAfterCrash(e) ==
    /\ Claimable(e) /\ receipt.status \in {"reserved", "sending"}
    /\ Claim(e, AfterCrash, "scan")

BeginRecovery(e) ==
    /\ Claimable(e) /\ receipt.status \in Uncertain
    /\ Claim(e, receipt, "scan")

BeginReadback(e) ==
    /\ Claimable(e) /\ receipt.status \in Acknowledged
    /\ Claim(e, receipt, "resume")

-----------------------------------------------------------------------------
(* The write branch: mark the send boundary durably, then one POST/PATCH/  *)
(* DELETE with at most MaxTries transport attempts.                        *)

MarkSending(e) ==
    /\ me[e].pc = "reserve"
    /\ \/ /\ Owns(e)
          /\ receipt' = [receipt EXCEPT !.status = "sending", !.mark =
                           [fence |-> me[e].fence, grant |-> receipt.activeAuth]]
          /\ me' = [me EXCEPT ![e] = [@ EXCEPT !.pc = "dispatch", !.try = 1,
                                               !.grant = receipt.activeAuth]]
       \/ ~Owns(e) /\ UNCHANGED receipt /\ Return(e)
    /\ UNCHANGED <<provider, cooldown>>

\* call(): a provider cooldown beyond the wait budget stops before the socket.
BackOff(e) ==
    /\ me[e].pc = "dispatch" /\ cooldown
    /\ Goto(e, "backoff")
    /\ UNCHANGED <<receipt, provider, cooldown>>

\* EAI_AGAIN or ECONNREFUSED before any response: proven not sent.
ConnectionRefused(e) ==
    /\ me[e].pc = "dispatch" /\ ~cooldown
    /\ Goto(e, "notSent")
    /\ UNCHANGED <<receipt, provider, cooldown>>

\* The request leaves.  Nothing re-checks the lease here: an owner whose lease
\* ran out after the mark still sends.
Dispatch(e) ==
    /\ me[e].pc = "dispatch" /\ ~cooldown
    /\ sent' = sent \union {Req(e)}
    /\ wire' = wire \union {Req(e)}
    /\ Goto(e, "await")
    /\ UNCHANGED <<receipt, cooldown, landed, refused>>

ReceiveAck(e) ==
    /\ me[e].pc = "await" /\ Req(e) \in landed
    /\ Goto(e, "acked")
    /\ UNCHANGED <<receipt, provider, cooldown>>

ConflictIsRejectionMutant(e) ==
    /\ me[e].pc = "await" /\ Req(e) \in refused \union landed
    /\ Goto(e, "refusal")
    /\ UNCHANGED <<receipt, provider, cooldown>>
\* 400 or 422: _deterministic_write_rejection.
ReceiveRejection(e) ==
    /\ me[e].pc = "await" /\ Req(e) \in refused
    /\ Goto(e, "refusal")
    /\ UNCHANGED <<receipt, provider, cooldown>>

\* Timeout, reset, 429, 5xx: nothing is known about delivery.
ReceiveNothing(e) ==
    /\ me[e].pc = "await"
    /\ Goto(e, "opaque")
    /\ UNCHANGED <<receipt, provider, cooldown>>

\* An acquired response whose body cannot be decoded raises ValueError, which
\* passes the PlaneProviderRequestError handler by and reaches the last one.
ReceiveGarbled(e) ==
    /\ DecodeFaults
    /\ me[e].pc = "await"
    /\ Goto(e, "fail")
    /\ UNCHANGED <<receipt, provider, cooldown>>

\* Only a proven not-sent write is retried by the transport loop; saving the
\* attempt history first makes the retry conditional on ownership.
RetryOpaqueMutant(pc) == pc \in {"notSent", "opaque"}
Retryable(pc) == pc = "notSent"
UncountedRetryMutant(e) ==
    /\ Retryable(me[e].pc) /\ me[e].try < MaxTries
    /\ Goto(e, "dispatch")
    /\ UNCHANGED <<receipt, provider, cooldown>>
RetryWrite(e) ==
    /\ Retryable(me[e].pc) /\ me[e].try < MaxTries
    /\ \/ Owns(e) /\ me' = [me EXCEPT ![e] = [@ EXCEPT !.pc = "dispatch",
                                                        !.try = me[e].try + 1]]
       \/ ~Owns(e) /\ Return(e)
    /\ UNCHANGED <<receipt, provider, cooldown>>

OpaqueIsNotSentMutant(e) ==
    /\ me[e].pc \in {"notSent", "backoff", "opaque"}
    /\ SaveAndReturn(e, [receipt EXCEPT !.status = "not_sent_retryable",
                                        !.applied = "no"])
    /\ UNCHANGED <<provider, cooldown>>
RecordNotSent(e) ==
    /\ me[e].pc \in {"notSent", "backoff"}
    /\ SaveAndReturn(e, [receipt EXCEPT !.status = "not_sent_retryable",
                                        !.applied = "no"])
    /\ UNCHANGED <<provider, cooldown>>

RecordRejection(e) ==
    /\ me[e].pc = "refusal"
    /\ SaveAndReturn(e, [receipt EXCEPT !.status = "rejected_not_applied",
                                        !.applied = "no"])
    /\ UNCHANGED <<provider, cooldown>>

\* The opaque error may have been a 429, which starts the provider cooldown.
RecordUnknown(e) ==
    /\ me[e].pc = "opaque"
    /\ SaveAndReturn(e, [receipt EXCEPT !.status = "outcome_unknown",
                                        !.uncertain = @ \union {MyMark(e)}])
    /\ cooldown' \in {cooldown, TRUE}
    /\ UNCHANGED provider

\* The acknowledgment is durable before anything is validated.
RecordAck(e) ==
    /\ me[e].pc = "acked"
    /\ SaveThen(e, [receipt EXCEPT !.status = "applied_pending_readback",
                                   !.applied = "yes", !.ackValidated = FALSE],
                "validate")
    /\ UNCHANGED <<provider, cooldown>>

AcceptAck(e) ==
    /\ me[e].pc = "validate"
    /\ SaveThen(e, [receipt EXCEPT !.ackValidated = TRUE], "readback")
    /\ UNCHANGED <<provider, cooldown>>

Unproven == [receipt EXCEPT !.status = "write_succeeded_readback_validation_failed"]
RejectAck(e) ==
    /\ me[e].pc = "validate"
    /\ SaveAndReturn(e, Unproven)
    /\ UNCHANGED <<provider, cooldown>>

-----------------------------------------------------------------------------
(* Readback of an acknowledged write: GETs only, never another write.      *)

Resume(e) ==
    /\ me[e].pc = "resume"
    /\ IF receipt.ackValidated THEN Goto(e, "readback") /\ UNCHANGED receipt
       ELSE SaveAndReturn(e, Unproven)
    /\ UNCHANGED <<provider, cooldown>>

\* The readback finds the effect it looks for only where one exists.
ProveEffect(e) ==
    /\ me[e].pc = "readback" /\ landed # {}
    /\ SaveAndReturn(e, [receipt EXCEPT !.status = "verified"])
    /\ UNCHANGED <<provider, cooldown>>

ReadbackFails(e) ==
    /\ me[e].pc = "readback"
    /\ Goto(e, "fail")
    /\ UNCHANGED <<receipt, provider, cooldown>>

-----------------------------------------------------------------------------
(* The recovery branch: a complete correlation scan, GETs only.            *)

StartScan(e) ==
    /\ me[e].pc = "scan" /\ receipt.correlated
    /\ \/ /\ Owns(e)
          /\ receipt' = [receipt EXCEPT !.evidence = "partial", !.fresh = FALSE,
                                        !.scanFence = me[e].fence]
          /\ me' = [me EXCEPT ![e] = [@ EXCEPT !.pc = "pages",
                                               !.base = Cardinality(landed)]]
       \/ ~Owns(e) /\ UNCHANGED receipt /\ Return(e)
    /\ UNCHANGED <<provider, cooldown>>

\* Any other action stays recovery_required: nothing can be looked up.
NoScan(e) ==
    /\ me[e].pc = "scan" /\ ~receipt.correlated
    /\ SaveAndReturn(e, [receipt EXCEPT !.status = "recovery_required"])
    /\ UNCHANGED <<provider, cooldown>>

\* All pages are read and saved one by one; a row that lands while the scan is
\* under way may or may not be on a page still to be read.
ReadPages(e) ==
    /\ me[e].pc = "pages"
    /\ \/ /\ Owns(e)
          /\ \E n \in me[e].base .. Cardinality(landed) :
                me' = [me EXCEPT ![e] = [@ EXCEPT !.pc = "scanned", !.found = n]]
       \/ ~Owns(e) /\ Return(e)
    /\ UNCHANGED <<receipt, provider, cooldown>>

ScanFails(e) ==
    /\ me[e].pc = "pages"
    /\ Goto(e, "fail")
    /\ UNCHANGED <<receipt, provider, cooldown>>

CompleteScan(e) ==
    /\ me[e].pc = "scanned"
    /\ SaveThen(e, [receipt EXCEPT
                      !.evidence = IF me[e].found = 0 THEN "absent" ELSE "found",
                      !.fresh = TRUE], "decide")
    /\ UNCHANGED <<provider, cooldown>>

\* One match verifies the operation, several conflict, none proves nothing.
EmptyScanVerifiesMutant(n) ==
    IF n <= 1 THEN [receipt EXCEPT !.status = "verified", !.applied = "yes"]
    ELSE [receipt EXCEPT !.status = "correlation_conflict"]
ScanVerdict(n) ==
    IF n = 1 THEN [receipt EXCEPT !.status = "verified", !.applied = "yes"]
    ELSE [receipt EXCEPT !.status = IF n = 0 THEN "outcome_unknown"
                                    ELSE "correlation_conflict"]
DecideScan(e) ==
    /\ me[e].pc = "decide"
    /\ SaveAndReturn(e, ScanVerdict(me[e].found))
    /\ UNCHANGED <<provider, cooldown>>

-----------------------------------------------------------------------------
(* The last exception handler: flag evidence under way, then conclude.     *)

FlagEvidence(e) ==
    /\ me[e].pc = "fail"
    /\ IF receipt.evidence = "none" THEN Goto(e, "conclude") /\ UNCHANGED receipt
       ELSE SaveThen(e, [receipt EXCEPT !.evidence = "failed"], "conclude")
    /\ UNCHANGED <<provider, cooldown>>

ConcludeFailure(e) ==
    /\ me[e].pc = "conclude"
    /\ SaveAndReturn(e, IF receipt.applied = "yes" THEN Unproven
                        ELSE [receipt EXCEPT !.status = "outcome_unknown"])
    /\ UNCHANGED <<provider, cooldown>>

-----------------------------------------------------------------------------
(* authorize_reattempt(): one locked section, no provider request.         *)

AbsenceShown == receipt.evidence = "absent" /\ receipt.fresh
Authorizable ==
    /\ receipt.correlated
    /\ ~receipt.leaseLive
    /\ receipt.status = "outcome_unknown"
    /\ receipt.applied # "yes"
    /\ AbsenceShown
    /\ receipt.issued < MaxAuth
    /\ Pending = {}

AuthorizeReattempt ==
    /\ Authorizable
    /\ receipt' = [receipt EXCEPT !.status = "authorized_retry", !.issued = @ + 1]
    /\ UNCHANGED <<me, provider, cooldown>>

-----------------------------------------------------------------------------
(* The environment: time, crashes, and the provider.                       *)

ExpireLease ==
    /\ receipt.leaseLive
    /\ receipt' = [receipt EXCEPT !.leaseLive = FALSE]
    /\ UNCHANGED <<me, provider, cooldown>>

\* Absence evidence is good for five minutes.
EvidenceAges ==
    /\ receipt.fresh
    /\ receipt' = [receipt EXCEPT !.fresh = FALSE]
    /\ UNCHANGED <<me, provider, cooldown>>

\* Another key of the same provider met a 429, or the cooldown ran out.
CooldownChanges ==
    /\ cooldown' = ~cooldown
    /\ UNCHANGED <<receipt, me, provider>>

\* The process dies, or an exception no handler names leaves execute().
Crash(e) ==
    /\ Live(e)
    /\ Return(e)
    /\ UNCHANGED <<receipt, provider, cooldown>>

Land(r) ==
    /\ wire' = wire \ {r}
    /\ landed' = landed \union {r}
    /\ UNCHANGED <<receipt, me, cooldown, sent, refused>>

Refuse(r) ==
    /\ wire' = wire \ {r}
    /\ refused' = refused \union {r}
    /\ UNCHANGED <<receipt, me, cooldown, sent, landed>>

Lose(r) ==
    /\ wire' = wire \ {r}
    /\ UNCHANGED <<receipt, me, cooldown, sent, landed, refused>>

-----------------------------------------------------------------------------
Begin(e) ==
    \/ BeginFresh(e) \/ BeginLegacyRecovery(e) \/ BeginResumeNotSent(e)
    \/ BeginAuthorized(e) \/ BeginAfterCrash(e) \/ BeginRecovery(e)
    \/ BeginReadback(e)

Write(e) ==
    \/ MarkSending(e) \/ BackOff(e) \/ ConnectionRefused(e) \/ Dispatch(e)
    \/ ReceiveAck(e) \/ ReceiveRejection(e) \/ ReceiveNothing(e)
    \/ ReceiveGarbled(e) \/ RetryWrite(e) \/ RecordNotSent(e)
    \/ RecordRejection(e) \/ RecordUnknown(e) \/ RecordAck(e)
    \/ AcceptAck(e) \/ RejectAck(e)

Recover(e) ==
    \/ Resume(e) \/ ProveEffect(e) \/ ReadbackFails(e)
    \/ StartScan(e) \/ NoScan(e) \/ ReadPages(e) \/ ScanFails(e)
    \/ CompleteScan(e) \/ DecideScan(e) \/ FlagEvidence(e)
    \/ ConcludeFailure(e)

Work(e) == Write(e) \/ Recover(e)

Provider == \E r \in wire : Land(r) \/ Refuse(r) \/ Lose(r)

Clock == ExpireLease \/ EvidenceAges \/ CooldownChanges

Next ==
    \/ \E e \in Executors : Begin(e) \/ Work(e) \/ Crash(e)
    \/ AuthorizeReattempt
    \/ Provider
    \/ Clock

Spec == Init /\ [][Next]_vars

\* A running process keeps running (the transport bounds every request by a
\* timeout); leases run out by the clock; a caller told to wait or recover
\* calls again with the same key.
Fairness ==
    /\ \A e \in Executors : WF_vars(Work(e)) /\ WF_vars(Begin(e))
    /\ WF_vars(ExpireLease)

FairSpec == Spec /\ Fairness

-----------------------------------------------------------------------------
(* Safety.                                                                 *)

\* Two write requests that may have reached the provider never go out under
\* the same grant: one for the first reservation, one for each authorization
\* consumed.  Transport retries, crashes, expired leases and stale owners that
\* still send add nothing.
OneWritePerGrant ==
    \A r, s \in sent : r.grant = s.grant => r = s

\* A receipt that offers plain resumption (not_sent_retryable) has no request
\* of its current grant out in the world: resuming can duplicate nothing.
ResumeIsUnambiguous ==
    receipt.status = "not_sent_retryable" =>
        \A r \in sent : r.grant # receipt.activeAuth

\* Absence evidence is never older than a send: the scan behind it was claimed
\* after the last durable send boundary, so an authorization always answers
\* the newest uncertain write and not an earlier one.
EvidencePostdatesSends ==
    receipt.evidence # "none" => receipt.mark.fence < receipt.scanFence

\* Every request that may have been delivered stays traceable: its boundary is
\* the current durable_send_attempt or is kept in uncertain_write_attempts.
SendsAreRecorded ==
    \A r \in sent \ {LegacyRequest} :
        \E m \in receipt.uncertain \union {receipt.mark} :
            m.fence = r.fence /\ m.grant = r.grant

\* verified, and an acknowledged receipt, stand on a write the provider applied.
VerifiedMeansLanded ==
    receipt.status = "verified" \/ receipt.applied = "yes" => landed # {}

\* rejected_not_applied proves absence as long as no reattempt was authorized.
SoleRejectionIsAbsence ==
    receipt.status = "rejected_not_applied" /\ receipt.consumed = {} =>
        landed = {}

-----------------------------------------------------------------------------
(* The inductive invariant behind OneWritePerGrant and ResumeIsUnambiguous: *)
(* a grant is held by a receipt that may still send, by one process about  *)
(* to send, or by one request, and never by two of them.                   *)

UnsentSteps == {"dispatch", "notSent", "backoff"}
Unsent(e) == me[e].pc \in UnsentSteps
Open == {"none", "reserved", "not_sent_retryable"}
Used(g) ==
    \/ \E r \in sent : r.grant = g
    \/ \E e \in Executors : Unsent(e) /\ me[e].grant = g

ActiveIsGranted == receipt.activeAuth \in {0} \union receipt.consumed
UsedIsGranted == \A g \in Grants : Used(g) => g \in {0} \union receipt.consumed
UnsentIsUnused ==
    \A e \in Executors : Unsent(e) =>
        /\ \A r \in sent : r.grant # me[e].grant
        /\ \A f \in Executors \ {e} : Unsent(f) => me[f].grant # me[e].grant
OpenIsUnused == receipt.status \in Open => ~Used(receipt.activeAuth)
OwnerHoldsGrant ==
    \A e \in Executors : receipt.owner = e /\ receipt.fence = me[e].fence =>
        /\ me[e].pc = "reserve" => receipt.status \in Open
        /\ Unsent(e) => me[e].grant = receipt.activeAuth

GrantInv ==
    /\ OneWritePerGrant
    /\ ActiveIsGranted
    /\ UsedIsGranted
    /\ UnsentIsUnused
    /\ OpenIsUnused
    /\ OwnerHoldsGrant

\* Terminal receipts have no live owner, so nobody may save over them.
TerminalIsReleased == receipt.status \in Terminal => ~receipt.leaseLive

-----------------------------------------------------------------------------
(* The inductive invariants behind the other safety properties.  What a    *)
(* process remembers tells of the receipt only while it owns it.           *)

MarkedSteps == UnsentSteps \union {"await", "acked", "refusal", "opaque"}
WriteSteps == {"reserve"} \union MarkedSteps
ScanSteps == {"scan", "pages", "scanned", "decide"}
ReadbackSteps == {"validate", "resume", "readback"}

\* A receipt that may send holds no evidence, and a scan belongs to a claim made
\* after the last send boundary.
EvidenceInv ==
    /\ EvidencePostdatesSends
    /\ receipt.mark.fence <= receipt.fence
    /\ receipt.status \in Open => receipt.evidence = "none"
    /\ \A e \in Executors : Owns(e) =>
        /\ me[e].pc \in WriteSteps => receipt.evidence = "none"
        /\ me[e].pc \in ScanSteps =>
             receipt.status \in Uncertain /\ receipt.mark.fence < receipt.fence
        /\ me[e].pc \in ScanSteps \ {"scan"} => receipt.scanFence = receipt.fence

\* A request has one fate, and what a process has been told of it is so.
FateInv ==
    /\ VerifiedMeansLanded
    /\ wire \intersect (landed \union refused) = {}
    /\ landed \intersect refused = {}
    /\ receipt.status = "rejected_not_applied" => refused # {}
    /\ \A e \in Executors :
        /\ me[e].pc = "acked" => Req(e) \in landed
        /\ me[e].pc = "refusal" => Req(e) \in refused
        /\ me[e].pc \in {"scanned", "decide"} => me[e].found <= Cardinality(landed)

\* A boundary is overwritten only when it is kept elsewhere, or when nothing was
\* sent past it and nothing will be.
Boundary(r) == [fence |-> r.fence, grant |-> r.grant]
Recorded == receipt.uncertain \union {receipt.mark}
Passed(m) ==
    \/ \E r \in sent \ {LegacyRequest} : Boundary(r) = m
    \/ \E e \in Executors : Unsent(e) /\ MyMark(e) = m
RecordInv ==
    /\ SendsAreRecorded
    /\ \A e \in Executors : Unsent(e) => MyMark(e) \in Recorded
    /\ receipt.status \notin {"sending"} \union Acknowledged \union Terminal =>
        receipt.mark \in receipt.uncertain \/ ~Passed(receipt.mark)
    /\ receipt.status \in Acknowledged => receipt.applied = "yes"
    /\ \A e \in Executors : Owns(e) =>
        /\ me[e].pc \in MarkedSteps => receipt.mark = MyMark(e)
        /\ me[e].pc \in ReadbackSteps => receipt.applied = "yes"
        /\ me[e].pc \in {"fail", "conclude"} =>
             receipt.applied = "yes" \/ receipt.status \in Uncertain

\* While a process owns the receipt, its step tells the status it will save over.
StatusInv ==
    /\ receipt.applied = "yes" <=> receipt.status \in Acknowledged \union {"verified"}
    /\ \A e \in Executors : Owns(e) =>
        /\ me[e].pc \in MarkedSteps =>
             receipt.status = "sending" /\ me[e].grant = receipt.activeAuth
        /\ me[e].pc \in ScanSteps => receipt.status \in Uncertain
        /\ me[e].pc \in ReadbackSteps => receipt.status \in Acknowledged
        /\ me[e].pc \in {"fail", "conclude"} =>
             receipt.status \in {"sending"} \union Uncertain \union Acknowledged

\* An authorization waits on a receipt nobody owns, and is the only one to wait.
AuthorizationInv ==
    /\ receipt.status = "authorized_retry" => ~receipt.leaseLive
    /\ receipt.consumed \subseteq 1 .. receipt.issued

-----------------------------------------------------------------------------
(* Action properties.                                                      *)

\* Nobody, a stale owner included, changes what a terminal receipt says.
TerminalReceiptIsFinal ==
    [][receipt.status \in Terminal =>
        [receipt' EXCEPT !.fresh = receipt.fresh] = receipt]_vars

\* An operator's authorization is used up by the one execution it allows, and
\* cannot be overwritten by a process that was still recovering.
AuthorizationIsNotLost ==
    [][receipt.status = "authorized_retry" =>
        \/ receipt'.status = "authorized_retry"
        \/ receipt'.status = "reserved" /\ receipt'.consumed = 1 .. receipt.issued]_vars

-----------------------------------------------------------------------------
(* Liveness under Fairness.                                                *)

\* Every call comes back: the transport loop and the handlers terminate.
CallReturns == \A e \in Executors : Live(e) ~> ~Live(e)

\* A receipt left at the send boundary by a dead owner is taken up for
\* recovery (unless the model ran out of claims).
SendingIsResolved ==
    receipt.status = "sending" ~>
        receipt.status # "sending" \/ receipt.fence = MaxFence
=============================================================================
