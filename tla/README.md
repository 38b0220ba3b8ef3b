# A verification development for plane-mcp-karval

plane-mcp-karval lets an agent change a Plane workspace through an MCP server. Its
core is about one question: *may this write be sent again?* Writes travel to a
provider that may apply them late, lose its answer, or answer nonsense; the
processes that send them crash, outlive their leases and share one ledger file; and
an operator may authorize a repetition or not. These modules model the parts that
answer the question and check, with TLC on small instances and with TLAPS for every
value of the constants, that the answer is right.

Paths are relative to the repository (`src/` is its root; the Python packages are in
`src/src/`).

## 1. The system

```
 MCP tools (server.py) ── state patch, comment, generic dispatch
      │   _ledger_path(): migrate_legacy_ledgers() ──► the canonical ledger file
      ▼                                                      ▲
 PlaneClient (client.py)                                     │ _locked_ledger():
   ├─ native executor (resilience.py) ── lease, fence ───────┤ flock, read, change,
   ├─ classic executor, reconciliations ─────────────────────┤ write a copy, rename
   └─ governed item, comment, binding writes ────────────────┘
      │  _request(): GET / POST / PATCH / DELETE
      ▼
 Plane (the provider: applies, refuses, loses, lists late)

 operator broker (operator_broker.py): its own process, its own snapshot file
   prepare ─ confirm (attested) ─ execute ─► provider adapter
```

| Component | State it keeps | Operations | What is hard | What makes it correct |
|---|---|---|---|---|
| Durable (native) executor, `resilience.py` | per key a version-2 receipt: status, owner, lease, fence, authorizations, the durable send marker, uncertain writes, recovery evidence | `execute`: reserve, send with transport retries, read back, recover by scanning; `authorize_reattempt` | owners die or lose their lease between any two ledger sections, stale owners send; requests land late; answers are lost or undecodable | one write per grant; terminal receipts are final; evidence is newer than the send it speaks of; nothing that may have been sent is forgotten; calls return |
| Operator broker, `operator_broker.py` | requests by id, the id of each key, tombstones, targets with a write in flight, targets in quarantine; a snapshot of all that with the boot that saved it | `prepare`, `confirm`, `execute`, `prune`, retention, `_restore` after a restart or reboot | attestation and provider calls outside the lock, failing saves, restarts in the middle, three different limits | one provider call per key, on disk before it is made, approved under this boot; no write on a target in doubt; what was saved can be restored |
| Governed mutations, `client.py:1311-1800` | receipts and consumed authorizations in a ledger | create and update item, add comment, bind to module | lock held through provider I/O; a copy of the ledger that is written back at the end; crashes before that | a comment is posted once; an acknowledged binding is not repeated; no process undoes another's receipt; nobody waits for the dead |
| Ledger location and migration, `client.py:1872-1960`, `server.py:99-106` | the canonical ledger, the legacy ledgers, recorded conflicts | `_ledger_path` before every mutation, merge, the executors' use of what was merged | the legacy files are read before the lock; the merge is repeated while receipts move on | nothing is taken back; a key known to a legacy ledger is not sent as new; real collisions block |
| Classic executor and reconciliations, `client.py:382-1064` | version-1 receipts, reconciliation authorizations and events | `execute_mutation_action`, two reconciliations | two locked sections around unlocked reads; compare-and-set on the fingerprint only | no replay of an attempt of unknown outcome; verdicts are true and are never unsaid; evidence is appended to the receipt it was gathered for |
| Readback and pagination, `client.py:853-1064, 1108-1233` | of one loop: cursor, seen cursors, pages, rows | verify presence or absence over pages; read archived and active modules for a reconciliation | rows inserted and removed between two pages; answers that are malformed, foreign, without a flag or a cursor, or that repeat a cursor; budgets | terminates; what it says is there is there; absence is claimed only for a complete listing |
| Provider transport, `client.py:1802-1869` | none | one HTTP request, classification of its failure | which failures prove that nothing was sent | only a proven non-delivery is `not_sent` |
| MCP server and lifecycle tools, `server.py` | none of its own | tools; the operator transition: check state, patch, comment, check again | failure between patch and comment | reports what is applied; a retry repeats nothing; no comment on a transition that was not applied |
| Registry and manifest, `registry.py`, `manifest.py` | generated data | lookup, paged listing | cursors | every operation is listed once |
| Work-item contract, `plane_work_item_contract.py` | none; what it judges is made by the lifecycle tools | validate a document or a comment, render a comment, timing metrics | dozens of local rules over phases, states, units and times, which together must mean one thing | what passes as done is a whole, reviewed lifecycle; what passes on the way can be finished; metrics are sound |
| Title icons, issue readiness | none | validation, rendering | nested text | pure functions |
| Transport policy, command line, scripts | none | start-up, development tools | — | — |

The components interact through the ledger file (the executors, the governed writes
and the migration; every change is one section under a `flock`, in which the file is
read and at whose end a whole new file is renamed into place), through the provider,
and through the receipts the tools hand to each other. The broker shares no state with
the others.

`PROJECT.json` lists 40 hazards: places in the code where a step of two actors in an
unexpected order, a crash, a late answer or a limit could break one of the promises
above, each with the properties that would notice.

## 2. The modules

| Module | What it is |
|---|---|
| `NativeExecutor` | the durable executor: one key, its receipt, the processes, the provider |
| `GrantedWrites` | what the executor promises, with leases, fences, crashes and retries left out |
| `NativeExecutorRefinement` | the mapping from the first to the second |
| `NativeExecutorProofs` | theorems about `NativeExecutor` |
| `ApprovedCalls` | what the broker promises, with threads, retention, snapshots and restarts left out |
| `OperatorBroker` | the broker: memory, snapshot, threads, boots; the mapping to `ApprovedCalls` |
| `OperatorBrokerProofs` | theorems about `OperatorBroker`, the refinement among them |
| `GovernedMutations` | the governed flows over one ledger file |
| `GovernedMutationsProofs` | theorems about `GovernedMutations` |
| `LedgerMigration` | legacy ledgers, the merge, and the executors' use of its result |
| `LedgerMigrationProofs` | theorems about `LedgerMigration` |
| `ClassicExecutor` | the executor of version-1 receipts and the reconciliations: one key, several processes |
| `ClassicExecutorProofs` | theorems about `ClassicExecutor` |
| `OperatorLifecycle` | the two lifecycle tools over a durable executor reduced to what they notice of it; two instances of `GrantedWrites` as its promise |
| `OperatorLifecycleProofs` | theorems about `OperatorLifecycle`, the refinement among them |
| `ReadbackPages` | the page loops over a listing that others change while it is read |
| `ReadbackPagesProofs` | theorems about `ReadbackPages` |
| `WorkItemContract` | the rules for documents and comments, and the metrics: operators, no state |
| `WorkItemRecord` | how a record comes about: the tools that comment and move, and the filing of the document |
| `WorkItemRecordProofs` | theorems about `WorkItemRecord` |
| `MC...` | instances for TLC: symmetry sets, the flow or the kind of each mutation, the contracts, comments and papers used |

Operators whose names end in `Mutant` are plausible bugs (a dropped guard, an
off-by-one, a missing save). No specification uses them; each shows that a property
can fail: with the mutant in place of the definition after it, TLC finds the property
violated in the same run.

### 2.1 NativeExecutor

State. `receipt` is the key's entry in the ledger. `me[e]` is what a process keeps in
memory between two ledger sections: the step it takes next, the fence and grant it
claimed, the transport attempts it has made, the rows its scan started from. `sent`,
`wire`, `landed`, `refused` are the requests that may have reached the provider and
what it made of them. `cooldown` is the provider's rate limit, seen from a retry
budget.

Actions follow `execute()` from top to bottom. The `Begin...` actions are the first
ledger section, one for each status a receipt can be found in (`BeginFresh`,
`BeginLegacyRecovery`, `BeginResumeNotSent`, `BeginAuthorized`, `BeginAfterCrash`,
`BeginRecovery`, `BeginReadback`): each claims the receipt, with a new fence and a new
lease. `MarkSending` writes the durable send marker, `BackOff` refuses to send during
a cooldown, `Dispatch` and
`ConnectionRefused` are the request, `ReceiveAck`, `ReceiveRejection`,
`ReceiveNothing` and `ReceiveGarbled` its outcomes, `RetryWrite` the transport loop,
the `Record...` actions the section that saves an outcome. `AcceptAck`, `RejectAck`,
`ProveEffect` and `ReadbackFails` are the validation and readback of an acknowledged
write; `StartScan` to `ConcludeFailure` the read-only recovery. `AuthorizeReattempt`
is the operator's call. Every save goes through `SaveThen` or `SaveAndReturn`, which
keep the code's check of owner, fence and lease (`Owns`).

The environment: `Crash` anywhere between sections, `ExpireLease` at any time,
`EvidenceAges` (evidence older than its period of validity), `CooldownChanges`, and
`Land`, `Refuse`, `Lose` of any request at any time after it left, also after its
sender gave up or died.

Abstractions. One key is modelled: receipts of different keys share only the
cooldown. A scan is one step that may miss a row. The correlation that a created
object carries is taken to be unique to the operation; `receipt.correlated` says
whether the action is one of those that carry one. Calls that find a terminal receipt
or a live lease and return its content change nothing and are stuttering steps. The
provider's rows are never deleted by others, and `ProveEffect` finds an effect only
if a write of the operation landed.

`GrantedWrites` says it shortly: a grant is the first reservation or a consumed
authorization; a grant sends at most one write; and the status a caller reads moves on
grounds only: to an acknowledgment or a rejection if that is the fate of the last
grant's write, to `verified` if some write of the operation was applied, back to a
resendable one if the last grant was not used. `Honest` is what a reader may conclude
from a status. `NativeExecutorRefinement` maps the consumed authorizations to grants,
the requests to their fates, and the receipt's status to the promise's (`StatusOf`).

### 2.2 OperatorBroker

State. `mem` are the broker's collections (`req`, `idem`, `tomb`, `inflight`,
`quar`), `store` the last snapshot with the boot that saved it, `up` and `boot` the
process and the machine, `attesting` and `task` the threads inside `confirm` and
`execute`, `flying` the writes the provider may still apply; `approved` and `calls`
are histories for the properties.

Actions. `Prepare` and `PrepareAgain` (with retention and the limits), `BeginConfirm`
/ `FinishConfirm` / `RejectConfirm` around the attestation outside the lock,
`BeginExecute` (consumes the confirmation and saves), `CheckBinding`,
`ConditionalExecute`, `VerifyReadback` and `Settle` in the executing thread, `Start`
(restore, with the conversion of a snapshot of an earlier boot) and `Crash`. A section
with its save is one step; with `SaveFaults` a save may raise with or without effect,
and the step does what the code's handlers then do. With `BrokerErrors` the clock
a thread reads may regress, or the provider raise a `BrokerError` of its own: `execute()`
passes such an error on (`operator_broker.py:569-570`), and the attempt stays open
without a thread.

Abstractions. A nonce and a receipt belong to one request and are read off it. Digests,
signatures, envelopes and the shape checks of a snapshot are taken as sound; what
`_restore` demands of the relations between collections is kept in full
(`Consistent`, `BootsAgree`). The expiry of a request is a flag the clock sets.

`ApprovedCalls` says it shortly: a provider call needs an approval given under the boot
it is made in, no approval and no key serves two calls, and a work item is closed from
one call until that call is *cleared*, which it is not while its write may still be
applied. In the mapping a call is in doubt as long as the snapshot, not the memory, has
its request as started, unknown or applied and unverified (`InDoubt`): a restart knows
nothing else. So a settlement whose save failed leaves the call in doubt, and a crash
changes nothing but the boot.

### 2.3 GovernedMutations

State. `disk` is the ledger file, `lock` its holder, `copy[p]` the ledger as the
holder has changed it; `pc` and `call` say where a process is; `flying` and `applied`
are the provider's; `posts`, `acked`, `admitted` are histories.

The three flows differ in how they guard a key, and that is what the module is about.
An item write enters the lock (`ItemEnter`), posts, puts the receipt into its copy
(`ItemAcked`), reads back and leaves (`ItemReadback`). A binding looks at the provider
first (`BindLook`), posts, and flushes the receipt under the lock (`BindAcked`,
`BindLeave`, `BindCheck`, `Mark`). A comment reserves the key in one section
(`CommentAdmit`) and does everything else outside (`CommentNote`, `CommentReadback`,
`Mark`). `Post`, `Answered`, `Unanswered`, `Land` are shared. `Crash` may happen at
any step: the system releases the lock and the copy is gone.

Abstractions. Checks of arguments and of what an authorization binds are taken as
passed. Sections without a provider request in them are one step. A failing disk is
not modelled. Listings may lag (`StaleListings`).

### 2.4 LedgerMigration

State. `source` are the receipts of the legacy ledgers, `target` the canonical ledger
with its conflicts, `loaded[p]` what a process has read of the legacy files, `call`
the mutation it then runs. A receipt is the mutation it names and a version that
counts its updates. `Load` reads outside the lock, `Merge` merges inside,
`Reserve`, `Repeat` and `Update` are the executors' sections as far as the ledger's
content is concerned, `Quit` is a refusal or a death. `LegacyWrite` is a caller that
still uses a legacy ledger (the first one is also the default of the governed
functions). `Configured` is a process with `PLANE_MUTATION_LEDGER` set to the canonical
ledger: it goes on with that ledger and merges nothing; set to another file, the process
is outside this module. `moved` records that either happened, since a promise about
history can only be made while the legacy ledgers rest and every process merges.

Abstractions. The receipts section stands for the three sections that are merged
alike; the record of merged sources and unreadable files are left out.

### 2.5 ClassicExecutor

State. `receipt` is the version-1 receipt of one key, `consumed` and `events` the
ledger's reconciliation authorizations and events for it. `pc[p]` and `call[p]` are a
process between two locked sections, with what the last provider request told it
(`learnt`) and, of a repeat or a reconciliation, the receipt it looked at (`prior`).
`flying`, `effect` are the provider's; `posts`, `landed` are histories.

Actions. `Reserve` persists `attempt_started` before `Send`. `Answered`, `Refused`,
`Unanswered` are the outcomes of the request and `NoteAck`, `NoteInvalid`,
`NoteRejection` the section that saves them; an unanswered call, or one with an
unexpected success status, raises and leaves `attempt_started`. `Repeat` is a duplicate
call, `Recover` the tail of `reconcile_native_mutation`; both read the effect again
outside the lock (`Confirm`, `FailToConfirm`, `GiveUp`) and save the result (`Settle`).
`Reconcile` is the first section of either reconciliation: it uses up the authorization,
also when the receipt turns out not to match, because `_locked_ledger()` writes the
ledger on the way out of an exception too. `LookArchived`, `LookActive`, `LookDetail`
are the reads in between and `AppendEvent` the second section.

Two comparisons matter and are kept apart. `_cas_receipt()` compares only the
fingerprint (`Cas`), so that of two duplicates the slower one has the last word:
`verified` may fall back to `write_succeeded_readback_validation_failed`, which
`ReceiptsMoveForward` allows, since it unproves the write without unsaying it. A
reconciliation compares the whole receipt (`Unmoved`).

Environment. `Land` at any time after the request, also after its sender gave up;
`Others` bring the effect about or take it back; `Die` anywhere.

Abstractions. A mutation is its fingerprint; how it is proved is its kind (by the
provider's answer, by a listing, by the object's detail). Calls that are refused
without a change are no steps. A 400 or 422 is taken to mean that the provider never
applies the request.

### 2.6 OperatorLifecycle

State. `writes[k]` is the receipt of each of the two derived keys, `call[p]` the call
a process works on (which tool, what it expects, what it asks for, at which of the two
writes it is), `item` the work item's state and revision, `wire` and `landed` the two
writes at the provider. `said` is the report the last step returned, `issued` the
clock of operator receipts, `posts` a history.

Actions. `BeginOperator` and `BeginSimple` accept a call of either tool, `PreRead`
checks state and revision, then the executor runs under the key `state` and, once its
receipt is proof, under the key `comment` (`Proceed`); `FinalRead` is the operator
tool's last look. Wherever the executor returns without proof the tool reports and stops
(`ReportPartial`). The executor's actions (`Replay` to `Unproved`) are the sections of
`resilience.execute()` as far as a caller can tell them apart: claims, the one send,
the outcomes, the readback, with leases that expire (`Expire`) while the owner goes on.
Operator authorizations, `NativeExecutor`'s subject, are left out: nothing in the tools
grants one.

Two facts of the code shape what can be promised. The simple tool's comment is the same
under every call, the operator's carries the fingerprint of a receipt that includes the
time it was issued: a second operator call that finds the first one's comment receipt
raises (`Bound`, `Die`). And the reports rest on receipts: after a verified patch and a
death before the comment, a retry finds the patch verified and goes on to the comment
without patching again, even when others have moved the item back meanwhile;
`target_confirmed_comment_pending` then says `state_readback_verified` of a state the
call's own pre-read did not see. `ReportsAreTrue` therefore says that the *receipt* is
verified, not that the item is still there; only `FinalRead` looks. The simple tool's
`state_applied_comment_pending` is returned for a rejected patch as well; its status is
read as a claim of nothing (`src/skills/plane-mcp-operations/SKILL.md:68`: "Inspect
nested receipts"), its receipt as what it says.

### 2.7 ReadbackPages

State. `request` is the readback that runs: what it looks for (`mode`, `targets`),
whether its contract reads a listing, an object or a relation map (`shape`), and whether
it names the flag that says that another page follows (`paged`). The mode is the
contract's: in the registry a contract that looks for objects asks for all of its targets
to be present, one that looks for their absence for none. A relation map comes whole,
its lists flattened: it has no pages, and its rows are not held against the budget.
`listing` is what the provider lists, `scan`, `offset`, `seen`, `pages`, `count`, `found`
are the loop's variables, `verdict` how it ended; `stayed`, `met`, `shifted` are histories of the rows.

Actions. One step is one page: `PageBudget`, `GoneAnswer`, `RefusedAnswer`, `RowBudget`,
`TargetsShown`, `StuckCursor`, `NextPage`, `SecondScan`, `LastPage`, told apart by the
checks of `_verify_retrieve_readback`, `_verify_absence_readback` and
`_prove_module_archive_not_applied` in their order (`Refusal`, then rows, then cursor).
Between pages others insert and remove rows anywhere (`Insert`, `Remove`).

Abstractions. An answer is the window of rows a cursor selects and a *quality*, which
stands for what its checks find: a status, a schema, a container, a flag, a cursor, or
the fields of an object. A cursor is the number of rows before the page.

Four things the module shows about the code, besides its properties:

* The 14 absence contracts without a flag (`initiative__delete_initiative` is one)
  conclude the absence of an object from the first page. The docstring of
  `_verify_absence_readback` (`client.py:2622-2628`) speaks of every page.
  `AbsenceIsHonest` claims nothing for them (`Exhaustive`): without that condition TLC
  finds an object that was on the second page all the time.
* A row removed before the cursor moves the rest up, and one of them is never read
  (`shifted`). An offset cursor cannot do better; the claims name the exception.
* A readback of several objects wants all of them on one page: a batch whose rows are
  split over two pages is never verified. That is safe, and `PresenceIsReal` needs it.
* Seven listings whose contract names no flag document it in their schema and are
  stricter than the model.

### 2.8 WorkItemContract and WorkItemRecord

`WorkItemContract` has no state: `Valid(d)` is *`validate_document()` returns no error*,
with one operator for each of its parts, and the metrics are sets that are empty where a
time is missing. Texts and evidence are reduced to whether their checks pass. A time is
a number of ticks, `PerSecond` of which are a second, and a duration is in whole seconds:
`Elapsed` drops the fraction, toward zero, as `int()` does. A retroactive item started
less than a second before it was opened has therefore a time to start of 0, and the two
parts of a duration may add up to a second less than the whole: `MetricsAreSound` says
just that. (The rounding of `total_seconds()` itself, over centuries, is left out.)

`WorkItemRecord` makes the documents: `OperatorTransition` and
`AddLifecycleComment` are the two tools as they write comments (one moves, then renders;
the other renders and moves nothing), `MoveItem` a state change of another origin,
`FilePapers` the rest of the document. What is validated is the comments that were
posted, the state the item is in, and those papers. The operator's tool moves by the
ids of states and renders the names its caller gives: nothing ties the two states a
comment names to the move it goes with. The tools' writes succeed here; what
becomes of them otherwise is `OperatorLifecycle`'s subject.

`Continues` is a bound of the model: once the comments cannot pass any more the record
is not continued. It hides no document that passes, because no later comment repairs a
sequence that fails `CommentsPass`. A comment may name a unit the item does not have
(`Named`): only its wave is looked up (759-764), and `Finished` then has work on such a
unit as well. A comment whose values HTML escapes (`context = "special"`) is one with an
HTML body; a Markdown body is looked through as it is.

What the contract allows and forbids, as the model shows it:

* A record that goes to review while a unit has no PROGRESS comment can never pass as
  done (its PROGRESS would come after the review): the exception of `CanStillFinish`.
  There is no rework after a review either; a cancelled unit forbids done; a second
  BLOCKED comment makes the state `blocked` invalid for good, though not the document.
* A wave may be unfinished in a done document, and durations of a document that is not
  done may be negative: `MetricsAreSound` speaks of done ones.
* `render_comment()` escapes a value once, `_body_literal()` and `_code_needle()` look
  for it escaped twice: a body with `&`, `<`, `>` or a quote in such a value, made by
  the renderer, fails the validation of its own document (`BodyRules`).
* The operator's tool takes BLOCKED as in_progress to in_progress, which the renderer
  then refuses, before anything was changed.

## 3. The runs

Deadlock is checked in the runs of the two executors. In the other modules the system
may stop for good in the model: a broker whose snapshot is refused or whose identifiers
are used up, governed writes that have used their bound of sendings, a migration or a
lifecycle whose counters are at their bound, a readback that has ended, a record that is
filed. Their runs say `CHECK_DEADLOCK FALSE`.

| Run | Instance | Shows |
|---|---|---|
| `executor_safety` | 2 executors, 2 transport attempts, 2 authorizations, 4 claims, actions with and without correlation, with or without a version-1 receipt to begin with; 532 thousand states under symmetry | one write per grant, safe resumption, evidence newer than sends, sends on record, verdicts stand on writes, terminal receipts are final, authorizations are not lost |
| `executor_recovery` | 2 executors, 2 attempts, 1 authorization, 3 claims, undecodable responses, fairness; 127 thousand states | the executor implements `GrantedWrites`; every call returns; a receipt left at the send boundary is taken up |
| `broker_safety` | 3 requests, 2 keys, 2 work items, 3 boots, room for 2 requests and 2 tombstones, failing saves, clocks and providers that raise a `BrokerError`, restarts in the same boot; 198 thousand states under symmetry | one call per key, no overlapping writes, calls on disk, restarts, quarantine; the broker implements `ApprovedCalls` |
| `broker_limits` | 3 requests, room for 1 request and 1 tombstone, 2 boots, fairness; 122 thousand states | the limits hold and every started attempt is settled |
| `governed_safety` | 2 processes, one key under which all three flows are called and one for item writes, 2 authorizations, 2 sendings of a write, lagging listings, fairness; 129 thousand states | single comments, single bindings, one writer per key, no lost receipts; every call ends |
| `governed_crash` | the same with 1 authorization | *violated*: an acknowledged item write is repeated after a crash during its readback |
| `migration_safety` | 2 processes, 2 legacy ledgers of any content, 2 keys, 2 mutations, 1 update per receipt, processes configured past the merge; 374 thousand states | nothing lost, history not resent, collisions block |
| `classic_safety` | 2 processes, 4 mutations (one of each kind, and an issue update, which nothing reconciles), 2 reconciliation authorizations; 57 thousand states | one write per key, true verdicts, receipts that only move forward, evidence that fits its receipt |
| `lifecycle_safety` | 2 processes, 2 states, 2 calls of either tool under one key, 2 changes by others; 518 thousand states under symmetry | comments and reports that tell the truth, and the executor's promise for each derived key |
| `readback_pages` | every kind of contract, relation maps among them, 2 targets and another row in any listing, pages of 1 row, at most 3 pages and 3 rows, 2 changes by others; 139 thousand states | absence, presence and absence of evidence are what the readback says they are |
| `record_contract` | 2 units and the name of a third, 1 wave, 39 comments, records of up to 6, 10 sets of papers, times of half seconds; 370 thousand states | done is earned, metrics are sound, every record that passes on the way can be finished |
| `record_admit` | the same comments with states before and after the work, records of up to 2 | *violated*: the operator's tool moves an item and then raises |

Why the bounds are enough.

* Executor: a hazard takes one process that has lost its lease, one that has claimed
  after it, and an uncertain write before the one in question: two executors, two
  grants. Four claims allow: send and die, recover, retry as authorized, recover again;
  and, after a version-1 receipt, which counts as sent, two authorized retries. The
  second shows that evidence for the first does not serve the second. `MaxTries` is 3 in
  the code; 2 have a first, a last and a retry between them. The theorems remove these
  bounds.
* Broker: three requests give a request in doubt, a settled one and a new one; two
  keys and two work items show that they are told apart. The limits are 1024 in the
  code and 2 or 1 here, so that they are met at once. Three boots let a snapshot
  converted once be converted again. The theorems remove these bounds for everything but
  liveness.
* Governed: a race for a receipt is between two processes on one key, where all three
  flows meet; item writes of a second key hold the lock while the others wait for it.
  Two authorizations let a comment be retried. The theorems below remove these bounds
  for everything but liveness.
* Migration: two ledgers are the ones the server names, and a collision needs two.
  The theorems remove all bounds.
* Classic: a slower duplicate and a reconciliation that is overtaken need two
  processes; a second authorization shows what the first one's death leaves. No action
  has a bound. The theorems remove the sizes.
* Lifecycle: one call that dies and one that comes back, by processes of their own or
  by one; two states let the item be moved away and back, within two changes. The
  theorems remove these bounds.
* Readback: a target that is missed takes a page that was read, one that was not, and a
  row that moves between them; a second change can undo the first. Three pages and rows
  meet both budgets. The theorems remove these bounds.
* Record: six comments are a start, work on either unit, an interruption or a second
  PROGRESS, review and finish. The comments have each phase from each state it may
  follow, and one comment for each rule it can break; the papers differ from good ones
  in one place each. With half seconds a duration has a fraction or none, a negative one
  too, and so have the two parts of one: every case of the truncation is met.
  The theorems remove these bounds.

Bounds that are the model's and not the code's: `MaxFence` (claims), `MaxBoot`,
`MaxPosts` (how often one write is sent), `MaxVersion` (updates of a receipt),
`MaxCalls` (calls under a caller's key), `MaxRevision` (changes of the item by others),
`MaxChanges` (changes of a listing while it is read), `MaxComments`, `MaxTime`.
`SendingIsResolved` is conditioned on claims being left, since a model without them
cannot go on.

### Fairness

* Executor: weak fairness of each executor's steps (`Work`), of its next call
  (`Begin`) and of `ExpireLease`. Every request has a timeout, so a process that is
  not dead goes on; a lease is a time; `src/docs/resilient-mutations.md` (lines 136-150)
  tells the caller to wait, or to come back with the same key, as long as the receipt
  is not final.
  Nothing is assumed of the provider, of `Crash` or of the operator.
* Broker: weak fairness of the executing thread and of `Start`: whoever installs the
  broker restarts it. (The repository ships no service unit, only a template that says
  what one needs: this is an assumption about the deployment.) `AttemptsSettle` is
  checked without failing saves and `BrokerError`s of the clock or the provider: with
  them the code leaves an attempt open until the next boot, and nothing says that there
  is one.
* Governed: weak fairness of each process's next step, strong fairness of the two
  steps that wait for the lock after a request (`CommentNote`, `Mark`): the lock is
  free again and again, and the system's `flock` grants it to those who wait. Calls
  that have not begun are under no obligation.

### Findings

Two runs are about a disagreement between the code and what the repository says of it.
Each checks one property, written from the quoted line, and TLC's trace is the shortest
story in which the code breaks it. The quotes are in `PROJECT.json`.

1. `governed_crash` - the id of an item write is not on disk before its readback.
2. `record_admit` - the operator's tool accepts ADMIT and CANCEL (which
   `src/skills/plane-mcp-operations/references/recipes.md:98-103` lists), moves the
   item, and only then renders the comment, which the contract knows nothing of: an
   exception is all that is returned of the move.

Three more were met on the way. Each is a condition or an exception in a property that
holds; no run of its own is spent on it.

1. A write whose acquired response cannot be decoded is not added to
   `uncertain_write_attempts`, and the next authorized send overwrites its boundary
   (`src/docs/resilient-mutations.md:121-122`: "The original ambiguous write diagnostics
   are retained append-only").
   `executor_safety` has no undecodable answers for that reason, and the theorem
   `EverySendIsOnRecord` assumes there are none. `OneWritePerGrant` and the refinement
   hold with them.
2. A request whose deadline passes inside the broker's `execute()` ends as EXPIRED with
   a receipt that says so. `_restore` under a later boot takes away the mapping of every
   expired request (`operator_broker.py:811`) and then accepts a request without one
   only if its receipt says `boot changed` (`:844-849`): after a reboot the broker
   cannot start again. `SnapshotRestarts` names the exception.
3. The merge is repeated at every mutation (`server.py:106`) and takes the progress of a
   migrated receipt for a collision, so that a migrated key that has been updated is
   blocked (`src/README.md:151`: "On first use it merges"). `CollisionsBlock` says what
   is blocked; `NothingLost` holds all the same.

Two more things a reader of the models should know, which no run is spent on.
`rejected_not_applied` is a final status, but after an authorized retry it answers only
the retry: the uncertain write before it may still land, which is why
`SoleRejectionIsAbsence` has its condition. And the broker's retention counts settled
requests only (`operator_broker.py:628`), while the snapshot limit counts those in doubt
as well: one request in doubt and `MAX_PENDING - 1` settled ones refuse every
`prepare()`.

## 4. The proofs

All theorems are for every set of processes, keys, mutations and every value of the
bounds, under the named assumptions in the modules (`NoOne` is no executor, bounds are
naturals, flags are Booleans), which TLC evaluates in the runs.

**NativeExecutorProofs.** `TypeCorrect` (types; the set of requests stays finite,
which the scan's count of rows needs). `AtMostOneWritePerGrant` and
`ResumingDuplicatesNothing` rest on `GrantInv`: *a grant is held by a receipt that may
still send, by one process that is about to send, or by one request that was sent, and
never by two of them.* `OneWritePerGrant` alone is not inductive, because a stale owner
may send at any time: what saves it is that its grant is not held by anybody else, and
that is what the claims preserve (`ConsumeAuthorization` takes a new grant, recovery
takes none that can be sent). Steps that touch no grant are one lemma
(`QuietKeepsGrants`); claims and the three sending steps are treated apart.
`TerminalReceiptsNeverChange` rests on `TerminalIsReleased`: nobody owns a terminal
receipt, so no save passes the check of `Owns`.

The other properties are about what the receipt says, and every step is described for
them once (`StepShape`): a process leaves the receipt alone (`Left`, `Went`), saves it
as its owner (`Saved`, `Ended`), or claims it (`Claimed`). `EvidenceInv` (who may still
send owns a receipt without evidence, and who scans does so for an older boundary) gives
`EvidenceIsNewerThanSends`; `FateInv` (what a process was told of its request is what
became of it) gives `VerdictsStandOnWrites` and `SoleRejectionProvesAbsence`;
`RecordInv` (a request that may have been sent is the boundary or one of the uncertain
writes) gives `EverySendIsOnRecord`, which assumes that there are no undecodable
answers, since with them it is false; `AuthorizationsAreUsed` follows step by step from
`AuthorizationInv` (an authorization waits on a receipt nobody owns).
`PromiseIsImplemented` is the refinement of `GrantedWrites`, with undecodable answers:
grants, fates and the status move by one abstract step or none (`AbstractStep`), for
which `GrantInv` says that the grant is unused, `FateInv` what became of the request,
and `StatusInv` at which step which status can stand. `StatusIsHonest` follows without
another look at the executor: `Honest` is an invariant of the promise
(`PromiseIsHonest`), so of what implements it.

`ReceiptsCanBeTaken` says that no receipt is stuck: the next call can claim whatever is
not terminal. It needs that authorizations are issued and consumed one after the other
(`ConsumedInOrder`), so that an authorized receipt has exactly one unused.

Two theorems are about numbers. `WritesAreCounted`: rows applied, requests sent and
authorizations consumed bound one another (`landed <= sent <= 1 + consumed`, `consumed
<= issued`), because grants map requests one to one (`RequestsFitGrants`).
`CallsAreBounded` is the safety half of `CallReturns`: `StepsLeft` goes down with every
step a call takes, and with nobody else's, from at most `9 + 2 * MaxTries`. What remains
of the liveness property is that the step is taken, which is the fairness of `FairSpec`.

**OperatorBrokerProofs.** All safety properties of both runs. The invariant says three
things (`BrokerInvariant`): memory and snapshot are each *in order* under the boot they
belong to (`Orderly`: the relations `_restore` demands, and the limits); each *knows*
every call that was made (`Knows`: the request is started or settled, or its key has a
tombstone); and a thread at work has its attempt in both. That a snapshot can be
restored is not inductive alone, because an operation's input is the memory, which a
failed save leaves ahead of the snapshot: both have to be in order, and each operation
has to keep that. The proof therefore speaks of collections as constants first -
removing requests (`RemovalKeepsOrder`), adding one (`AdditionKeepsOrder`), moving one
on (`ConfirmKeepsOrder`, `StartKeepsOrder`, `SettlementKeepsOrder`) and converting all
of them for a new boot (`RestartKeepsOrder`) - and then of each action.
`KeysAreCalledOnce`, `WritesNeverOverlap`, `CallsAreApproved`, `CallsAreOnDisk`,
`SnapshotsRestart` and `TypesHold` follow from the invariant; `QuarantineLasts` goes
over the steps. `PromiseIsKept` is the refinement of `ApprovedCalls`. It needs one more
invariant, `DoubtsAreSaved` (*no call is cleared on disk before it is in memory*),
because a later save of anything else writes the whole memory and with it what an
earlier failed save left out; that such steps only clear calls is `OnlyClears`. That the
target of a new call is in nobody's doubt follows from the order of the snapshot alone:
the new attempt is stored as started, and a started one shares its target with no other
request in doubt. `CallsAreExclusive` is proved of the promise alone (an approval and a
key serve one call, a work item has one call in doubt) and carried over by the
refinement. `ReceiptsAreFinal` says that a stored request only moves on: no save takes
back a confirmation, reopens an attempt, replaces a settled result or rebinds a request.
A save writes all of memory, so the argument needs that memory is never behind the
snapshot (`MemoryIsAhead`). `AttemptsHaveThreads` is the safety half of `AttemptsSettle`:
an open attempt has its thread, if no save raises, neither the clock nor the provider
raises a `BrokerError` and no boot identity serves twice. Those three are
hypotheses on the constants because each of them does leave an attempt without a thread;
the run `broker_limits` excludes them too.

**GovernedMutationsProofs.** `GovernedTypeCorrect` says which steps hold the lock and a
copy. `GovernedInvariant` is the inductive invariant: *the copy of the lock's holder is
the file, plus at most its own receipt for a key that was free* (`HeldCopies`); *a
process that is about to post a comment, or has, has its reservation on disk, and
nobody else works under it* (`Reservations`, `OneReserver`); *a call past its first
section has a receipt of its mutation on disk* (`CallsAreNamed`); *what the histories
record is on disk* (`HistorySaved`). The argument goes over one fact about every
process step (`FileSteps`): a step leaves each key's receipt as it is, fills a free one,
or completes the receipt of its own call. From it: `CommentsArePostedOnce`,
`AuthorizationsServeOnce`, `WritersAreAlone`, `ReceiptsAreKept`,
`AckedBindsAreNotRepeated`. `OnlyADeathRepeatsItems` delimits the finding on item writes:
in a behaviour in which no process dies between the answer to its item write and
leaving the lock (`DiesUnsaved`), an answered item write is never sent again. Every
other death, lagging listing and retry stays allowed in it. `CallsAreBounded` is the
safety half of `CallsEnd`: a call has at most six steps, and a process that waits for
the lock does not hold it.

**LedgerMigrationProofs.** `MergeIsIdempotent` (merging twice is merging once, for any
ledger and any sources), `NothingIsLost`, and `MigrationInvariant` with
`HistoryIsKept` and `CollisionsAreBlocked`. The strengthening says that a process about
to merge holds what the legacy ledgers hold (`LoadsAreCurrent`) and that what was merged
is in the canonical ledger (`HistoryAbsorbed`); both under the condition that the legacy
ledgers rest and every process merges (`~moved`), without which they are false.

**ClassicExecutorProofs.** All five properties of the run. `ClassicInvariant` is the
inductive invariant: *while a process has the write in hand the receipt is its
`attempt_started`, and nobody else has it* (`OneSender`, `OneWrite`); *what it has
learnt is so* (`SenderKnows`, `VerdictsAreTrue`); *who reads an effect again does so for
an acknowledged receipt of its mutation* (`ProvingIsAcknowledged`); *a reconciliation
holds an authorization that is its own and unused, and observed what its kind observes*
(`AuthorizationsAreOwn`, `ReconcilersObserve`). `OneWritePerKey` alone is not inductive:
that a second process cannot come to `send` needs the receipt, which needs the one
sender. `ReceiptsMove` and `EvidenceFits` follow step by step, the latter from
`ProvingIsAcknowledged` and the comparison of the whole receipt: evidence of absence was
gathered for a receipt of unknown outcome, so it is appended to one.

**OperatorLifecycleProofs.** Each step is described once, by what it does to its process
(`Ended`, `Went`, `Turned`) and to the receipt it works on (`Wrote`, `Claimed`), and the
invariant is preserved by each description: `BystandersAreKept` says that a process that
does not move stays right while receipts only grow (`Grown`), `EveryReceipt` that the
other key is untouched. `LifecycleInvariant` is the inductive invariant: *a call comes
to the comment over the proof of its patch* (`InOrder`), *works on what the receipt is
bound to* (`AtWork`), *one process sends each write, once* (`SentOnce`), *and a receipt
says no more than is so* (`TrueReceipt`). `CommentsTruthful` adds that the comment's
receipt is bound by nobody but a call that has come to it (`CommentIsBound`);
`ReportsTruthful` goes over the reports; `PromiseIsKept` is the refinement of
`GrantedWrites`, for both derived keys: every step is a step of the promise or none for
each key (`KeySteps`). Since the promise
carries the status a caller reads, what the lifecycle notices of an executor is what
`NativeExecutor` was proved to show; a direct refinement between the two is not stated.

**ReadbackPagesProofs.** `AbsenceHolds`, `MissingHolds` and `PresenceHolds` over the
invariant `PagesInv`: *while the listing is read and nothing has shifted, every target
that was listed all the time lies beyond the cursor* (`Ahead`), and *once it is read,
none is left* (`Passed`); what the second scan has found has been listed (`ActiveMet`,
`FoundLater`). An insertion moves unread rows away from the cursor and a removal behind
it leaves the others where they are, so only a removal before the cursor is an
exception.

**WorkItemRecordProofs.** `DoneStandsForWork`, `MetricsHold` and `NoDeadEnd` are facts
about `Valid` that hold of any typed document; the state machine only says which
documents there are. `DoneStandsForWork` goes over the places of the phases: one review,
the finish last, the start first, work before the review, so that nothing fits between
review and finish. `MetricsHold` needs that comments each of which is no earlier than
its predecessor are in order: an induction, which `LeastNatural` (every set of naturals
has a least member) replaces by a least counterexample. It also needs the arithmetic of
whole seconds: that truncation keeps the order (`SecondsInOrder`), and that the fractions
of two durations make at most one more second (`SecondsOfSum`). `NoDeadEnd` proves that a
continuation written down in `Finished` passes: work on each unit after the last comment
(`RestShape`, `RestPhases`), one review, one finish, times after all others
(`GoodPapersPass`), and that what is under review has its review last (`ReviewIsLast`).

Some theorems state more than a run checks now: `AuthorizationsServeOnce`,
`MergeIsIdempotent`, `CallsAreApproved`, `StatusIsHonest`, `WritesAreCounted`,
`ReceiptsCanBeTaken`, `CallsAreExclusive`, `ReceiptsAreFinal`, `AttemptsHaveThreads`, the two
`CallsAreBounded`, `OnlyADeathRepeatsItems`, the type theorems and the inductive
invariants.

Only model-checked: the liveness properties (`CallReturns`, `SendingIsResolved`,
`AttemptsSettle`, `CallsEnd`), since liveness under fairness is beyond the prover: of
the first, the third and the last the safety halves named above are proved; and the two
findings, which are counterexamples.

## 5. What is not modelled, and why

* Registry and manifest: look-ups in generated data that never changes while the server
  runs. The listing of operations is a slice with an offset; a model would repeat it.
* The other tools of the server: they pass their arguments on and keep nothing.
* The item reads of a lifecycle call that fail, and calls refused by their arguments:
  `Die` ends such a call; nothing was written.
* Title icons, issue readiness: text in, text out; a model would repeat the code. The
  rendering of a comment is kept only as far as its escaping decides what passes.
* Transport policy, command line, scripts, generated data: no state.

`PROJECT.json` gives the reason for each and, under `hazards`, what no property covers.

## 6. Plan

Done: every component that keeps state or works over a state others change, theorems
about all of them, the two refinements of `GrantedWrites` and that of `ApprovedCalls`.
What could follow:

1. Liveness of the lifecycle and of the classic executor: every call returns when
   processes run; an attempt of unknown outcome stays so unless its sender answers; and
   the safety halves of both, as for the other executors.
2. Records whose comments' writes fail: `WorkItemRecord` over `OperatorLifecycle`.
