-------------------------- MODULE OperatorLifecycle --------------------------
(***************************************************************************)
(* The two lifecycle tools of src/src/plane_mcp_karval/server.py, called   *)
(* under one idempotency key for one work item: check the state and        *)
(* revision the caller expects, patch the state, add a comment and, for    *)
(* the operator's tool, read the state again.  Nothing makes the sequence  *)
(* atomic: the item is moved by others at any moment, a call dies between  *)
(* any two steps, and a caller comes back under the same key.              *)
(*                                                                         *)
(* The two writes go to the durable executor under the keys derived from   *)
(* the caller's.  It is reduced here to what a tool can notice of it: who  *)
(* has claimed a receipt, what it is bound to, and how far its one write   *)
(* is known to have come.  NativeExecutor is the executor itself;          *)
(* KeepsThePromise ties both to GrantedWrites.                             *)
(*                                                                         *)
(* Checks of arguments and approvals, made before anything is read, are    *)
(* taken as passed.                                                        *)
(***************************************************************************)
EXTENDS Naturals

CONSTANTS
    Processes,      \* server processes that share the ledger
    States,         \* states of the project
    None,           \* no such argument, no call, no owner
    MaxCalls,       \* bound: calls made under the key
    MaxRevision     \* bound: changes of the item by others

Keys == {"state", "comment"}

ASSUME BoundsAssumption == MaxCalls \in Nat /\ MaxRevision \in Nat

VARIABLES
    item,           \* the work item at the provider: state and revision
    wire,           \* writes on their way to the provider
    landed,         \* writes the provider has applied
    writes,         \* the receipt of each derived key
    pc,             \* the step each process takes next
    call,           \* the call each process works on
    said,           \* the report this step returned, if any
    issued,         \* operator receipts issued so far (issued_at)
    posts           \* history: how often each write was sent

vars == <<item, wire, landed, writes, pc, call, said, issued, posts>>
provider == <<item, wire, landed>>

-----------------------------------------------------------------------------
(* Types.                                                                  *)

\* A comment of the simple tool is the same text in every call.  One of the
\* operator's tool carries the fingerprint of a receipt that includes the time
\* it was issued at: no two calls post the same.
Comment ==
    [serial : 0..MaxCalls, from : States \union {None},
     to : States \union {None}]

Call ==
    [tool : {"simple", "operator"}, serial : 0..MaxCalls,
     expected : States \union {None}, revision : Nat \union {None},
     target : States \union {None}, comment : BOOLEAN,
     key : Keys]
ASSUME NoneAssumption == None \notin Call \union Comment \union States \union Processes

\* sending: claimed, and the write may be out; unsent: proved not to have left;
\* applied: acknowledged, its effect not proved.
Write ==
    [status : {"free", "unsent", "sending", "unknown", "applied", "rejected",
               "verified"},
     body : States \union Comment \union {None},
     owner : Processes \union {None}]

\* What a report claims of the item: that the patch was applied, that the state
\* was read back, that the comment was.
Report ==
    [status : {"precondition_failed", "state_ambiguous", "comment_pending",
               "final_state_readback_failed", "verified"},
     of : Call, applied : BOOLEAN, state : BOOLEAN, comment : BOOLEAN]

Steps == {"idle", "read", "ask", "send", "answer", "scan", "prove", "final"}

WritesTyped ==
    /\ writes \in [Keys -> Write]
    /\ writes["state"].body \in States \union {None}

TypeOK ==
    /\ WritesTyped
    /\ item \in [state : States, revision : Nat]
    /\ wire \subseteq Keys /\ landed \subseteq Keys
    /\ pc \in [Processes -> Steps]
    /\ call \in [Processes -> Call \union {None}]
    /\ said \in Report \union {None}
    /\ issued \in 0..MaxCalls
    /\ posts \in [Keys -> Nat]
    /\ \A p \in Processes : call[p] = None <=> pc[p] = "idle"

Unclaimed == [status |-> "free", body |-> None, owner |-> None]

Init ==
    /\ item \in [state : States, revision : {0}]
    /\ wire = {} /\ landed = {}
    /\ writes = [k \in Keys |-> Unclaimed]
    /\ pc = [p \in Processes |-> "idle"]
    /\ call = [p \in Processes |-> None]
    /\ said = None
    /\ issued = 0
    /\ posts = [k \in Keys |-> 0]

-----------------------------------------------------------------------------
(* Helpers.                                                                *)

Goto(p, step) == pc' = [pc EXCEPT ![p] = step]

\* An event that leaves the state alone.
Annotation(c) == c.tool = "operator" /\ c.expected = c.target

Patches(c) == c.target # None /\ ~Annotation(c)

\* What the call asks the executor to write under its present key.
Body(c) ==
    IF c.key = "state" THEN c.target
    ELSE IF c.tool = "simple" THEN [serial |-> 0, from |-> None, to |-> None]
    ELSE [serial |-> c.serial, from |-> c.expected, to |-> c.target]

Mine(p) == writes[call[p].key]

\* Mutants (here and below, named ...Mutant) are the plausible bugs each
\* property must catch; nothing but those checks uses them.
LeaseIgnoredMutant(p) == TRUE

Owns(p) == Mine(p).owner = p

SetStatus(p, status, owner) ==
    writes' = [writes EXCEPT ![call[p].key] =
        [@ EXCEPT !.status = status, !.owner = owner]]

\* The end of a call, with what it says.
Say(p, status, applied, state, comment) ==
    /\ Goto(p, "idle")
    /\ said' =
        [status |-> status, of |-> call[p], applied |-> applied,
         state |-> state, comment |-> comment]
    /\ call' = [call EXCEPT ![p] = None]

\* The executor's receipt is not proof of the effect: say so and stop.
ReportPartial(p, applied) ==
    LET c == call[p] IN
    IF c.key = "state"
    THEN Say(p, "state_ambiguous", applied, FALSE, FALSE)
    ELSE Say(p, "comment_pending", Patches(c),
             Patches(c) \/ c.tool = "operator", FALSE)

\* The receipt is proof: from the patch to the comment if there is to be one,
\* from the comment to the last read or the end.
Proceed(p) ==
    LET c == call[p] IN
    \/ /\ c.key = "state" /\ c.comment
       /\ call' = [call EXCEPT ![p].key = "comment"]
       /\ Goto(p, "ask")
       /\ said' = None
    \/ /\ c.key = "state" /\ ~c.comment
       /\ Say(p, "verified", TRUE, TRUE, FALSE)
    \/ /\ c.key = "comment" /\ c.tool = "operator"
       /\ Goto(p, "final")
       /\ said' = None /\ UNCHANGED call
    \/ /\ c.key = "comment" /\ c.tool = "simple"
       /\ Say(p, "verified", Patches(c), Patches(c), TRUE)

-----------------------------------------------------------------------------
(* The tools.                                                              *)

Accept(p, c) ==
    /\ pc[p] = "idle" /\ issued < MaxCalls
    /\ call' = [call EXCEPT ![p] = c]
    /\ said' = None
    /\ issued' = issued + 1
    /\ Goto(p, "read")
    /\ UNCHANGED <<provider, writes, posts>>

\* The operator's caller names the state and revision it has just seen.
BeginOperator(p, target) ==
    Accept(p, [tool |-> "operator", serial |-> issued + 1,
               expected |-> item.state, revision |-> item.revision,
               target |-> target, comment |-> TRUE, key |-> "state"])

\* The simple tool asks for a state, a comment or both, and need not be told
\* what to expect.
BeginSimple(p, target, comment, careful) ==
    /\ target # None \/ comment
    /\ Accept(p, [tool |-> "simple", serial |-> issued + 1,
                  expected |-> IF careful THEN item.state ELSE None,
                  revision |-> IF careful THEN item.revision ELSE None,
                  target |-> target, comment |-> comment, key |-> "state"])

Expected(c) ==
    /\ c.expected \in {None, item.state}
    /\ c.revision \in {None, item.revision}

\* The read before the write; the provider has no conditional write.
PreRead(p) ==
    /\ pc[p] = "read"
    /\ IF Expected(call[p])
       THEN /\ call' = [call EXCEPT ![p].key =
                IF Patches(call[p]) THEN "state" ELSE "comment"]
            /\ Goto(p, "ask")
            /\ said' = None
       ELSE Say(p, "precondition_failed", FALSE, FALSE, FALSE)
    /\ UNCHANGED <<provider, writes, issued, posts>>

\* The operator's tool looks where the item is after all.
FinalRead(p) ==
    /\ pc[p] = "final"
    /\ LET c == call[p]
           there == item.state = c.target
       IN Say(p, IF there THEN "verified" ELSE "final_state_readback_failed",
                  ~Annotation(c), there, TRUE)
    /\ UNCHANGED <<provider, writes, issued, posts>>

\* The process dies, a read fails, or the call raises.
Die(p) ==
    /\ pc[p] # "idle"
    /\ Goto(p, "idle")
    /\ call' = [call EXCEPT ![p] = None]
    /\ said' = None
    /\ UNCHANGED <<provider, writes, issued, posts>>

-----------------------------------------------------------------------------
(* The executor under a derived key.                                       *)

Settled == {"verified", "rejected"}

UnboundMutant(p) == TRUE

\* A receipt is bound to what it was first asked to write.
Bound(p) == Mine(p).body \in {None, Body(call[p])}

\* A settled receipt, or one at work under another's lease, answers at once.
\* (A receipt bound to another body raises: Die.)
Replay(p) ==
    /\ pc[p] = "ask" /\ Bound(p)
    /\ Mine(p).owner # None \/ Mine(p).status \in Settled
    /\ IF Mine(p).status = "verified" THEN Proceed(p)
       ELSE ReportPartial(p, Mine(p).status = "applied")
    /\ UNCHANGED <<provider, writes, issued, posts>>

Claimable(p) == pc[p] = "ask" /\ Bound(p) /\ Mine(p).owner = None

Claim(p, status, step) ==
    /\ writes' = [writes EXCEPT ![call[p].key] =
        [status |-> status, body |-> Body(call[p]), owner |-> p]]
    /\ Goto(p, step)
    /\ said' = None
    /\ UNCHANGED <<provider, call, issued, posts>>

\* First reservation, or one after a write that provably never left.
ClaimToSend(p) ==
    /\ Claimable(p) /\ Mine(p).status \in {"free", "unsent"}
    /\ Claim(p, "sending", "send")

\* An acknowledged write is read back again.
ClaimToProve(p) ==
    /\ Claimable(p) /\ Mine(p).status = "applied"
    /\ Claim(p, "applied", "prove")

\* A comment of unknown outcome is looked for by its correlation ...
ClaimToScan(p) ==
    /\ Claimable(p) /\ call[p].key = "comment"
    /\ Mine(p).status \in {"sending", "unknown"}
    /\ Claim(p, "unknown", "scan")

\* ... a patch carries none and stays unknown.
LeaveUnknown(p) ==
    /\ Claimable(p) /\ call[p].key = "state"
    /\ Mine(p).status \in {"sending", "unknown"}
    /\ SetStatus(p, "unknown", None)
    /\ ReportPartial(p, FALSE)
    /\ UNCHANGED <<provider, issued, posts>>

\* A save after the request; the lease may be another's by now.
Save(p, status, owner) ==
    IF Owns(p) THEN SetStatus(p, status, owner) ELSE UNCHANGED writes

\* The request leaves; the marker before it was saved with the claim.
Send(p) ==
    /\ pc[p] = "send"
    /\ posts' = [posts EXCEPT ![call[p].key] = @ + 1]
    /\ wire' = wire \union {call[p].key}
    /\ Goto(p, "answer")
    /\ said' = None
    /\ UNCHANGED <<item, landed, writes, call, issued>>

NotSent(p) ==
    /\ pc[p] = "send"
    /\ Save(p, "unsent", None)
    /\ ReportPartial(p, FALSE)
    /\ UNCHANGED <<provider, issued, posts>>

Answered(p) ==
    /\ pc[p] = "answer" /\ call[p].key \in landed
    /\ Save(p, "applied", p)
    /\ IF Owns(p) THEN Goto(p, "prove") /\ said' = None /\ UNCHANGED call
       ELSE ReportPartial(p, FALSE)
    /\ UNCHANGED <<provider, issued, posts>>

Refused(p) ==
    /\ pc[p] = "answer" /\ call[p].key \notin wire \union landed
    /\ Save(p, "rejected", None)
    /\ ReportPartial(p, FALSE)
    /\ UNCHANGED <<provider, issued, posts>>

OptimisticMutant(p) ==
    /\ pc[p] = "answer"
    /\ Save(p, "unknown", None)
    /\ Proceed(p)
    /\ UNCHANGED <<provider, issued, posts>>

Unanswered(p) ==
    /\ pc[p] = "answer"
    /\ Save(p, "unknown", None)
    /\ ReportPartial(p, FALSE)
    /\ UNCHANGED <<provider, issued, posts>>

\* What the provider shows of the write: the state of the item, the comment.
Shown(p) ==
    IF call[p].key = "state" THEN item.state = call[p].target
    ELSE "comment" \in landed

Prove(p) ==
    /\ pc[p] \in {"prove", "scan"}
    /\ Shown(p) /\ Owns(p)
    /\ SetStatus(p, "verified", None)
    /\ Proceed(p)
    /\ UNCHANGED <<provider, issued, posts>>

\* The read shows nothing or fails, or the lease is lost.
Unproved(p) ==
    /\ pc[p] \in {"prove", "scan"}
    /\ Save(p, Mine(p).status, None)
    /\ ReportPartial(p, pc[p] = "prove")
    /\ UNCHANGED <<provider, issued, posts>>

\* A lease runs out, its owner dead or slow.
Expire(k) ==
    /\ writes[k].owner # None
    /\ writes' = [writes EXCEPT ![k].owner = None]
    /\ said' = None
    /\ UNCHANGED <<provider, pc, call, issued, posts>>

-----------------------------------------------------------------------------
(* The provider and the other people who work on the item.                 *)

Moved(state) == [state |-> state, revision |-> item.revision + 1]

Land(k) ==
    /\ k \in wire
    /\ wire' = wire \ {k}
    /\ landed' = landed \union {k}
    /\ item' = IF k = "state" THEN Moved(writes[k].body) ELSE item
    /\ said' = None
    /\ UNCHANGED <<writes, pc, call, issued, posts>>

Refuse(k) ==
    /\ k \in wire
    /\ wire' = wire \ {k}
    /\ said' = None
    /\ UNCHANGED <<item, landed, writes, pc, call, issued, posts>>

Others(state) ==
    /\ item.revision < MaxRevision /\ state # item.state
    /\ item' = Moved(state)
    /\ said' = None
    /\ UNCHANGED <<wire, landed, writes, pc, call, issued, posts>>

-----------------------------------------------------------------------------
Execute(p) ==
    \/ Replay(p)
    \/ ClaimToSend(p) \/ ClaimToProve(p) \/ ClaimToScan(p) \/ LeaveUnknown(p)
    \/ Send(p) \/ NotSent(p) \/ Answered(p) \/ Refused(p) \/ Unanswered(p)
    \/ Prove(p) \/ Unproved(p)

Begin(p) ==
    \/ \E target \in States : BeginOperator(p, target)
    \/ \E target \in States \union {None}, comment, careful \in BOOLEAN :
            BeginSimple(p, target, comment, careful)

Next ==
    \/ \E p \in Processes : Begin(p) \/ PreRead(p) \/ FinalRead(p) \/ Die(p)
                          \/ Execute(p)
    \/ \E k \in Keys : Land(k) \/ Refuse(k) \/ Expire(k)
    \/ \E state \in States : Others(state)

Spec == Init /\ [][Next]_vars

-----------------------------------------------------------------------------
(* The invariant.                                                          *)

Applied(k, body) == k \in landed /\ writes[k].body = body

Verified(k, body) == writes[k].status = "verified" /\ writes[k].body = body

Asking(p, k) == pc[p] \notin {"idle", "read"} /\ call[p].key = k

\* Between a claim that may send and the outcome of the request.
Sending(p, k) == pc[p] \in {"send", "answer"} /\ call[p].key = k

\* A call comes to the comment after the proof of its patch, and to its last
\* read after the proof of its comment.
InOrder(p) ==
    /\ pc[p] # "idle" =>
        /\ call[p].tool = "operator" => call[p].target # None /\ call[p].comment
        /\ call[p].target # None \/ call[p].comment
    /\ Asking(p, "state") => Patches(call[p]) /\ pc[p] \notin {"scan", "final"}
    /\ Asking(p, "comment") =>
        /\ call[p].comment
        /\ Patches(call[p]) => Verified("state", call[p].target)
    /\ pc[p] = "final" =>
        /\ call[p].tool = "operator" /\ call[p].key = "comment"
        /\ Verified("comment", Body(call[p]))

\* Who works on a write works on what its receipt is bound to.
AtWork(p) ==
    pc[p] \in {"send", "answer", "scan", "prove"} =>
        /\ Mine(p).status # "free"
        /\ Mine(p).body = Body(call[p])
        /\ pc[p] = "prove" => call[p].key \in landed

\* A write is sent by one process, once, and unless it was sent the receipt does
\* not say more than that it may have been.
SentOnce(k) ==
    /\ posts[k] \in {0, 1}
    /\ posts[k] = 0 => k \notin wire \union landed
    /\ \A p, q \in Processes : Sending(p, k) /\ Sending(q, k) => p = q
    /\ \A p \in Processes : Sending(p, k) =>
        /\ writes[k].status \in {"sending", "unknown", "verified"}
        /\ posts[k] = IF pc[p] = "send" THEN 0 ELSE 1
    /\ writes[k].status \in {"free", "unsent"} => posts[k] = 0

\* What a receipt says is so.
TrueReceipt(k) ==
    /\ k \notin wire \intersect landed
    /\ writes[k].status \in Settled => writes[k].owner = None
    /\ writes[k].status = "free" <=> writes[k].body = None
    /\ writes[k].status \in {"applied", "verified"} => k \in landed
    /\ writes[k].status = "rejected" =>
        posts[k] = 1 /\ k \notin wire \union landed

LifecycleInv ==
    /\ TypeOK
    /\ \A p \in Processes : InOrder(p) /\ AtWork(p)
    /\ \A k \in Keys : SentOnce(k) /\ TrueReceipt(k)

\* Between a claim and the save that ends it nobody else moves the status.
AtStatus(p, steps, status) == pc[p] \in steps => Mine(p).status = status

StatusInv ==
    \A p \in Processes : pc[p] # "idle" /\ Owns(p) =>
        /\ AtStatus(p, {"send", "answer"}, "sending")
        /\ AtStatus(p, {"prove"}, "applied")
        /\ AtStatus(p, {"scan"}, "unknown")

-----------------------------------------------------------------------------
(* Properties.                                                             *)

\* No lifecycle comment is ever reserved, let alone sent, that tells of a
\* transition which did not happen: whatever process posts it, after whatever
\* retries and under however old a lease, the patch it speaks of was applied
\* before (server.py:539-568).
CommentsTellTheTruth ==
    \A told \in Comment :
        writes["comment"].body = told /\ told.from # told.to
            => Applied("state", told.to)

\* What a report claims was applied was, and as this call asked for it: not a
\* patch to another state, nor a comment of an earlier call under the same key
\* (server.py:441-454, 526-596).
ReportsAreTrue ==
    said # None =>
        LET c == said.of IN
        /\ said.applied => Applied("state", c.target)
        /\ said.state /\ Patches(c) => writes["state"].status = "verified"
        /\ said.comment =>
            Applied("comment", Body([c EXCEPT !.key = "comment"]))

\* Each derived key sends one write at most, whoever calls how often under the
\* caller's key, and its receipt tells no more than is true of that write: the
\* promise NativeExecutor was shown to keep, without an operator's authorization
\* (server.py:133-137, 432-459, 554-592 over resilience.py:184-463).
FateOf(k) ==
    IF posts[k] = 0 THEN "unused"
    ELSE IF posts[k] > 1 THEN "repeated"
    ELSE IF k \in landed THEN "landed"
    ELSE IF k \in wire THEN "out" ELSE "refused"

StateWrite == INSTANCE GrantedWrites
    WITH Grants <- {0}, granted <- {0}, current <- 0,
         fate <- [g \in {0} |-> FateOf("state")],
         status <- writes["state"].status

CommentWrite == INSTANCE GrantedWrites
    WITH Grants <- {0}, granted <- {0}, current <- 0,
         fate <- [g \in {0} |-> FateOf("comment")],
         status <- writes["comment"].status

KeepsThePromise == StateWrite!GSpec /\ CommentWrite!GSpec
=============================================================================
