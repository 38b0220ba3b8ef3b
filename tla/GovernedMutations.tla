------------------------- MODULE GovernedMutations -------------------------
(***************************************************************************)
(* The governed mutations of src/src/plane_api/client.py: work item create *)
(* and update, work item comment and module binding, as several processes  *)
(* run them over one ledger file.                                          *)
(*                                                                         *)
(* The three flows protect a key in three different ways.  An item write   *)
(* keeps the ledger locked through the write and its readback.  A binding  *)
(* keeps it locked through a look at the provider and the write, and       *)
(* flushes the receipt.  A comment only reserves its key under the lock.   *)
(*                                                                         *)
(* What a process changes under the lock stays in its own copy until the   *)
(* copy is persisted.  A process may die at any step: the system then      *)
(* drops its lock and its copy.  Sections without a provider call in them  *)
(* are one atomic step.  A mutation stands for the call's action, target   *)
(* and payload, which its fingerprint covers.  Checks of arguments and of  *)
(* the authorization's binding, which come before any state is read, are   *)
(* taken as passed.                                                        *)
(***************************************************************************)
EXTENDS Naturals, FiniteSets

CONSTANTS
    Processes,      \* processes that share the ledger file
    Keys,           \* idempotency keys
    Mutations,      \* mutations callers ask for
    KindOf,         \* the flow each mutation takes
    Requests,       \* the calls that are made, each any number of times
    Auths,          \* authorization ids of comment calls
    None,           \* nothing: no process, receipt or authorization
    MaxPosts,       \* model bound on the sendings of one write
    StaleListings   \* TRUE: a module listing may miss a binding

Kinds == {"item", "comment", "bind"}

ASSUME NoneAssumption == None \notin Processes
ASSUME KindAssumption == KindOf \in [Mutations -> Kinds]
ASSUME GovernedBounds ==
    /\ MaxPosts \in Nat \ {0}
    /\ StaleListings \in BOOLEAN

VARIABLES
    disk,       \* the ledger file: receipts and consumed authorizations
    copy,       \* the ledger as the lock's holder has changed it
    lock,       \* the process that holds the ledger lock
    pc,         \* the step each process takes next
    call,       \* the call each process is in
    flying,     \* writes the provider may still apply
    applied,    \* mutations the provider has applied
    posts,      \* history: how often each write was sent
    acked,      \* history: writes whose answer a process received
    admitted    \* history: calls each authorization let through

vars == <<disk, copy, lock, pc, call, flying, applied, posts, acked, admitted>>
history == <<posts, acked, admitted>>
provider == <<flying, applied>>

-----------------------------------------------------------------------------
(* Types.                                                                  *)

\* status is "saved" in the receipts of item writes, which carry none.
Receipt ==
    [mutation : Mutations, id : BOOLEAN,
     status : {"saved", "attempt_started", "applied_pending_readback",
               "provider_existing_verified", "verified"}]
NoReceipt == [status |-> "none"]
Ledger ==
    [receipts : [Keys -> Receipt \union {NoReceipt}], auths : SUBSET Auths]
Call == [key : Keys, mutation : Mutations]
NoCall == None
ASSUME RequestAssumption == Requests \subseteq Call
ASSUME NothingAssumption == None \notin Call \union Ledger
Writes == Keys \X Mutations

Steps == {"idle", "look", "post", "answer", "note", "leave", "check", "readback",
          "mark", "reread"}
StepsOf(kind) ==
    CASE kind = "item" -> {"post", "answer", "readback", "reread"}
      [] kind = "bind" -> {"look", "post", "answer", "leave", "check", "mark"}
      [] kind = "comment" ->
            {"post", "answer", "note", "readback", "mark", "reread"}

\* The process is in a call of this kind.
Runs(p, kind) == call[p] # NoCall /\ KindOf[call[p].mutation] = kind

\* The steps a process takes inside the ledger lock, by the flow it is in.
Locked(p) ==
    \/ Runs(p, "item")
    \/ Runs(p, "bind") /\ pc[p] \in {"look", "post", "answer", "leave"}

TypeOK ==
    /\ disk \in Ledger
    /\ copy \in [Processes -> Ledger \union {None}]
    /\ lock \in Processes \union {None}
    /\ pc \in [Processes -> Steps]
    /\ call \in [Processes -> Call \union {NoCall}]
    /\ flying \subseteq Writes
    /\ applied \subseteq Mutations
    /\ posts \in [Writes -> Nat]
    /\ acked \subseteq Writes
    /\ admitted \in [Auths -> Nat]
    /\ \A p \in Processes :
        /\ Locked(p) <=> lock = p
        /\ copy[p] # None <=> lock = p
        /\ pc[p] = "idle" <=> call[p] = NoCall
        /\ call[p] # NoCall => pc[p] \in StepsOf(KindOf[call[p].mutation])

Init ==
    /\ disk = [receipts |-> [k \in Keys |-> NoReceipt], auths |-> {}]
    /\ copy = [p \in Processes |-> None]
    /\ lock = None
    /\ pc = [p \in Processes |-> "idle"]
    /\ call = [p \in Processes |-> NoCall]
    /\ flying = {} /\ applied = {} /\ acked = {}
    /\ posts = [w \in Writes |-> 0]
    /\ admitted = [a \in Auths |-> 0]

-----------------------------------------------------------------------------
(* The ledger.                                                             *)

Goto(p, step) == pc' = [pc EXCEPT ![p] = step]

Return(p) == Goto(p, "idle") /\ call' = [call EXCEPT ![p] = NoCall]

Record(ledger, k, receipt) == [ledger EXCEPT !.receipts[k] = receipt]

\* Receipts of a write whose object is known and of a write about to be sent.
Found(c, status) == [mutation |-> c.mutation, id |-> TRUE, status |-> status]
Started(c) ==
    [mutation |-> c.mutation, id |-> FALSE, status |-> "attempt_started"]

\* A post-I/O transition changes only the reservation the process made.
Cas(ledger, c, status) ==
    IF /\ ledger.receipts[c.key] # NoReceipt
       /\ ledger.receipts[c.key].mutation = c.mutation
    THEN Record(ledger, c.key, Found(c, status))
    ELSE ledger

\* Mutants (here and below, named ...Mutant) are the plausible bugs each property
\* must catch; nothing but those checks uses them.
UnlockedMutant(p) ==
    /\ lock' = p
    /\ copy' = [copy EXCEPT ![p] = disk]

\* Enter the lock to stay in it: the file is read into the process's copy.
Enter(p) ==
    /\ lock = None
    /\ lock' = p
    /\ copy' = [copy EXCEPT ![p] = disk]

\* Leave the lock, normally or by an exception: the copy is persisted.
LeaveUnchanged(p) ==
    /\ disk' = copy[p]
    /\ lock' = None
    /\ copy' = [copy EXCEPT ![p] = None]

LeaveWith(p, receipt) ==
    /\ disk' = Record(copy[p], call[p].key, receipt)
    /\ lock' = None
    /\ copy' = [copy EXCEPT ![p] = None]

-----------------------------------------------------------------------------
(* A write and its answer, the same in the three flows.                    *)

Write(p) == <<call[p].key, call[p].mutation>>

\* A bound of the model: no call sends a write more than MaxPosts times.
MayPost(c) == posts[<<c.key, c.mutation>>] < MaxPosts

Post(p) ==
    /\ pc[p] = "post"
    /\ posts' = [posts EXCEPT ![Write(p)] = @ + 1]
    /\ flying' = flying \union {Write(p)}
    /\ Goto(p, "answer")
    /\ UNCHANGED <<disk, copy, lock, call, applied, acked, admitted>>

\* The provider applies a write, at once or long after its sender gave up.
Land(w) ==
    /\ w \in flying
    /\ flying' = flying \ {w}
    /\ applied' = applied \union {w[2]}
    /\ UNCHANGED <<disk, copy, lock, pc, call, history>>

Answered(p) ==
    /\ pc[p] = "answer"
    /\ Write(p) \notin flying
    /\ acked' = acked \union {Write(p)}
    /\ UNCHANGED <<provider, posts, admitted>>

\* A refusal, a transport error or an answer without an id: the call ends.
Unanswered(p) ==
    /\ pc[p] = "answer"
    /\ IF Locked(p) THEN LeaveUnchanged(p) ELSE UNCHANGED <<disk, copy, lock>>
    /\ Return(p)
    /\ UNCHANGED <<provider, history>>

-----------------------------------------------------------------------------
(* Item writes: governed_create_work_item and governed_update_work_item.   *)

ItemEnter(p, c) ==
    /\ pc[p] = "idle" /\ KindOf[c.mutation] = "item"
    /\ Enter(p)
    /\ call' = [call EXCEPT ![p] = c]
    /\ \/ disk.receipts[c.key] = NoReceipt /\ MayPost(c) /\ Goto(p, "post")
       \/ /\ disk.receipts[c.key] # NoReceipt
          /\ disk.receipts[c.key].mutation = c.mutation
          /\ Goto(p, "reread")
    /\ UNCHANGED <<disk, provider, history>>

\* The receipt is put into the copy before the readback.
ItemAcked(p) ==
    /\ Runs(p, "item") /\ Answered(p)
    /\ copy' = [copy EXCEPT ![p] = Record(@, call[p].key,
            Found(call[p], "saved"))]
    /\ Goto(p, "readback")
    /\ UNCHANGED <<disk, lock, call>>

\* The readback agrees, disagrees or fails: each way the section is left.
ItemReadback(p) ==
    /\ Runs(p, "item") /\ pc[p] \in {"readback", "reread"}
    /\ LeaveUnchanged(p)
    /\ Return(p)
    /\ UNCHANGED <<provider, history>>

-----------------------------------------------------------------------------
(* Module bindings: governed_bind_work_item_module.                        *)

BindEnter(p, c) ==
    /\ pc[p] = "idle" /\ KindOf[c.mutation] = "bind"
    /\ call' = [call EXCEPT ![p] = c]
    /\ \/ /\ disk.receipts[c.key] = NoReceipt /\ MayPost(c)
          /\ Enter(p)
          /\ Goto(p, "look")
       \/ /\ lock = None
          /\ disk.receipts[c.key] # NoReceipt
          /\ disk.receipts[c.key].mutation = c.mutation
          /\ Goto(p, "check")
          /\ UNCHANGED <<copy, lock>>
    /\ UNCHANGED <<disk, provider, history>>

\* What binding_exists() may return.
Listed(m) ==
    IF m \notin applied THEN {FALSE}
    ELSE IF StaleListings THEN BOOLEAN ELSE {TRUE}

BindLook(p) ==
    /\ pc[p] = "look"
    /\ \/ /\ FALSE \in Listed(call[p].mutation)
          /\ Goto(p, "post")
          /\ UNCHANGED <<disk, copy, lock, call>>
       \/ /\ TRUE \in Listed(call[p].mutation)
          /\ LeaveWith(p, Found(call[p], "provider_existing_verified"))
          /\ Return(p)
       \/ LeaveUnchanged(p) /\ Return(p)
    /\ UNCHANGED <<provider, history>>

UnflushedMutant(p) ==
    /\ Runs(p, "bind") /\ Answered(p)
    /\ copy' = [copy EXCEPT ![p] = Record(@, call[p].key,
            Found(call[p], "applied_pending_readback"))]
    /\ Goto(p, "leave")
    /\ UNCHANGED <<disk, lock, call>>

\* The receipt is flushed while the lock is still held.
BindAcked(p) ==
    /\ Runs(p, "bind") /\ Answered(p)
    /\ copy' = [copy EXCEPT ![p] = Record(@, call[p].key,
            Found(call[p], "applied_pending_readback"))]
    /\ disk' = copy'[p]
    /\ Goto(p, "leave")
    /\ UNCHANGED <<lock, call>>

BindLeave(p) ==
    /\ pc[p] = "leave"
    /\ LeaveUnchanged(p)
    /\ Goto(p, "check")
    /\ UNCHANGED <<call, provider, history>>

BindCheck(p) ==
    /\ pc[p] = "check"
    /\ \/ /\ TRUE \in Listed(call[p].mutation)
          /\ Goto(p, "mark")
          /\ UNCHANGED call
       \/ Return(p)
    /\ UNCHANGED <<disk, copy, lock, provider, history>>

-----------------------------------------------------------------------------
(* Comments: governed_add_work_item_comment.                               *)

Consumed(a) == [disk EXCEPT !.auths = @ \union {a}]

UnreservedMutant(ledger, c) == ledger
Reserved(ledger, c) == Record(ledger, c.key, Started(c))

\* One section consumes the authorization, whatever becomes of the call, and
\* reserves the key.  A key whose receipt has no comment id is not tried again.
CommentAdmit(p, c, a) ==
    /\ pc[p] = "idle" /\ KindOf[c.mutation] = "comment"
    /\ lock = None
    /\ a \notin disk.auths
    /\ admitted' = [admitted EXCEPT ![a] = @ + 1]
    /\ LET prior == disk.receipts[c.key]
       IN \/ /\ prior = NoReceipt /\ MayPost(c)
             /\ disk' = Reserved(Consumed(a), c)
             /\ call' = [call EXCEPT ![p] = c]
             /\ Goto(p, "post")
          \/ /\ prior # NoReceipt
             /\ disk' = Consumed(a)
             /\ IF prior.mutation = c.mutation /\ prior.id
                THEN call' = [call EXCEPT ![p] = c] /\ Goto(p, "reread")
                ELSE UNCHANGED <<call, pc>>
    /\ UNCHANGED <<copy, lock, provider, posts, acked>>

CommentAcked(p) ==
    /\ Runs(p, "comment") /\ Answered(p)
    /\ Goto(p, "note")
    /\ UNCHANGED <<disk, copy, lock, call>>

CommentNote(p) ==
    /\ pc[p] = "note" /\ lock = None
    /\ disk' = Cas(disk, call[p], "applied_pending_readback")
    /\ Goto(p, "readback")
    /\ UNCHANGED <<copy, lock, call, provider, history>>

CommentReadback(p) ==
    /\ Runs(p, "comment") /\ pc[p] \in {"readback", "reread"}
    /\ \/ pc[p] = "readback" /\ Goto(p, "mark") /\ UNCHANGED call
       \/ Return(p)
    /\ UNCHANGED <<disk, copy, lock, provider, history>>

-----------------------------------------------------------------------------

\* The last section of a binding and of a comment.
Mark(p) ==
    /\ pc[p] = "mark" /\ lock = None
    /\ disk' = Cas(disk, call[p], "verified")
    /\ Return(p)
    /\ UNCHANGED <<copy, lock, provider, history>>

HeldLockMutant(p) ==
    /\ pc[p] # "idle"
    /\ copy' = [copy EXCEPT ![p] = None]
    /\ Return(p)
    /\ UNCHANGED <<disk, lock, provider, history>>
\* The system releases the lock of a process that dies.
Crash(p) ==
    /\ pc[p] # "idle"
    /\ lock' = IF lock = p THEN None ELSE lock
    /\ copy' = [copy EXCEPT ![p] = None]
    /\ Return(p)
    /\ UNCHANGED <<disk, provider, history>>

Step(p) ==
    \/ Post(p) \/ ItemAcked(p) \/ BindAcked(p) \/ CommentAcked(p)
    \/ Unanswered(p) \/ ItemReadback(p) \/ CommentReadback(p)
    \/ BindLook(p) \/ BindLeave(p) \/ BindCheck(p)
    \/ CommentNote(p) \/ Mark(p)

Next ==
    \/ \E p \in Processes, c \in Requests :
        \/ ItemEnter(p, c)
        \/ BindEnter(p, c)
        \/ \E a \in Auths : CommentAdmit(p, c, a)
    \/ \E p \in Processes : Step(p) \/ Crash(p)
    \/ \E w \in Writes : Land(w)

Spec == Init /\ [][Next]_vars

\* Provider answers arrive, and a process that waits for the lock gets it in turn.
Fairness ==
    \A p \in Processes :
        /\ WF_vars(Step(p))
        /\ SF_vars(CommentNote(p)) /\ SF_vars(Mark(p))
FairSpec == Spec /\ Fairness

-----------------------------------------------------------------------------
(* Safety.                                                                 *)

\* A comment is sent at most once under a key, whatever crashes, lost answers,
\* retries and fresh authorizations there are.
CommentsPostOnce ==
    \A w \in Writes : KindOf[w[2]] = "comment" => posts[w] <= 1

\* Two processes never have writes of one key under way together.
OneWriterPerKey ==
    \A p, q \in {r \in Processes : pc[r] \in {"post", "answer"}} :
        call[p].key = call[q].key => p = q

\* An authorization lets one call through, even one that is then refused.
OneCallPerAuthorization == \A a \in Auths : admitted[a] <= 1

\* No process undoes what another saved: a receipt on disk keeps its mutation
\* and its provider id, and a verified one stays verified.
ReceiptsKeep ==
    [][\A k \in Keys :
        LET old == disk.receipts[k]
            new == disk'.receipts[k]
        IN  old # NoReceipt =>
                /\ new # NoReceipt
                /\ new.mutation = old.mutation
                /\ old.id => new.id
                /\ old.status = "verified" => new.status = "verified"]_vars

\* Once a process has the answer to a binding's write no retry sends it again,
\* even if it dies right then and listings lag.
Repeated(kind) ==
    \E w \in acked : KindOf[w[2]] = kind /\ posts'[w] # posts[w]
AckedBindsNeverRepeat == [][~Repeated("bind")]_vars

\* Why: the copy of the lock's holder is the file, plus at most its own receipt.
HeldCopies ==
    \A p \in Processes : Locked(p) =>
        /\ pc[p] \in {"look", "post", "answer", "readback"} =>
            disk.receipts[call[p].key] = NoReceipt
        /\ copy[p] = IF pc[p] = "readback"
                     THEN Record(disk, call[p].key, Found(call[p], "saved"))
                     ELSE disk

\* A comment is sent under a reservation on disk that is its own.
Reservations ==
    \A p \in Processes : Runs(p, "comment") =>
        /\ pc[p] \in {"post", "answer", "note"} =>
            disk.receipts[call[p].key] = Started(call[p])
        /\ pc[p] = "post" => posts[Write(p)] = 0
OneReserver ==
    \A p, q \in {r \in Processes : Runs(r, "comment") /\ pc[r] # "reread"} :
        call[p].key = call[q].key => p = q

\* Past its first section a call has a receipt of its mutation on disk.
CallsAreNamed ==
    \A p \in Processes : pc[p] \in {"leave", "check", "mark"} \/ Runs(p, "comment") =>
        /\ disk.receipts[call[p].key] # NoReceipt
        /\ disk.receipts[call[p].key].mutation = call[p].mutation

\* What the histories record is on disk.
HistorySaved ==
    /\ \A w \in Writes : KindOf[w[2]] = "comment" /\ posts[w] > 0
            => disk.receipts[w[1]] # NoReceipt
    /\ \A w \in acked : KindOf[w[2]] = "bind" => disk.receipts[w[1]] # NoReceipt
    /\ \A a \in Auths : admitted[a] > 0 => a \in disk.auths

\* The inductive invariant of the proofs.
GovernedInv ==
    /\ TypeOK /\ HeldCopies /\ Reservations /\ OneReserver /\ CallsAreNamed
    /\ HistorySaved
    /\ CommentsPostOnce /\ OneCallPerAuthorization

\* The same of item writes: the code breaks it when the process dies before it
\* leaves the lock.
AckedItemsNeverRepeat == [][~Repeated("item")]_vars

-----------------------------------------------------------------------------
(* Liveness.                                                               *)

\* Every call returns or dies: nobody waits for a lock a dead process held.
CallsEnd == \A p \in Processes : pc[p] # "idle" ~> pc[p] = "idle"
=============================================================================
