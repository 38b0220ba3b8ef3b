-------------------------- MODULE LedgerMigration --------------------------
(***************************************************************************)
(* How the server finds its ledger: _ledger_path() of                      *)
(* src/src/plane_mcp_karval/server.py calls migrate_legacy_ledgers() of    *)
(* src/src/plane_api/client.py before every mutation, and the executors    *)
(* then use the canonical ledger it returns.                               *)
(*                                                                         *)
(* The legacy files are read before the canonical ledger is locked; the    *)
(* merge and every use of the ledger are each one locked section.  A       *)
(* receipt is the mutation it names and a version, since the executors     *)
(* update it.  Only the receipts are modelled of the three sections that   *)
(* are merged alike: no other section's conflicts block anything.          *)
(***************************************************************************)
EXTENDS Naturals

CONSTANTS
    Processes,      \* server processes and tasks
    SourceCount,    \* legacy ledgers, in the order of LEGACY_LEDGERS
    Keys,           \* idempotency keys
    Mutations,      \* mutations callers ask for
    None,           \* nothing: no receipts read, no call
    MaxVersion      \* model bound on the updates of a receipt

ASSUME SourceAssumption == SourceCount \in Nat
ASSUME VersionAssumption == MaxVersion \in Nat

VARIABLES
    source,     \* the receipts of each legacy ledger
    target,     \* the canonical ledger
    pc,         \* where each process is
    loaded,     \* the receipts a process has read from the legacy ledgers
    call,       \* the call a process runs after its reservation
    sent,       \* history: writes sent for the first time
    moved       \* history: a legacy ledger was written to, or passed over

vars == <<source, target, pc, loaded, call, sent, moved>>

-----------------------------------------------------------------------------
(* Types.                                                                  *)

Sources == 1 .. SourceCount
Receipt == [mutation : Mutations, version : 0 .. MaxVersion]
NoReceipt == [version |-> MaxVersion + 1]
Receipts == [Keys -> Receipt \union {NoReceipt}]
Ledger == [receipts : Receipts, conflicts : [Keys -> SUBSET Sources]]
Call == [key : Keys, mutation : Mutations]

TypeOK ==
    /\ source \in [Sources -> Receipts]
    /\ target \in Ledger
    /\ pc \in [Processes -> {"idle", "loaded", "resolved", "running"}]
    /\ loaded \in [Processes -> [Sources -> Receipts] \union {None}]
    /\ call \in [Processes -> Call \union {None}]
    /\ sent \subseteq Call
    /\ moved \in BOOLEAN
    /\ \A p \in Processes :
        /\ pc[p] = "loaded" => loaded[p] \in [Sources -> Receipts]
        /\ pc[p] = "running" => call[p] \in Call

\* The program is installed beside legacy ledgers of any content.
Init ==
    /\ source \in [Sources -> [Keys -> [mutation : Mutations, version : {0}]
                                         \union {NoReceipt}]]
    /\ target = [receipts |-> [k \in Keys |-> NoReceipt],
                 conflicts |-> [k \in Keys |-> {}]]
    /\ pc = [p \in Processes |-> "idle"]
    /\ loaded = [p \in Processes |-> None]
    /\ call = [p \in Processes |-> None]
    /\ sent = {}
    /\ moved = FALSE

-----------------------------------------------------------------------------
(* migrate_legacy_ledgers().                                               *)

Holders(from, k) == {i \in Sources : from[i][k] # NoReceipt}
First(is) == CHOOSE i \in is : \A j \in is : i <= j

\* A key of the canonical ledger keeps its receipt; another one gets the receipt
\* of the first legacy ledger that has it.
MergedReceipt(ledger, from, k) ==
    IF ledger.receipts[k] # NoReceipt \/ Holders(from, k) = {}
    THEN ledger.receipts[k]
    ELSE from[First(Holders(from, k))][k]

\* Mutants (here and below, named ...Mutant) are the plausible bugs each property
\* must catch; nothing but those checks uses them.
OverwritingMutant(ledger, from) ==
    [receipts |-> [k \in Keys |->
        IF Holders(from, k) = {} THEN ledger.receipts[k]
        ELSE from[First(Holders(from, k))][k]],
     conflicts |-> ledger.conflicts]
OldKeysMutant(ledger, from) ==
    [receipts |-> [k \in Keys |-> MergedReceipt(ledger, from, k)],
     conflicts |-> [k \in Keys |-> ledger.conflicts[k] \union
        {i \in Holders(from, k) : /\ ledger.receipts[k] # NoReceipt
                                  /\ from[i][k] # ledger.receipts[k]}]]
FirstSourceMutant(ledger, from) ==
    [ledger EXCEPT !.receipts = [k \in Keys |->
        IF @[k] = NoReceipt THEN from[1][k] ELSE @[k]]]
\* Every legacy ledger that disagrees with the receipt kept is a conflict.
Merged(ledger, from) ==
    [receipts |-> [k \in Keys |-> MergedReceipt(ledger, from, k)],
     conflicts |-> [k \in Keys |-> ledger.conflicts[k] \union
        {i \in Holders(from, k) : from[i][k] # MergedReceipt(ledger, from, k)}]]

\* PLANE_MUTATION_LEDGER: the ledger it names is used as it is.  (One that is not
\* the canonical ledger takes its process out of this model.)
Configured(p) ==
    /\ pc[p] = "idle"
    /\ pc' = [pc EXCEPT ![p] = "resolved"]
    /\ moved' = TRUE
    /\ UNCHANGED <<source, target, loaded, call, sent>>

Load(p) ==
    /\ pc[p] = "idle"
    /\ loaded' = [loaded EXCEPT ![p] = source]
    /\ pc' = [pc EXCEPT ![p] = "loaded"]
    /\ UNCHANGED <<source, target, call, sent, moved>>

Merge(p) ==
    /\ pc[p] = "loaded"
    /\ target' = Merged(target, loaded[p])
    /\ loaded' = [loaded EXCEPT ![p] = None]
    /\ pc' = [pc EXCEPT ![p] = "resolved"]
    /\ UNCHANGED <<source, call, sent, moved>>

-----------------------------------------------------------------------------
(* The executors' use of the canonical ledger: the reservation that precedes *)
(* every provider call, and the update that follows it.                    *)

\* An unused key is reserved and its write is sent.
Reserve(p, c) ==
    /\ pc[p] = "resolved"
    /\ target.conflicts[c.key] = {}
    /\ target.receipts[c.key] = NoReceipt
    /\ target' = [target EXCEPT !.receipts[c.key] =
                    [mutation |-> c.mutation, version |-> 0]]
    /\ sent' = sent \union {c}
    /\ call' = [call EXCEPT ![p] = c]
    /\ pc' = [pc EXCEPT ![p] = "running"]
    /\ UNCHANGED <<source, loaded, moved>>

\* A used key is looked up on the provider again, if its mutation is the same.
Repeat(p, c) ==
    /\ pc[p] = "resolved"
    /\ target.conflicts[c.key] = {}
    /\ target.receipts[c.key] # NoReceipt
    /\ target.receipts[c.key].mutation = c.mutation
    /\ call' = [call EXCEPT ![p] = c]
    /\ pc' = [pc EXCEPT ![p] = "running"]
    /\ UNCHANGED <<source, target, loaded, sent, moved>>

\* _cas_receipt: the outcome goes into the receipt of that mutation.
Update(p) ==
    /\ pc[p] = "running"
    /\ LET k == call[p].key
       IN  /\ target.receipts[k] # NoReceipt
           /\ target.receipts[k].mutation = call[p].mutation
           /\ target.receipts[k].version < MaxVersion
           /\ target' = [target EXCEPT !.receipts[k].version = @ + 1]
    /\ call' = [call EXCEPT ![p] = None]
    /\ pc' = [pc EXCEPT ![p] = "idle"]
    /\ UNCHANGED <<source, loaded, sent, moved>>

\* A refusal, an exception or the death of the process.
Quit(p) ==
    /\ pc[p] # "idle"
    /\ pc' = [pc EXCEPT ![p] = "idle"]
    /\ loaded' = [loaded EXCEPT ![p] = None]
    /\ call' = [call EXCEPT ![p] = None]
    /\ UNCHANGED <<source, target, sent, moved>>

\* The first legacy ledger is also the default of governed_create_work_item and
\* its companions: a caller without a ledger of its own still writes to it.
LegacyWrite(k, r) ==
    /\ SourceCount > 0
    /\ \/ source[1][k] = NoReceipt /\ r.version = 0
       \/ /\ source[1][k] # NoReceipt
          /\ r = [source[1][k] EXCEPT !.version = @ + 1]
    /\ source' = [source EXCEPT ![1][k] = r]
    /\ moved' = TRUE
    /\ UNCHANGED <<target, pc, loaded, call, sent>>

Next ==
    \/ \E p \in Processes :
        Configured(p) \/ Load(p) \/ Merge(p) \/ Update(p) \/ Quit(p)
    \/ \E p \in Processes, c \in Call : Reserve(p, c) \/ Repeat(p, c)
    \/ \E k \in Keys, r \in Receipt : LegacyWrite(k, r)

Spec == Init /\ [][Next]_vars

-----------------------------------------------------------------------------
(* Safety.                                                                 *)

\* Neither a merge nor an executor takes anything back: a receipt keeps its
\* mutation, its version never falls, and a blocked key stays blocked.
NothingLost ==
    [][\A k \in Keys :
        /\ target.receipts[k] # NoReceipt =>
            /\ target'.receipts[k] # NoReceipt
            /\ target'.receipts[k].mutation = target.receipts[k].mutation
            /\ target'.receipts[k].version >= target.receipts[k].version
        /\ target.conflicts[k] \subseteq target'.conflicts[k]]_vars

\* While the legacy ledgers rest and every process merges them, a key one of them
\* records is never sent as new.
HistoryIsNeverResent ==
    ~moved => \A c \in sent : Holders(source, c.key) = {}

\* So long, a key two ledgers record for different mutations is blocked before
\* anything can be done with it.
CollisionsBlock ==
    ~moved => \A p \in Processes : pc[p] \in {"resolved", "running"} =>
        \A k \in Keys : \A i, j \in Holders(source, k) :
            source[i][k].mutation # source[j][k].mutation
                => target.conflicts[k] # {}

\* Why: every file a process has merged is in the canonical ledger, its
\* collisions with it.  (The inductive invariant of the proofs.)
LoadsAreCurrent ==
    ~moved => \A p \in Processes : pc[p] = "loaded" => loaded[p] = source
HistoryAbsorbed ==
    ~moved => \A p \in Processes : pc[p] \in {"resolved", "running"} =>
        \A k \in Keys : Holders(source, k) # {} => target.receipts[k] # NoReceipt
MigrationInv ==
    TypeOK /\ LoadsAreCurrent /\ HistoryAbsorbed /\ HistoryIsNeverResent
    /\ CollisionsBlock
=============================================================================
