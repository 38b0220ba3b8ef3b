----------------------- MODULE LedgerMigrationProofs -----------------------
(***************************************************************************)
(* Theorems about LedgerMigration for every number of processes, legacy    *)
(* ledgers, keys and mutations.                                            *)
(***************************************************************************)
EXTENDS LedgerMigration, WellFoundedInduction, TLAPS

-----------------------------------------------------------------------------
(* The merge.                                                              *)

LEMMA FirstIsMember ==
    ASSUME NEW is, is \subseteq Sources, is # {}
    PROVE  First(is) \in is
<1> DEFINE R == {ss \in Nat \X Nat : ss[1] < ss[2]}
<1>1. is \subseteq Nat
  BY SourceAssumption DEF Sources
<1>2. IsWellFoundedOn(R, Nat)
  BY NatLessThanWellFounded DEF OpToRel
<1>3. PICK i \in is : \A j \in is : <<j, i>> \notin R
  <2> HIDE DEF R
  <2> QED BY <1>1, <1>2, WFMin
<1>4. ASSUME NEW j \in is PROVE i <= j
  <2>1. i \in Nat /\ j \in Nat
    BY <1>1
  <2>2. <<j, i>> \in Nat \X Nat /\ <<j, i>>[1] = j /\ <<j, i>>[2] = i
    BY <2>1
  <2>3. ~ (j < i)
    BY <1>3, <2>2
  <2> QED BY <2>1, <2>3
<1> QED BY <1>3, <1>4 DEF First

LEMMA NoReceiptIsNone == NoReceipt \notin Receipt
BY VersionAssumption DEF NoReceipt, Receipt

LEMMA HolderValue ==
    ASSUME NEW from \in [Sources -> Receipts], NEW k \in Keys,
           NEW i \in Holders(from, k)
    PROVE  from[i][k] \in Receipt
BY DEF Holders, Receipts

\* What the merge keeps for a key: the receipt that was there, or else one a
\* legacy ledger holds, and nothing only if there was none anywhere.
LEMMA MergedReceiptValue ==
    ASSUME NEW ledger \in Ledger, NEW from \in [Sources -> Receipts], NEW k \in Keys
    PROVE  /\ MergedReceipt(ledger, from, k) \in Receipt \union {NoReceipt}
           /\ ledger.receipts[k] # NoReceipt =>
                MergedReceipt(ledger, from, k) = ledger.receipts[k]
           /\ Holders(from, k) # {} => MergedReceipt(ledger, from, k) # NoReceipt
<1>1. CASE ledger.receipts[k] # NoReceipt \/ Holders(from, k) = {}
  BY <1>1 DEF MergedReceipt, Ledger, Receipts
<1>2. CASE ~(ledger.receipts[k] # NoReceipt \/ Holders(from, k) = {})
  <2>1. First(Holders(from, k)) \in Holders(from, k)
    BY <1>2, FirstIsMember DEF Holders
  <2> QED BY <1>2, <2>1, HolderValue, NoReceiptIsNone DEF MergedReceipt
<1> QED BY <1>1, <1>2

LEMMA MergedType ==
    ASSUME NEW ledger \in Ledger, NEW from \in [Sources -> Receipts]
    PROVE  Merged(ledger, from) \in Ledger
<1>1. Merged(ledger, from).receipts \in Receipts
  BY MergedReceiptValue DEF Merged, Receipts
<1>2. Merged(ledger, from).conflicts \in [Keys -> SUBSET Sources]
  BY DEF Merged, Ledger, Holders
<1> QED BY <1>1, <1>2 DEF Merged, Ledger

\* Merging the same legacy ledgers again changes nothing, as the second call of
\* test_existing_native_recovery_and_cooldown_survive_legacy_merge expects.
THEOREM MergeIsIdempotent ==
    ASSUME NEW ledger \in Ledger, NEW from \in [Sources -> Receipts]
    PROVE  Merged(Merged(ledger, from), from) = Merged(ledger, from)
<1> DEFINE once == Merged(ledger, from)
<1>1. once \in Ledger
  BY MergedType
<1>2. ASSUME NEW k \in Keys
      PROVE  MergedReceipt(once, from, k) = MergedReceipt(ledger, from, k)
  <2>1. once.receipts[k] = MergedReceipt(ledger, from, k)
    BY DEF Merged
  <2>2. CASE once.receipts[k] # NoReceipt
    BY <1>1, <2>1, <2>2, MergedReceiptValue
  <2>3. CASE once.receipts[k] = NoReceipt
    <3>1. Holders(from, k) = {}
      BY <2>1, <2>3, MergedReceiptValue
    <3> QED BY <2>1, <3>1 DEF MergedReceipt
  <2> QED BY <2>2, <2>3
<1>3. Merged(once, from).receipts = once.receipts
  BY <1>2 DEF Merged
<1>4. Merged(once, from).conflicts = once.conflicts
  <2>1. ASSUME NEW k \in Keys
        PROVE  Merged(once, from).conflicts[k] = once.conflicts[k]
    BY <1>2 DEF Merged
  <2> QED BY <2>1 DEF Merged
<1> QED BY <1>3, <1>4 DEF Merged

-----------------------------------------------------------------------------
(* Types.                                                                  *)

LEMMA TypeInit == Init => TypeOK
<1> SUFFICES ASSUME Init PROVE TypeOK
  OBVIOUS
<1>1. source \in [Sources -> Receipts]
  <2>1. [Keys -> [mutation : Mutations, version : {0}] \union {NoReceipt}]
            \subseteq Receipts
    BY VersionAssumption DEF Receipts, Receipt
  <2> QED BY <2>1 DEF Init
<1>2. target \in Ledger
  BY DEF Init, Ledger, Receipts
<1> QED BY <1>1, <1>2 DEF Init, TypeOK

LEMMA TypeStep == TypeOK /\ [Next]_vars => TypeOK'
<1> SUFFICES ASSUME TypeOK, [Next]_vars PROVE TypeOK'
  OBVIOUS
<1>1. ASSUME NEW p \in Processes, Load(p) PROVE TypeOK'
  BY <1>1 DEF Load, TypeOK
<1>2. ASSUME NEW p \in Processes, Merge(p) PROVE TypeOK'
  <2>1. target' \in Ledger
    BY <1>2, MergedType DEF Merge, TypeOK
  <2> QED BY <1>2, <2>1 DEF Merge, TypeOK
<1>3. ASSUME NEW p \in Processes, Update(p) PROVE TypeOK'
  <2>1. target' \in Ledger
    <3>1. call[p].key \in Keys
      BY <1>3 DEF Update, TypeOK, Call
    <3>2. target.receipts[call[p].key] \in Receipt
      BY <1>3, <3>1 DEF Update, TypeOK, Ledger, Receipts
    <3>3. [target.receipts[call[p].key] EXCEPT !.version = @ + 1] \in Receipt
      BY <1>3, <3>2, VersionAssumption DEF Update, Receipt
    <3> QED BY <1>3, <3>1, <3>3 DEF Update, TypeOK, Ledger, Receipts
  <2> QED BY <1>3, <2>1 DEF Update, TypeOK
<1>4. ASSUME NEW p \in Processes, Quit(p) PROVE TypeOK'
  BY <1>4 DEF Quit, TypeOK
<1>5. ASSUME NEW p \in Processes, NEW c \in Call, Reserve(p, c) PROVE TypeOK'
  <2>1. target' \in Ledger
    <3>1. [mutation |-> c.mutation, version |-> 0] \in Receipt
      BY VersionAssumption DEF Receipt, Call
    <3> QED BY <1>5, <3>1 DEF Reserve, TypeOK, Ledger, Receipts
  <2> QED BY <1>5, <2>1 DEF Reserve, TypeOK
<1>6. ASSUME NEW p \in Processes, NEW c \in Call, Repeat(p, c) PROVE TypeOK'
  BY <1>6 DEF Repeat, TypeOK
<1>7. ASSUME NEW k \in Keys, NEW r \in Receipt, LegacyWrite(k, r) PROVE TypeOK'
  <2>1. source' \in [Sources -> Receipts]
    BY <1>7, SourceAssumption DEF LegacyWrite, TypeOK, Sources, Receipts
  <2> QED BY <1>7, <2>1 DEF LegacyWrite, TypeOK
<1>8. ASSUME NEW p \in Processes, Configured(p) PROVE TypeOK'
  BY <1>8 DEF Configured, TypeOK
<1>9. CASE UNCHANGED vars
  BY <1>9 DEF vars, TypeOK
<1> QED BY <1>1, <1>2, <1>3, <1>4, <1>5, <1>6, <1>7, <1>8, <1>9 DEF Next

\* The type invariant of the migration and of the executors' use of the ledger.
THEOREM MigrationTypeCorrect == Spec => []TypeOK
BY TypeInit, TypeStep, PTL DEF Spec

-----------------------------------------------------------------------------
(* Nothing is lost.                                                        *)

Kept ==
    \A k \in Keys :
        /\ target.receipts[k] # NoReceipt =>
            /\ target'.receipts[k] # NoReceipt
            /\ target'.receipts[k].mutation = target.receipts[k].mutation
            /\ target'.receipts[k].version >= target.receipts[k].version
        /\ target.conflicts[k] \subseteq target'.conflicts[k]

LEMMA SameIsKept == ASSUME TypeOK, target' = target PROVE Kept
<1> SUFFICES ASSUME NEW k \in Keys, target.receipts[k] # NoReceipt
             PROVE  target.receipts[k].version >= target.receipts[k].version
  BY DEF Kept
<1>1. target.receipts[k] \in Receipt
  BY DEF TypeOK, Ledger, Receipts
<1> QED BY <1>1, VersionAssumption DEF Receipt

LEMMA KeptStep == TypeOK /\ [Next]_vars => Kept
<1> SUFFICES ASSUME TypeOK, [Next]_vars PROVE Kept
  OBVIOUS
<1>1. ASSUME NEW p \in Processes, Merge(p) PROVE Kept
  <2> SUFFICES ASSUME NEW k \in Keys
               PROVE  /\ target.receipts[k] # NoReceipt =>
                            target'.receipts[k] = target.receipts[k]
                      /\ target.conflicts[k] \subseteq target'.conflicts[k]
    <3>1. ASSUME NEW k \in Keys, target.receipts[k] # NoReceipt
          PROVE  target.receipts[k].version >= target.receipts[k].version
      <4>1. target.receipts[k] \in Receipt
        BY <3>1 DEF TypeOK, Ledger, Receipts
      <4> QED BY <4>1, VersionAssumption DEF Receipt
    <3> QED BY <3>1 DEF Kept
  <2>1. target'.receipts[k] = MergedReceipt(target, loaded[p], k)
    BY <1>1 DEF Merge, Merged
  <2>2. target.conflicts[k] \subseteq target'.conflicts[k]
    BY <1>1 DEF Merge, Merged
  <2> QED BY <2>1, <2>2 DEF MergedReceipt
<1>2. ASSUME NEW p \in Processes, Update(p) PROVE Kept
  <2> SUFFICES ASSUME NEW k \in Keys
               PROVE  /\ target.receipts[k] # NoReceipt =>
                            /\ target'.receipts[k] # NoReceipt
                            /\ target'.receipts[k].mutation = target.receipts[k].mutation
                            /\ target'.receipts[k].version >= target.receipts[k].version
                      /\ target'.conflicts[k] = target.conflicts[k]
    BY DEF Kept
  <2>1. target'.conflicts[k] = target.conflicts[k]
    BY <1>2 DEF Update, TypeOK, Ledger
  <2>2. ASSUME target.receipts[k] # NoReceipt
        PROVE  /\ target'.receipts[k] # NoReceipt
               /\ target'.receipts[k].mutation = target.receipts[k].mutation
               /\ target'.receipts[k].version >= target.receipts[k].version
    <3>1. target.receipts[k] \in Receipt
      BY <2>2 DEF TypeOK, Ledger, Receipts
    <3>2. CASE k # call[p].key
      BY <1>2, <2>2, <3>1, <3>2, VersionAssumption DEF Update, TypeOK, Ledger, Receipts, Receipt
    <3>3. CASE k = call[p].key
      <4>1. target'.receipts[k] = [target.receipts[k] EXCEPT !.version = @ + 1]
        BY <1>2, <3>3 DEF Update, TypeOK, Ledger, Receipts
      <4>2. target.receipts[k].version < MaxVersion
        BY <1>2, <3>3 DEF Update
      <4>3. target'.receipts[k] \in Receipt
        BY <3>1, <4>1, <4>2, VersionAssumption DEF Receipt
      <4>4. target'.receipts[k] # NoReceipt
        BY <4>3, NoReceiptIsNone
      <4> QED BY <3>1, <4>1, <4>4, VersionAssumption DEF Receipt
    <3> QED BY <3>2, <3>3
  <2> QED BY <2>1, <2>2
<1>3. ASSUME NEW p \in Processes, NEW c \in Call, Reserve(p, c) PROVE Kept
  <2>1. ASSUME NEW k \in Keys, target.receipts[k] # NoReceipt
        PROVE  target'.receipts[k] = target.receipts[k]
    BY <1>3, <2>1 DEF Reserve, TypeOK, Ledger, Receipts
  <2>2. target'.conflicts = target.conflicts
    BY <1>3 DEF Reserve, TypeOK, Ledger
  <2>3. ASSUME NEW k \in Keys, target.receipts[k] # NoReceipt
        PROVE  target.receipts[k].version >= target.receipts[k].version
    <3>1. target.receipts[k] \in Receipt
      BY <2>3 DEF TypeOK, Ledger, Receipts
    <3> QED BY <3>1, VersionAssumption DEF Receipt
  <2> QED BY <2>1, <2>2, <2>3 DEF Kept
<1>4. ASSUME target' = target PROVE Kept
  BY <1>4, SameIsKept
<1>5. CASE Next
  BY <1>1, <1>2, <1>3, <1>4, <1>5 DEF Next, Configured, Load, Quit, Repeat, LegacyWrite
<1> QED BY <1>4, <1>5 DEF vars

\* Neither a merge nor an executor takes anything back.
THEOREM NothingIsLost == Spec => NothingLost
<1>1. TypeOK /\ [Next]_vars => [Kept]_vars
  BY KeptStep
<1>2. NothingLost <=> [][Kept]_vars
  BY DEF NothingLost, Kept
<1> QED BY <1>1, <1>2, MigrationTypeCorrect, PTL DEF Spec

-----------------------------------------------------------------------------
(* Resting legacy ledgers.                                                 *)

LEMMA InvInit == Init => MigrationInv
BY TypeInit DEF Init, MigrationInv, LoadsAreCurrent, HistoryAbsorbed,
                HistoryIsNeverResent, CollisionsBlock

LEMMA SourcesRest ==
    ASSUME ~moved', [Next]_vars
    PROVE  source' = source /\ ~moved
<1>1. ASSUME NEW k \in Keys, NEW r \in Receipt, LegacyWrite(k, r) PROVE FALSE
  BY <1>1, Zenon DEF LegacyWrite
<1>2. ASSUME NEW p \in Processes, Configured(p) PROVE FALSE
  BY <1>2, Zenon DEF Configured
<1>3. ASSUME UNCHANGED <<source, moved>> PROVE source' = source /\ ~moved
  BY <1>3, Zenon
<1>4. \/ UNCHANGED <<source, moved>>
      \/ \E k \in Keys, r \in Receipt : LegacyWrite(k, r)
      \/ \E p \in Processes : Configured(p)
  BY DEF Next, vars, Load, Merge, Update, Quit, Reserve, Repeat
<1> QED BY <1>1, <1>2, <1>3, <1>4, Zenon

\* Nor does a process then pass over them.
LEMMA NobodyConfigured ==
    ASSUME ~moved', NEW p \in Processes
    PROVE  ~Configured(p)
BY Zenon DEF Configured

LEMMA HoldersRest ==
    ASSUME source' = source, NEW k \in Keys
    PROVE  Holders(source, k)' = Holders(source, k)
BY DEF Holders

\* A merge of the ledgers as they are absorbs them.
LEMMA MergeAbsorbs ==
    ASSUME TypeOK, NEW p \in Processes, Merge(p), loaded[p] = source,
           NEW k \in Keys
    PROVE  /\ Holders(source, k) # {} => target'.receipts[k] # NoReceipt
           /\ \A i, j \in Holders(source, k) :
                source[i][k].mutation # source[j][k].mutation
                    => target'.conflicts[k] # {}
<1>1. source \in [Sources -> Receipts] /\ target \in Ledger
  BY DEF TypeOK
<1>2. target'.receipts[k] = MergedReceipt(target, source, k)
  BY DEF Merge, Merged
<1>3. target'.conflicts[k] = target.conflicts[k] \union
        {i \in Holders(source, k) : source[i][k] # MergedReceipt(target, source, k)}
  BY DEF Merge, Merged
<1>4. Holders(source, k) # {} => target'.receipts[k] # NoReceipt
  BY <1>1, <1>2, MergedReceiptValue
<1>5. ASSUME NEW i \in Holders(source, k), NEW j \in Holders(source, k),
             source[i][k].mutation # source[j][k].mutation
      PROVE  target'.conflicts[k] # {}
  BY <1>3, <1>5
<1> QED BY <1>4, <1>5

LEMMA InvStep == MigrationInv /\ [Next]_vars => MigrationInv'
<1> SUFFICES ASSUME MigrationInv, [Next]_vars PROVE MigrationInv'
  OBVIOUS
<1>1. TypeOK /\ TypeOK' /\ Kept
  BY TypeStep, KeptStep DEF MigrationInv
<1>2. ASSUME ~moved'
      PROVE  /\ source' = source /\ ~moved
             /\ \A k \in Keys : Holders(source, k)' = Holders(source, k)
  BY <1>2, SourcesRest, HoldersRest
<1>3. LoadsAreCurrent'
  <2> SUFFICES ASSUME ~moved', NEW p \in Processes, pc'[p] = "loaded"
               PROVE  loaded'[p] = source
    BY <1>2 DEF LoadsAreCurrent
  <2>0. ~moved
    BY <1>2, Zenon
  <2>1. pc[p] = "loaded" => loaded[p] = source
    BY <2>0, Zenon DEF MigrationInv, LoadsAreCurrent
  <2>2. CASE \E q \in Processes : Load(q) \/ Merge(q) \/ Update(q) \/ Quit(q)
    BY <1>1, <2>1, <2>2 DEF TypeOK, Load, Merge, Update, Quit
  <2>3. CASE \E q \in Processes, c \in Call : Reserve(q, c) \/ Repeat(q, c)
    BY <1>1, <2>1, <2>3 DEF TypeOK, Reserve, Repeat
  <2>4. CASE (\E k \in Keys, r \in Receipt : LegacyWrite(k, r)) \/ UNCHANGED vars
    BY <2>1, <2>4 DEF LegacyWrite, vars
  <2> QED BY <2>2, <2>3, <2>4, NobodyConfigured DEF Next
\* A process that is resolved after the step was so before, or has just merged.
<1>4. ASSUME ~moved', NEW p \in Processes, pc'[p] \in {"resolved", "running"}
      PROVE  pc[p] \in {"resolved", "running"} \/ Merge(p)
  <2>1. CASE \E q \in Processes : Load(q) \/ Merge(q) \/ Update(q) \/ Quit(q)
    BY <1>1, <1>4, <2>1 DEF TypeOK, Load, Merge, Update, Quit
  <2>2. CASE \E q \in Processes, c \in Call : Reserve(q, c) \/ Repeat(q, c)
    BY <1>1, <1>4, <2>2 DEF TypeOK, Reserve, Repeat
  <2>3. CASE (\E k \in Keys, r \in Receipt : LegacyWrite(k, r)) \/ UNCHANGED vars
    BY <1>4, <2>3 DEF LegacyWrite, vars
  <2> QED BY <1>4, <2>1, <2>2, <2>3, NobodyConfigured DEF Next
\* A merge applies what the legacy ledgers still hold.
<1>5. ASSUME ~moved', NEW p \in Processes, Merge(p) PROVE loaded[p] = source
  <2>1. ~moved
    BY <1>2, <1>5, Zenon
  <2> QED BY <1>5, <2>1, Zenon DEF MigrationInv, LoadsAreCurrent, Merge
<1>6. HistoryAbsorbed'
  <2> SUFFICES ASSUME ~moved', NEW p \in Processes,
                      pc'[p] \in {"resolved", "running"},
                      NEW k \in Keys, Holders(source, k) # {}
               PROVE  target'.receipts[k] # NoReceipt
    BY <1>2 DEF HistoryAbsorbed
  <2>1. CASE pc[p] \in {"resolved", "running"}
    <3>1. ~moved
      BY <1>2, Zenon
    <3>2. target.receipts[k] # NoReceipt
      BY <2>1, <3>1, Zenon DEF MigrationInv, HistoryAbsorbed
    <3> QED BY <1>1, <3>2 DEF Kept
  <2>2. CASE Merge(p)
    BY <1>1, <1>5, <2>2, MergeAbsorbs DEF MigrationInv
  <2> QED BY <1>4, <2>1, <2>2
<1>7. HistoryIsNeverResent'
  <2> SUFFICES ASSUME ~moved', NEW c \in sent' PROVE Holders(source, c.key) = {}
    BY <1>1, <1>2 DEF HistoryIsNeverResent, TypeOK, Call
  <2>0. ~moved
    BY <1>2, Zenon
  <2>1. CASE c \in sent
    BY <2>0, <2>1, Zenon DEF MigrationInv, HistoryIsNeverResent
  <2>2. CASE c \notin sent
    <3>1. PICK p \in Processes : Reserve(p, c)
      BY <2>2 DEF Next, vars, Configured, Load, Merge, Update, Quit, Reserve, Repeat,
                          LegacyWrite
    <3>2. c.key \in Keys
      BY <1>1 DEF TypeOK, Call
    <3>3. pc[p] = "resolved" /\ target.receipts[c.key] = NoReceipt
      BY <3>1 DEF Reserve
    <3> QED BY <2>0, <3>2, <3>3, Zenon DEF MigrationInv, HistoryAbsorbed
  <2> QED BY <2>1, <2>2
<1>8. CollisionsBlock'
  <2> SUFFICES ASSUME ~moved', NEW p \in Processes,
                      pc'[p] \in {"resolved", "running"}, NEW k \in Keys,
                      NEW i \in Holders(source, k), NEW j \in Holders(source, k),
                      source[i][k].mutation # source[j][k].mutation
               PROVE  target'.conflicts[k] # {}
    BY <1>2 DEF CollisionsBlock
  <2>1. CASE pc[p] \in {"resolved", "running"}
    <3>0. ~moved
      BY <1>2, Zenon
    <3>1. target.conflicts[k] # {}
      BY <2>1, <3>0, Zenon DEF MigrationInv, CollisionsBlock
    <3> QED BY <1>1, <3>1 DEF Kept
  <2>2. CASE Merge(p)
    BY <1>1, <1>5, <2>2, MergeAbsorbs DEF MigrationInv
  <2> QED BY <1>4, <2>1, <2>2
<1> QED BY <1>1, <1>3, <1>6, <1>7, <1>8 DEF MigrationInv

\* The inductive invariant.
THEOREM MigrationInvariant == Spec => []MigrationInv
BY InvInit, InvStep, PTL DEF Spec

\* A key a resting legacy ledger records is never sent as new, if every process
\* merges it.
THEOREM HistoryIsKept == Spec => []HistoryIsNeverResent
<1>1. MigrationInv => HistoryIsNeverResent
  BY DEF MigrationInv
<1> QED BY <1>1, MigrationInvariant, PTL

\* A key resting legacy ledgers record for different mutations is blocked.
THEOREM CollisionsAreBlocked == Spec => []CollisionsBlock
<1>1. MigrationInv => CollisionsBlock
  BY DEF MigrationInv
<1> QED BY <1>1, MigrationInvariant, PTL
=============================================================================
