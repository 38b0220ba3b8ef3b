---------------------- MODULE GovernedMutationsProofs ----------------------
(***************************************************************************)
(* Theorems about GovernedMutations for every number of processes, keys,   *)
(* mutations and authorizations.                                           *)
(***************************************************************************)
EXTENDS GovernedMutations, TLAPS

-----------------------------------------------------------------------------
(* Ledgers.                                                                *)

LEMMA NoReceiptIsNone == NoReceipt \notin Receipt
BY DEF NoReceipt, Receipt

LEMMA StartedType ==
    ASSUME NEW c \in Call
    PROVE  /\ Started(c) \in Receipt /\ Started(c) # NoReceipt
           /\ Started(c).mutation = c.mutation
           /\ Started(c).id = FALSE /\ Started(c).status = "attempt_started"
<1>1. Started(c) \in Receipt
  BY DEF Started, Receipt, Call
<1> QED BY <1>1, NoReceiptIsNone DEF Started

LEMMA FoundType ==
    ASSUME NEW c \in Call,
           NEW status \in {"saved", "applied_pending_readback",
                           "provider_existing_verified", "verified"}
    PROVE  /\ Found(c, status) \in Receipt /\ Found(c, status) # NoReceipt
           /\ Found(c, status).mutation = c.mutation
           /\ Found(c, status).id = TRUE /\ Found(c, status).status = status
<1>1. Found(c, status) \in Receipt
  BY DEF Found, Receipt, Call
<1> QED BY <1>1, NoReceiptIsNone DEF Found

LEMMA RecordValue ==
    ASSUME NEW ledger \in Ledger, NEW k \in Keys, NEW r \in Receipt
    PROVE  /\ Record(ledger, k, r) \in Ledger
           /\ Record(ledger, k, r).auths = ledger.auths
           /\ Record(ledger, k, r).receipts[k] = r
           /\ \A j \in Keys \ {k} :
                Record(ledger, k, r).receipts[j] = ledger.receipts[j]
BY DEF Record, Ledger

LEMMA CasValue ==
    ASSUME NEW ledger \in Ledger, NEW c \in Call,
           NEW status \in {"applied_pending_readback", "verified"}
    PROVE  /\ Cas(ledger, c, status) \in Ledger
           /\ Cas(ledger, c, status).auths = ledger.auths
           /\ \A j \in Keys \ {c.key} :
                Cas(ledger, c, status).receipts[j] = ledger.receipts[j]
           /\ /\ ledger.receipts[c.key] # NoReceipt
              /\ ledger.receipts[c.key].mutation = c.mutation
              => Cas(ledger, c, status).receipts[c.key] = Found(c, status)
<1>1. c.key \in Keys
  BY DEF Call
<1>2. Found(c, status) \in Receipt
  BY FoundType
<1> QED BY <1>1, <1>2, RecordValue DEF Cas

LEMMA CallTypes ==
    ASSUME TypeOK, NEW p \in Processes, call[p] # NoCall
    PROVE  /\ call[p] \in Call /\ call[p].key \in Keys
           /\ call[p].mutation \in Mutations
           /\ KindOf[call[p].mutation] \in Kinds
           /\ Write(p) \in Writes
BY KindAssumption DEF TypeOK, Call, Write, Writes

-----------------------------------------------------------------------------
(* Types.  A process in a call is at one of the steps of its flow, holds   *)
(* the lock exactly in the locked ones, and has a copy while it does.      *)

Placed(p) ==
    /\ Locked(p) <=> lock = p
    /\ copy[p] # None <=> lock = p
    /\ pc[p] = "idle" <=> call[p] = NoCall
    /\ call[p] # NoCall => pc[p] \in StepsOf(KindOf[call[p].mutation])

Files ==
    /\ disk \in Ledger
    /\ copy \in [Processes -> Ledger \union {None}]
    /\ lock \in Processes \union {None}
Seats ==
    /\ pc \in [Processes -> Steps]
    /\ call \in [Processes -> Call \union {NoCall}]
World ==
    /\ flying \subseteq Writes
    /\ applied \subseteq Mutations
    /\ posts \in [Writes -> Nat]
    /\ acked \subseteq Writes
    /\ admitted \in [Auths -> Nat]
Basics == Files /\ Seats /\ World

LEMMA TypeParts == TypeOK <=> Basics /\ \A p \in Processes : Placed(p)
BY DEF TypeOK, Basics, Files, Seats, World, Placed

\* A step of p leaves the others where they are, unless it takes the lock from one.
LEMMA OthersPlaced ==
    ASSUME TypeOK, NEW p \in Processes, NEW q \in Processes, q # p,
           pc'[q] = pc[q], call'[q] = call[q], copy'[q] = copy[q],
           lock' = q <=> lock = q
    PROVE  Placed(q)'
BY TypeParts DEF Placed, Locked, Runs

LEMMA InitType == Init => TypeOK
<1> SUFFICES ASSUME Init PROVE TypeOK
  OBVIOUS
<1>1. disk \in Ledger
  BY DEF Init, Ledger
<1>2. \A p \in Processes : Placed(p)
  BY NoneAssumption DEF Init, Placed, Locked, Runs, NoCall
<1>3. /\ pc \in [Processes -> Steps] /\ copy \in [Processes -> Ledger \union {None}]
      /\ call \in [Processes -> Call \union {NoCall}]
  BY DEF Init, Steps
<1>4. posts \in [Writes -> Nat] /\ admitted \in [Auths -> Nat]
  BY DEF Init
<1>5. Basics
  BY <1>1, <1>3, <1>4 DEF Init, Basics, Files, Seats, World
<1> QED BY <1>2, <1>5, TypeParts

-----------------------------------------------------------------------------
(* What the steps of a process p do to the others.                         *)

Begins(p) ==
    \E c \in Call : \/ ItemEnter(p, c) \/ BindEnter(p, c)
                    \/ \E a \in Auths : CommentAdmit(p, c, a)
Acts(p) == Begins(p) \/ Step(p) \/ Crash(p)

LEMMA OthersStay ==
    ASSUME TypeOK, NEW p \in Processes, Acts(p), NEW q \in Processes, q # p
    PROVE  /\ pc'[q] = pc[q] /\ call'[q] = call[q] /\ copy'[q] = copy[q]
           /\ lock' = q <=> lock = q
           /\ lock = q => disk' = disk
<1>0. Placed(p) /\ Basics /\ q # None
  BY TypeParts, NoneAssumption
<1>1. CASE Begins(p)
  BY <1>0, <1>1 DEF Basics, Files, Seats, Begins, ItemEnter, BindEnter, CommentAdmit, Enter, Goto
<1>2. CASE Crash(p)
  BY <1>0, <1>2 DEF Basics, Files, Seats, Crash, Return, Goto
<1>3. CASE Post(p) \/ ItemAcked(p) \/ CommentAcked(p) \/ BindCheck(p)
           \/ CommentReadback(p) \/ CommentNote(p) \/ Mark(p)
  BY <1>0, <1>3 DEF Basics, Files, Seats, Post, ItemAcked, CommentAcked, BindCheck,
     CommentReadback, CommentNote, Mark, Return, Goto
<1>4. CASE Unanswered(p)
  BY <1>0, <1>4 DEF Basics, Files, Seats, Placed, Unanswered, LeaveUnchanged, Return, Goto
<1>5. CASE ItemReadback(p) \/ BindLeave(p) \/ BindAcked(p) \/ BindLook(p)
  <2>1. lock = p
    <3>1. CASE ItemReadback(p)
      BY <1>0, <3>1 DEF ItemReadback, Placed, Locked
    <3>2. CASE BindLeave(p)
      BY <1>0, <3>2, KindAssumption DEF BindLeave, Placed, Locked, Runs,
         StepsOf, Basics, Files, Seats, Call, Kinds
    <3>3. CASE BindAcked(p)
      BY <1>0, <3>3 DEF BindAcked, Placed, Locked, Answered
    <3>4. CASE BindLook(p)
      BY <1>0, <3>4, KindAssumption DEF BindLook, Placed, Locked, Runs,
         StepsOf, Basics, Files, Seats, Call, Kinds
    <3> QED BY <1>5, <3>1, <3>2, <3>3, <3>4
  <2> QED BY <1>0, <1>5, <2>1 DEF Basics, Files, Seats, ItemReadback, BindLeave, BindAcked,
       BindLook, LeaveUnchanged, LeaveWith, Return, Goto
<1> QED BY <1>1, <1>2, <1>3, <1>4, <1>5 DEF Acts, Step

LEMMA Located ==
    ASSUME TypeOK, NEW p \in Processes
    PROVE  /\ pc[p] \in {"look", "leave"} => Runs(p, "bind") /\ lock = p
           /\ pc[p] = "note" => Runs(p, "comment") /\ lock # p
           /\ pc[p] = "check" => Runs(p, "bind") /\ lock # p
           /\ pc[p] = "mark" =>
                (Runs(p, "bind") \/ Runs(p, "comment")) /\ lock # p
           /\ pc[p] \in {"post", "answer"} => call[p] # NoCall
           /\ Runs(p, "item") => lock = p /\ ~Runs(p, "bind") /\ ~Runs(p, "comment")
           /\ Runs(p, "comment") => lock # p /\ ~Runs(p, "bind")
           /\ Runs(p, "bind") /\ pc[p] \in {"post", "answer"} => lock = p
           /\ lock = p => copy[p] \in Ledger
<1>1. Placed(p) /\ Basics
  BY TypeParts
<1>2. call[p] # NoCall => KindOf[call[p].mutation] \in Kinds
  BY CallTypes
<1> QED BY <1>1, <1>2 DEF Placed, Basics, Files, Seats, Locked, Runs, StepsOf, Kinds

-----------------------------------------------------------------------------
(* Building blocks.                                                        *)

LEMMA GotoType ==
    ASSUME Seats, NEW p \in Processes, NEW step \in Steps, Goto(p, step)
    PROVE  pc' \in [Processes -> Steps] /\ pc'[p] = step
BY DEF Seats, Goto

LEMMA ReturnType ==
    ASSUME Seats, NEW p \in Processes, Return(p)
    PROVE  Seats' /\ pc'[p] = "idle" /\ call'[p] = NoCall
BY GotoType DEF Seats, Return, Steps

LEMMA EnterType ==
    ASSUME Files, NEW p \in Processes, Enter(p), UNCHANGED disk
    PROVE  Files' /\ lock' = p /\ copy'[p] = disk /\ copy'[p] # None
BY NothingAssumption DEF Files, Enter

LEMMA LeaveType ==
    ASSUME Files, NEW p \in Processes, copy[p] \in Ledger, LeaveUnchanged(p)
    PROVE  Files' /\ lock' = None /\ copy'[p] = None
BY DEF Files, LeaveUnchanged

LEMMA LeaveWithType ==
    ASSUME Files, NEW p \in Processes, copy[p] \in Ledger,
           NEW receipt \in Receipt, call[p] \in Call, LeaveWith(p, receipt)
    PROVE  Files' /\ lock' = None /\ copy'[p] = None
<1>1. Record(copy[p], call[p].key, receipt) \in Ledger
  BY RecordValue DEF Call
<1> QED BY <1>1 DEF Files, LeaveWith

\* The write steps keep the types.
LEMMA WriteTypes ==
    ASSUME TypeOK, NEW p \in Processes,
           Post(p) \/ ItemAcked(p) \/ BindAcked(p) \/ CommentAcked(p) \/ Unanswered(p)
    PROVE  Basics' /\ Placed(p)'
<1> USE DEF Steps
<1>0. Placed(p) /\ Files /\ Seats /\ World
  BY TypeParts DEF Basics
<1>1. call[p] # NoCall
  BY Located DEF Post, ItemAcked, BindAcked, CommentAcked, Unanswered, Answered
<1>2. call[p] \in Call /\ Write(p) \in Writes /\ call[p].key \in Keys
  BY <1>1, CallTypes
<1>3. CASE Post(p)
  <2>1. Seats' /\ pc'[p] = "answer" /\ call'[p] = call[p]
    BY <1>0, <1>3, GotoType DEF Post, Seats
  <2>2. World'
    BY <1>0, <1>2, <1>3 DEF Post, World
  <2>3. Files' /\ copy'[p] = copy[p] /\ lock' = lock
    BY <1>0, <1>3 DEF Post, Files
  <2>4. Placed(p)'
    BY <1>0, <1>1, <1>3, <2>1, <2>3, CallTypes
    DEF Post, Placed, Locked, Runs, StepsOf, Kinds
  <2> QED BY <2>1, <2>2, <2>3, <2>4 DEF Basics
<1>4. CASE ItemAcked(p) \/ BindAcked(p)
  <2>1. copy[p] \in Ledger /\ lock = p /\ call' = call
    BY <1>4, Located DEF ItemAcked, BindAcked, Answered
  <2>2. /\ Record(copy[p], call[p].key, Found(call[p], "saved")) \in Ledger
        /\ Record(copy[p], call[p].key, Found(call[p], "applied_pending_readback"))
                \in Ledger
    <3>1. call[p] \in Call /\ call[p].key \in Keys
      BY <1>2 DEF Call
    <3>2. /\ Found(call[p], "saved") \in Receipt
          /\ Found(call[p], "applied_pending_readback") \in Receipt
      BY <3>1, FoundType
    <3> QED BY <2>1, <3>1, <3>2, RecordValue
  <2>3. copy' \in [Processes -> Ledger \union {None}] /\ copy'[p] \in Ledger
    BY <1>0, <1>4, <2>2 DEF Files, ItemAcked, BindAcked
  <2>4. Files' /\ lock' = p
    BY <1>0, <1>4, <2>1, <2>3 DEF Files, ItemAcked, BindAcked
  <2>5. Seats' /\ pc'[p] \in {"readback", "leave"}
    BY <1>0, <1>4, <2>1, GotoType DEF Seats, ItemAcked, BindAcked
  <2>6. World'
    BY <1>0, <1>2, <1>4 DEF World, ItemAcked, BindAcked, Answered, provider
  <2>7. Placed(p)'
    <3>1. CASE ItemAcked(p)
      BY <1>0, <1>1, <2>1, <2>3, <2>4, <3>1, GotoType, NothingAssumption
      DEF Placed, Locked, Runs, StepsOf, ItemAcked, Answered
    <3>2. CASE BindAcked(p)
      BY <1>0, <1>1, <2>1, <2>3, <2>4, <3>2, GotoType, NothingAssumption
      DEF Placed, Locked, Runs, StepsOf, BindAcked, Answered
    <3> QED BY <1>4, <3>1, <3>2
  <2> QED BY <2>4, <2>5, <2>6, <2>7 DEF Basics
<1>5. CASE CommentAcked(p)
  <2>1. Seats' /\ pc'[p] = "note" /\ call'[p] = call[p]
    BY <1>0, <1>5, GotoType DEF CommentAcked, Seats
  <2>2. World'
    BY <1>0, <1>2, <1>5 DEF CommentAcked, Answered, World, provider
  <2>3. Files' /\ copy'[p] = copy[p] /\ lock' = lock
    BY <1>0, <1>5 DEF CommentAcked, Files
  <2>4. Placed(p)'
    BY <1>0, <1>1, <1>5, <2>1, <2>3
    DEF CommentAcked, Answered, Placed, Locked, Runs, StepsOf
  <2> QED BY <2>1, <2>2, <2>3, <2>4 DEF Basics
<1>6. CASE Unanswered(p)
  <2>1. Seats' /\ pc'[p] = "idle" /\ call'[p] = NoCall
    BY <1>0, <1>6, ReturnType DEF Unanswered
  <2>2. World'
    BY <1>0, <1>6 DEF Unanswered, World, provider, history
  <2>3. Files' /\ lock' # p /\ copy'[p] = None
    <3>1. CASE Locked(p)
      <4>1. copy[p] \in Ledger
        BY <1>0, <3>1, Located DEF Placed
      <4> QED BY <1>0, <1>6, <3>1, <4>1, LeaveType, NoneAssumption DEF Unanswered
    <3>2. CASE ~Locked(p)
      BY <1>0, <1>6, <3>2 DEF Unanswered, Placed, Files
    <3> QED BY <3>1, <3>2
  <2>4. Placed(p)'
    BY <2>1, <2>3 DEF Placed, Locked, Runs
  <2> QED BY <2>1, <2>2, <2>3, <2>4 DEF Basics
<1> QED BY <1>3, <1>4, <1>5, <1>6

\* The steps that end a call.
LEMMA EndTypes ==
    ASSUME TypeOK, NEW p \in Processes, Return(p), World',
           \/ lock = p /\ LeaveUnchanged(p)
           \/ lock # p /\ UNCHANGED <<copy, lock>> /\ disk' \in Ledger
           \/ /\ disk' \in Ledger
              /\ lock' = IF lock = p THEN None ELSE lock
              /\ copy' = [copy EXCEPT ![p] = None]
    PROVE  Basics' /\ Placed(p)'
<1>0. Placed(p) /\ Files /\ Seats
  BY TypeParts DEF Basics
<1>1. Seats' /\ pc'[p] = "idle" /\ call'[p] = NoCall
  BY <1>0, ReturnType
<1>2. Files' /\ lock' # p /\ copy'[p] = None
  <2>1. CASE lock = p /\ LeaveUnchanged(p)
    BY <1>0, <2>1, Located, LeaveType, NoneAssumption
  <2>2. CASE lock # p /\ UNCHANGED <<copy, lock>> /\ disk' \in Ledger
    BY <1>0, <2>2 DEF Placed, Files
  <2>3. CASE /\ disk' \in Ledger
             /\ lock' = IF lock = p THEN None ELSE lock
             /\ copy' = [copy EXCEPT ![p] = None]
    BY <1>0, <2>3, NoneAssumption DEF Files
  <2> QED BY <2>1, <2>2, <2>3
<1>3. Placed(p)'
  BY <1>1, <1>2 DEF Placed, Locked, Runs
<1> QED BY <1>1, <1>2, <1>3 DEF Basics

\* The other steps of a call keep the types too.
LEMMA StepTypes ==
    ASSUME TypeOK, NEW p \in Processes,
           \/ ItemReadback(p) \/ CommentReadback(p) \/ BindLook(p) \/ BindLeave(p)
           \/ BindCheck(p) \/ CommentNote(p) \/ Mark(p) \/ Crash(p)
    PROVE  Basics' /\ Placed(p)'
<1> USE DEF Steps
<1>0. Placed(p) /\ Files /\ Seats /\ World
  BY TypeParts DEF Basics
<1>1. World'
  BY <1>0 DEF World, ItemReadback, CommentReadback, BindLook, BindLeave, BindCheck,
     CommentNote, Mark, Crash, provider, history
<1>2. CASE Crash(p)
  BY <1>0, <1>1, <1>2, EndTypes DEF Crash, Files
<1>3. CASE ItemReadback(p)
  BY <1>1, <1>3, EndTypes, Located DEF ItemReadback
<1>4. CASE CommentReadback(p)
  <2>1. CASE Return(p)
    BY <1>0, <1>1, <1>4, <2>1, EndTypes, Located DEF CommentReadback, Files
  <2>2. CASE Goto(p, "mark") /\ UNCHANGED call
    <3>1. Seats' /\ pc'[p] = "mark" /\ Files'
      BY <1>0, <1>4, <2>2, GotoType DEF Seats, CommentReadback, Files
    <3>2. Placed(p)'
      BY <1>0, <1>4, <2>2, <3>1, Located
      DEF Placed, Locked, Runs, StepsOf, CommentReadback
    <3> QED BY <1>1, <3>1, <3>2 DEF Basics
  <2> QED BY <1>4, <2>1, <2>2 DEF CommentReadback
<1>5. CASE BindLook(p)
  <2>1. lock = p /\ copy[p] \in Ledger /\ call[p] \in Call /\ Runs(p, "bind")
    BY <1>5, Located, CallTypes DEF BindLook, Runs
  <2>2. CASE Goto(p, "post") /\ UNCHANGED <<disk, copy, lock, call>>
    <3>1. Seats' /\ pc'[p] = "post" /\ Files'
      BY <1>0, <2>2, GotoType DEF Seats, Files
    <3>2. Placed(p)'
      BY <1>0, <2>1, <2>2, <3>1 DEF Placed, Locked, Runs, StepsOf
    <3> QED BY <1>1, <3>1, <3>2 DEF Basics
  <2>3. CASE LeaveUnchanged(p) /\ Return(p)
    BY <1>1, <2>1, <2>3, EndTypes
  <2>4. CASE LeaveWith(p, Found(call[p], "provider_existing_verified")) /\ Return(p)
    <3>1. disk' \in Ledger /\ lock' = None /\ copy' = [copy EXCEPT ![p] = None]
      <4>1. Found(call[p], "provider_existing_verified") \in Receipt
        BY <2>1, FoundType
      <4> QED BY <1>0, <2>1, <2>4, <4>1, LeaveWithType DEF Files, LeaveWith
    <3> QED BY <1>1, <2>1, <2>4, <3>1, EndTypes
  <2> QED BY <1>5, <2>2, <2>3, <2>4 DEF BindLook
<1>6. CASE BindLeave(p)
  <2>1. lock = p /\ copy[p] \in Ledger /\ Runs(p, "bind")
    BY <1>6, Located DEF BindLeave
  <2>2. Seats' /\ pc'[p] = "check" /\ call'[p] = call[p]
    BY <1>0, <1>6, GotoType DEF Seats, BindLeave
  <2>3. Files' /\ lock' # p /\ copy'[p] = None
    BY <1>0, <1>6, <2>1, LeaveType, NoneAssumption DEF BindLeave
  <2>4. Placed(p)'
    BY <1>0, <2>1, <2>2, <2>3 DEF Placed, Locked, Runs, StepsOf
  <2> QED BY <1>1, <2>2, <2>3, <2>4 DEF Basics
<1>7. CASE BindCheck(p)
  <2>1. CASE Return(p)
    BY <1>0, <1>1, <1>7, <2>1, EndTypes, Located DEF BindCheck, Files
  <2>2. CASE Goto(p, "mark") /\ UNCHANGED call
    <3>1. Seats' /\ pc'[p] = "mark" /\ Files'
      BY <1>0, <1>7, <2>2, GotoType DEF Seats, BindCheck, Files
    <3>2. Placed(p)'
      BY <1>0, <1>7, <2>2, <3>1, Located DEF Placed, Locked, Runs, StepsOf, BindCheck
    <3> QED BY <1>1, <3>1, <3>2 DEF Basics
  <2> QED BY <1>7, <2>1, <2>2 DEF BindCheck
<1>8. CASE CommentNote(p) \/ Mark(p)
  <2>1. call[p] \in Call /\ lock # p
    BY <1>8, Located, CallTypes DEF CommentNote, Mark, Runs
  <2>2. disk' \in Ledger
    BY <1>0, <1>8, <2>1, CasValue DEF Files, CommentNote, Mark
  <2>3. CASE CommentNote(p)
    <3>1. Seats' /\ pc'[p] = "readback" /\ Files'
      BY <1>0, <2>2, <2>3, GotoType DEF Seats, CommentNote, Files
    <3>2. Placed(p)'
      BY <1>0, <2>3, <3>1, Located DEF Placed, Locked, Runs, StepsOf, CommentNote
    <3> QED BY <1>1, <3>1, <3>2 DEF Basics
  <2>4. CASE Mark(p)
    BY <1>1, <2>1, <2>2, <2>4, EndTypes DEF Mark
  <2> QED BY <1>8, <2>3, <2>4
<1> QED BY <1>2, <1>3, <1>4, <1>5, <1>6, <1>7, <1>8

LEMMA BeginTypes ==
    ASSUME TypeOK, NEW p \in Processes, Begins(p)
    PROVE  Basics' /\ Placed(p)'
<1> USE DEF Steps
<1>0. Placed(p) /\ Files /\ Seats /\ World
  BY TypeParts DEF Basics
<1>1. ASSUME NEW c \in Call, ItemEnter(p, c) PROVE Basics' /\ Placed(p)'
  <2>1. World' /\ Files' /\ lock' = p /\ copy'[p] # None
    BY <1>0, <1>1, EnterType DEF World, ItemEnter, provider, history
  <2>2. Seats' /\ call'[p] = c /\ c # NoCall /\ pc'[p] \in {"post", "reread"}
    BY <1>0, <1>1, GotoType, NothingAssumption DEF Seats, ItemEnter, NoCall
  <2>3. Placed(p)'
    BY <1>1, <2>1, <2>2 DEF Placed, Locked, Runs, StepsOf, ItemEnter
  <2> QED BY <2>1, <2>2, <2>3 DEF Basics
<1>2. ASSUME NEW c \in Call, BindEnter(p, c) PROVE Basics' /\ Placed(p)'
  <2>1. World'
    BY <1>0, <1>2 DEF World, BindEnter, provider, history
  <2>2. call' \in [Processes -> Call \union {NoCall}] /\ call'[p] = c /\ c # NoCall
    BY <1>0, <1>2, NothingAssumption DEF Seats, BindEnter, NoCall
  <2>3. CASE Enter(p) /\ Goto(p, "look")
    <3>1. Files' /\ lock' = p /\ copy'[p] # None /\ Seats' /\ pc'[p] = "look"
      BY <1>0, <1>2, <2>2, <2>3, EnterType, GotoType DEF Seats, BindEnter
    <3>2. Placed(p)'
      BY <1>2, <2>2, <3>1 DEF Placed, Locked, Runs, StepsOf, BindEnter
    <3> QED BY <2>1, <3>1, <3>2 DEF Basics
  <2>4. CASE lock = None /\ Goto(p, "check") /\ UNCHANGED <<copy, lock>>
    <3>1. Files' /\ lock' # p /\ copy'[p] = None /\ Seats' /\ pc'[p] = "check"
      BY <1>0, <1>2, <2>2, <2>4, GotoType, NoneAssumption
      DEF Seats, Files, Placed, BindEnter
    <3>2. Placed(p)'
      BY <1>2, <2>2, <3>1 DEF Placed, Locked, Runs, StepsOf, BindEnter
    <3> QED BY <2>1, <3>1, <3>2 DEF Basics
  <2> QED BY <1>2, <2>3, <2>4 DEF BindEnter
<1>3. ASSUME NEW c \in Call, NEW a \in Auths, CommentAdmit(p, c, a)
      PROVE  Basics' /\ Placed(p)'
  <2>1. Consumed(a) \in Ledger
    BY <1>0 DEF Consumed, Ledger, Files
  <2>2. Reserved(Consumed(a), c) \in Ledger
    <3>1. Started(c) \in Receipt /\ c.key \in Keys
      BY StartedType DEF Call
    <3> QED BY <2>1, <3>1, RecordValue DEF Reserved
  <2>3. Files' /\ World' /\ lock' # p /\ copy'[p] = None
    BY <1>0, <1>3, <2>1, <2>2, NoneAssumption
    DEF Files, World, Placed, CommentAdmit, provider
  <2>4. CASE UNCHANGED <<call, pc>>
    BY <1>0, <1>3, <2>3, <2>4, NoneAssumption
    DEF Basics, Seats, Placed, Locked, Runs, CommentAdmit
  <2>5. CASE /\ call' = [call EXCEPT ![p] = c]
             /\ Goto(p, "post") \/ Goto(p, "reread")
    <3>1. Seats' /\ call'[p] = c /\ c # NoCall /\ pc'[p] \in {"post", "reread"}
      BY <1>0, <2>5, GotoType, NothingAssumption DEF Seats, NoCall
    <3>2. Placed(p)'
      BY <1>3, <2>3, <3>1 DEF Placed, Locked, Runs, StepsOf, CommentAdmit
    <3> QED BY <2>3, <3>1, <3>2 DEF Basics
  <2> QED BY <1>3, <2>4, <2>5 DEF CommentAdmit
<1> QED BY <1>1, <1>2, <1>3 DEF Begins

LEMMA NextActs ==
    Next => (\E p \in Processes : Acts(p)) \/ (\E w \in Writes : Land(w))
BY RequestAssumption DEF Next, Acts, Begins

LEMMA TypeStep == TypeOK /\ [Next]_vars => TypeOK'
<1> SUFFICES ASSUME TypeOK, [Next]_vars PROVE TypeOK'
  OBVIOUS
<1>0. Basics /\ \A p \in Processes : Placed(p)
  BY TypeParts
<1>1. ASSUME NEW p \in Processes, Acts(p) PROVE TypeOK'
  <2>1. Basics' /\ Placed(p)'
    BY <1>1, WriteTypes, StepTypes, BeginTypes DEF Acts, Step
  <2>2. ASSUME NEW q \in Processes, q # p PROVE Placed(q)'
    BY <1>1, <2>2, OthersStay, OthersPlaced
  <2>3. \A q \in Processes : Placed(q)'
    BY <2>1, <2>2
  <2> QED BY <2>1, <2>3 DEF TypeOK, Basics, Files, Seats, World, Placed
<1>2. ASSUME NEW w \in Writes, Land(w) PROVE TypeOK'
  <2>1. w[2] \in Mutations
    BY DEF Writes
  <2> QED BY <1>2, <2>1 DEF Land, TypeOK, Locked, Runs, history
<1>3. CASE UNCHANGED vars
  BY <1>3 DEF vars, TypeOK, Locked, Runs
<1> QED BY <1>1, <1>2, <1>3, NextActs

\* The state of the governed mutations stays in its types.
THEOREM GovernedTypeCorrect == Spec => []TypeOK
BY InitType, TypeStep, PTL DEF Spec
-----------------------------------------------------------------------------
(* What a step does to the file: a key without a receipt may get one, and  *)
(* a call past its writes may update its own.                              *)

Fresh(k) == disk.receipts[k] = NoReceipt /\ disk'.receipts[k] # NoReceipt
Updated(p, k) ==
    /\ pc[p] \in {"note", "mark"} /\ k = call[p].key
    /\ disk.receipts[k] # NoReceipt
    /\ disk.receipts[k].mutation = call[p].mutation
    /\ disk'.receipts[k] =
         Found(call[p], IF pc[p] = "note" THEN "applied_pending_readback" ELSE "verified")
FileStep(p) ==
    /\ disk.auths \subseteq disk'.auths
    /\ \A k \in Keys :
        disk'.receipts[k] = disk.receipts[k] \/ Fresh(k) \/ Updated(p, k)

\* Leaving the lock writes back the file it found, or a receipt for its free key.
LEMMA LeaveStep ==
    ASSUME TypeOK, HeldCopies, NEW p \in Processes, lock = p, LeaveUnchanged(p)
    PROVE  FileStep(p)
<1>1. Locked(p) /\ disk \in Ledger
  BY DEF TypeOK
<1>2. call[p] \in Call /\ call[p].key \in Keys
  BY <1>1, CallTypes DEF Locked, Runs
<1>3. CASE pc[p] = "readback"
  <2>1. /\ disk.receipts[call[p].key] = NoReceipt
        /\ disk' = Record(disk, call[p].key, Found(call[p], "saved"))
    BY <1>1, <1>3 DEF HeldCopies, LeaveUnchanged
  <2>2. Found(call[p], "saved") \in Receipt /\ Found(call[p], "saved") # NoReceipt
    BY <1>2, FoundType
  <2> QED BY <1>1, <1>2, <2>1, <2>2, RecordValue DEF FileStep, Fresh
<1>4. CASE pc[p] # "readback"
  BY <1>1, <1>4 DEF HeldCopies, LeaveUnchanged, FileStep
<1> QED BY <1>3, <1>4

LEMMA RecordStep ==
    ASSUME TypeOK, HeldCopies, NEW p \in Processes, lock = p,
           pc[p] \in {"look", "answer"},
           NEW status \in {"applied_pending_readback", "provider_existing_verified"},
           disk' = Record(copy[p], call[p].key, Found(call[p], status))
    PROVE  FileStep(p)
<1>1. Locked(p) /\ disk \in Ledger
  BY DEF TypeOK
<1>2. call[p] \in Call /\ call[p].key \in Keys
  BY <1>1, CallTypes DEF Locked, Runs
<1>3. disk.receipts[call[p].key] = NoReceipt /\ copy[p] = disk
  BY <1>1 DEF HeldCopies
<1>4. Found(call[p], status) \in Receipt /\ Found(call[p], status) # NoReceipt
  BY <1>2, FoundType
<1> QED BY <1>1, <1>2, <1>3, <1>4, RecordValue DEF FileStep, Fresh

LEMMA FileSteps ==
    ASSUME TypeOK, HeldCopies, CallsAreNamed, NEW p \in Processes, Acts(p)
    PROVE  FileStep(p)
<1>0. disk \in Ledger
  BY DEF TypeOK
<1>1. ASSUME disk' = disk PROVE FileStep(p)
  BY <1>1 DEF FileStep
<1>2. CASE Begins(p)
  <2>1. ASSUME NEW c \in Call, NEW a \in Auths, CommentAdmit(p, c, a)
        PROVE  FileStep(p)
    <3>1. /\ Consumed(a) \in Ledger /\ Consumed(a).receipts = disk.receipts
          /\ disk.auths \subseteq Consumed(a).auths
      BY <1>0 DEF Consumed, Ledger
    <3>2. CASE disk.receipts[c.key] = NoReceipt /\ disk' = Reserved(Consumed(a), c)
      <4>1. Started(c) \in Receipt /\ Started(c) # NoReceipt /\ c.key \in Keys
        BY StartedType DEF Call
      <4> QED BY <3>1, <3>2, <4>1, RecordValue DEF Reserved, FileStep, Fresh
    <3>3. CASE disk' = Consumed(a)
      BY <3>1, <3>3 DEF FileStep
    <3> QED BY <2>1, <3>2, <3>3 DEF CommentAdmit
  <2>2. ASSUME NEW c \in Call, ItemEnter(p, c) \/ BindEnter(p, c) PROVE disk' = disk
    BY <2>2 DEF ItemEnter, BindEnter
  <2> QED BY <1>1, <1>2, <2>1, <2>2 DEF Begins
<1>3. CASE Unanswered(p) \/ ItemReadback(p) \/ BindLeave(p)
  <2>1. lock = p => LeaveUnchanged(p) \/ disk' = disk
    BY <1>3 DEF Unanswered, ItemReadback, BindLeave
  <2>2. lock # p => disk' = disk
    BY <1>3, Located DEF Unanswered, ItemReadback, BindLeave, TypeOK
  <2> QED BY <1>1, <2>1, <2>2, LeaveStep
<1>4. CASE BindLook(p)
  <2>1. lock = p /\ pc[p] = "look"
    BY <1>4, Located DEF BindLook
  <2>2. CASE LeaveUnchanged(p)
    BY <2>1, <2>2, LeaveStep
  <2>3. CASE LeaveWith(p, Found(call[p], "provider_existing_verified"))
    BY <2>1, <2>3, RecordStep DEF LeaveWith
  <2> QED BY <1>1, <1>4, <2>2, <2>3 DEF BindLook
<1>5. CASE BindAcked(p)
  <2>1. /\ lock = p /\ pc[p] = "answer"
        /\ copy'[p] = Record(copy[p], call[p].key,
                             Found(call[p], "applied_pending_readback"))
    BY <1>5, Located DEF BindAcked, Answered, TypeOK
  <2> QED BY <1>5, <2>1, RecordStep DEF BindAcked
<1>6. CASE CommentNote(p) \/ Mark(p)
  <2>1. call[p] \in Call /\ call[p].key \in Keys /\ pc[p] \in {"note", "mark"}
    BY <1>6, Located, CallTypes DEF CommentNote, Mark, Runs
  <2>2. /\ disk.receipts[call[p].key] # NoReceipt
        /\ disk.receipts[call[p].key].mutation = call[p].mutation
    BY <2>1, Located DEF CallsAreNamed
  <2>3. disk' = Cas(disk, call[p],
                    IF pc[p] = "note" THEN "applied_pending_readback" ELSE "verified")
    BY <1>6 DEF CommentNote, Mark
  <2>4. /\ disk'.auths = disk.auths
        /\ \A k \in Keys \ {call[p].key} : disk'.receipts[k] = disk.receipts[k]
        /\ disk'.receipts[call[p].key] =
             Found(call[p], IF pc[p] = "note" THEN "applied_pending_readback"
                            ELSE "verified")
    <3>1. CASE pc[p] = "note"
      BY <1>0, <2>1, <2>2, <2>3, <3>1, CasValue
    <3>2. CASE pc[p] = "mark"
      BY <1>0, <2>1, <2>2, <2>3, <3>2, CasValue
    <3> QED BY <2>1, <3>1, <3>2
  <2> QED BY <2>1, <2>2, <2>4 DEF FileStep, Updated
<1>7. CASE Post(p) \/ ItemAcked(p) \/ CommentAcked(p) \/ CommentReadback(p)
           \/ BindCheck(p) \/ Crash(p)
  BY <1>1, <1>7 DEF Post, ItemAcked, CommentAcked, CommentReadback, BindCheck, Crash
<1> QED BY <1>2, <1>3, <1>4, <1>5, <1>6, <1>7 DEF Acts, Step

\* A receipt on disk keeps its mutation.
LEMMA NamesKeep ==
    ASSUME NEW p \in Processes, FileStep(p), NEW k \in Keys,
           disk.receipts[k] # NoReceipt, call[p] # NoCall => call[p] \in Call,
           pc[p] \in {"note", "mark"} => call[p] # NoCall
    PROVE  /\ disk'.receipts[k] # NoReceipt
           /\ disk'.receipts[k].mutation = disk.receipts[k].mutation
<1>1. CASE Updated(p, k)
  <2>1. call[p] \in Call
    BY <1>1 DEF Updated
  <2>2. LET noted == Found(call[p], "applied_pending_readback")
        IN  noted # NoReceipt /\ noted.mutation = call[p].mutation
    BY <2>1, FoundType
  <2>3. LET marked == Found(call[p], "verified")
        IN  marked # NoReceipt /\ marked.mutation = call[p].mutation
    BY <2>1, FoundType
  <2> QED BY <1>1, <2>2, <2>3 DEF Updated
<1> QED BY <1>1 DEF FileStep, Fresh

-----------------------------------------------------------------------------
(* The inductive invariant, one lemma per part.                            *)

HeldCopiesOf(p) ==
    Locked(p) =>
        /\ pc[p] \in {"look", "post", "answer", "readback"} =>
            disk.receipts[call[p].key] = NoReceipt
        /\ copy[p] = IF pc[p] = "readback"
                     THEN Record(disk, call[p].key, Found(call[p], "saved"))
                     ELSE disk

LEMMA HeldCopiesStep ==
    ASSUME GovernedInv, NEW p \in Processes, Acts(p), TypeOK'
    PROVE  HeldCopies'
<1>0. TypeOK /\ HeldCopies /\ Seats /\ Placed(p)
  BY TypeParts DEF GovernedInv, Basics
<1>1. ASSUME NEW q \in Processes, q # p PROVE HeldCopiesOf(q)'
  <2>1. /\ pc'[q] = pc[q] /\ call'[q] = call[q] /\ copy'[q] = copy[q]
        /\ lock = q => disk' = disk
    BY <1>0, <1>1, OthersStay
  <2>2. Locked(q) <=> lock = q
    BY <1>0 DEF TypeOK
  <2> QED BY <1>0, <2>1, <2>2 DEF HeldCopiesOf, HeldCopies, Locked, Runs
<1>2. HeldCopiesOf(p)'
  <2> USE DEF Steps
  <2>1. CASE Begins(p)
    <3>1. ASSUME NEW c \in Call, ItemEnter(p, c) PROVE HeldCopiesOf(p)'
      BY <1>0, <3>1, GotoType
      DEF HeldCopiesOf, ItemEnter, Enter, Locked, Runs, TypeOK, Seats
    <3>2. ASSUME NEW c \in Call, BindEnter(p, c) PROVE HeldCopiesOf(p)'
      BY <1>0, <3>2, GotoType
      DEF HeldCopiesOf, BindEnter, Enter, Locked, Runs, TypeOK, Seats
    <3>3. ASSUME NEW c \in Call, NEW a \in Auths, CommentAdmit(p, c, a)
          PROVE  HeldCopiesOf(p)'
      <4>1. ~Locked(p) /\ lock # p /\ call' \in {call, [call EXCEPT ![p] = c]}
        BY <1>0, <3>3, NoneAssumption DEF CommentAdmit, TypeOK
      <4>2. lock' # p
        BY <3>3, <4>1 DEF CommentAdmit
      <4> QED BY <4>2 DEF HeldCopiesOf, TypeOK
    <3> QED BY <2>1, <3>1, <3>2, <3>3 DEF Begins
  <2>2. CASE Post(p)
    BY <1>0, <2>2, GotoType DEF HeldCopies, HeldCopiesOf, Post, Locked, Runs
  <2>3. CASE ItemAcked(p)
    <3>1. /\ Locked(p) /\ pc[p] = "answer" /\ pc'[p] = "readback"
          /\ disk.receipts[call[p].key] = NoReceipt /\ copy[p] = disk
      BY <1>0, <2>3, GotoType DEF HeldCopies, ItemAcked, Answered, Locked
    <3> QED BY <1>0, <2>3, <3>1 DEF HeldCopiesOf, ItemAcked, TypeOK
  <2>4. CASE BindAcked(p)
    <3>1. pc'[p] = "leave" /\ disk' = copy'[p]
      BY <1>0, <2>4, GotoType DEF BindAcked
    <3> QED BY <3>1 DEF HeldCopiesOf
  <2>5. CASE BindLook(p)
    <3>1. CASE Goto(p, "post") /\ UNCHANGED <<disk, copy, lock, call>>
      BY <1>0, <2>5, <3>1, GotoType DEF HeldCopies, HeldCopiesOf, BindLook, Locked, Runs
    <3>2. CASE Return(p)
      BY <1>0, <3>2, ReturnType DEF HeldCopiesOf, Locked, Runs
    <3> QED BY <2>5, <3>1, <3>2 DEF BindLook
  <2>6. CASE BindLeave(p)
    BY <1>0, <2>6, Located, NoneAssumption
    DEF BindLeave, LeaveUnchanged, HeldCopiesOf, TypeOK
  <2>7. CASE \/ CommentAcked(p) \/ CommentReadback(p) \/ BindCheck(p)
             \/ CommentNote(p) \/ Mark(p)
    <3>1. lock # p
      BY <1>0, <2>7, Located DEF CommentAcked, CommentReadback, BindCheck, CommentNote, Mark
    <3>2. lock' = lock
      BY <2>7 DEF CommentAcked, CommentReadback, BindCheck, CommentNote, Mark
    <3> QED BY <3>1, <3>2 DEF HeldCopiesOf, TypeOK
  <2>8. CASE Unanswered(p) \/ ItemReadback(p) \/ Crash(p)
    BY <1>0, <2>8, ReturnType DEF Unanswered, ItemReadback, Crash, HeldCopiesOf, Locked, Runs
  <2> QED BY <2>1, <2>2, <2>3, <2>4, <2>5, <2>6, <2>7, <2>8 DEF Acts, Step
<1>3. \A q \in Processes : HeldCopiesOf(q)'
  BY <1>1, <1>2
<1> QED BY <1>3 DEF HeldCopies, HeldCopiesOf

\* A comment call that is past its admission was in the same call before.
LEMMA CommentGoesOn ==
    ASSUME TypeOK, NEW p \in Processes, Acts(p), Runs(p, "comment")'
    PROVE  \/ Runs(p, "comment") /\ call'[p] = call[p]
           \/ \E c \in Call, a \in Auths : CommentAdmit(p, c, a) /\ call'[p] = c
<1>0. Seats /\ Placed(p)
  BY TypeParts DEF Basics
<1>1. CASE call'[p] = call[p]
  BY <1>1 DEF Runs
<1>2. CASE Return(p)
  BY <1>0, <1>2, ReturnType DEF Runs
<1>3. CASE Begins(p)
  <2>1. ASSUME NEW c \in Call, ItemEnter(p, c) \/ BindEnter(p, c) PROVE FALSE
    BY <1>0, <2>1 DEF Seats, ItemEnter, BindEnter, Runs
  <2>2. ASSUME NEW c \in Call, NEW a \in Auths, CommentAdmit(p, c, a)
        PROVE  call'[p] = c \/ call'[p] = call[p]
    BY <1>0, <2>2 DEF Seats, CommentAdmit
  <2> QED BY <1>1, <1>3, <2>1, <2>2 DEF Begins
<1> QED BY <1>1, <1>2, <1>3 DEF Acts, Step, Post, ItemAcked, BindAcked, CommentAcked,
     Unanswered, ItemReadback, CommentReadback, BindLook, BindLeave, BindCheck,
     CommentNote, Mark, Crash
Reserves(p) == Runs(p, "comment") /\ pc[p] # "reread"

\* A process past its admission held the reservation of its key before.
LEMMA ReservesBefore ==
    ASSUME TypeOK, NEW p \in Processes, Acts(p), Reserves(p)'
    PROVE  \/ Reserves(p) /\ call'[p] = call[p]
           \/ /\ pc[p] = "idle" /\ pc'[p] = "post"
              /\ \E c \in Call, a \in Auths :
                    /\ CommentAdmit(p, c, a) /\ call'[p] = c
                    /\ disk.receipts[c.key] = NoReceipt
                    /\ disk' = Reserved(Consumed(a), c)
                    /\ KindOf[c.mutation] = "comment"
<1> USE DEF Steps
<1>0. Seats /\ Placed(p)
  BY TypeParts DEF Basics
<1>1. ASSUME NEW c \in Call, NEW a \in Auths, CommentAdmit(p, c, a), call'[p] = c
      PROVE  /\ pc[p] = "idle" /\ pc'[p] = "post"
             /\ disk.receipts[c.key] = NoReceipt
             /\ disk' = Reserved(Consumed(a), c)
             /\ KindOf[c.mutation] = "comment"
  <2>1. c # call[p]
    BY <1>0, <1>1, NothingAssumption DEF CommentAdmit, Placed, NoCall
  <2>2. pc'[p] # "reread"
    BY DEF Reserves
  <2> QED BY <1>0, <1>1, <2>1, <2>2, GotoType DEF CommentAdmit, Reserves
<1>2. CASE Runs(p, "comment") /\ call'[p] = call[p]
  <2>1. CASE pc[p] = "reread"
    <3>1. pc[p] # "idle" /\ lock # p
      BY <1>2, <2>1, Located
    <3>2. ~Begins(p)
      BY <2>1 DEF Begins, ItemEnter, BindEnter, CommentAdmit
    <3>3. ~ItemReadback(p) /\ (CommentReadback(p) => Return(p))
      BY <1>2, <2>1, Located DEF ItemReadback, CommentReadback
    <3>4. Return(p)
      BY <2>1, <3>2, <3>3 DEF Acts, Step, Post, ItemAcked, BindAcked, CommentAcked,
         Answered, Unanswered, BindLook, BindLeave, BindCheck, CommentNote, Mark, Crash
    <3> QED BY <1>0, <3>4, ReturnType DEF Reserves, Runs
  <2> QED BY <1>2, <2>1 DEF Reserves
<1> QED BY <1>1, <1>2, CommentGoesOn DEF Reserves

LEMMA OneReserverStep ==
    ASSUME GovernedInv, NEW p \in Processes, Acts(p)
    PROVE  OneReserver'
<1>0. TypeOK /\ OneReserver /\ CallsAreNamed
  BY DEF GovernedInv
<1>1. ASSUME NEW q \in Processes \ {p}, Reserves(q)'
      PROVE  Reserves(q) /\ call'[q] = call[q] /\ disk.receipts[call[q].key] # NoReceipt
  BY <1>0, <1>1, OthersStay DEF Reserves, Runs, CallsAreNamed
<1>2. ASSUME NEW q \in Processes \ {p}, Reserves(q)', Reserves(p)',
             call'[p].key = call'[q].key
      PROVE  FALSE
  <2>1. ~Reserves(p)
    BY <1>0, <1>1, <1>2, ReservesBefore DEF OneReserver, Reserves
  <2> QED BY <1>0, <1>1, <1>2, <2>1, ReservesBefore
<1>3. ASSUME NEW q \in Processes \ {p}, NEW r \in Processes \ {p},
             Reserves(q)', Reserves(r)', call'[q].key = call'[r].key
      PROVE  q = r
  BY <1>0, <1>1, <1>3 DEF OneReserver, Reserves
<1>4. \A q, r \in Processes :
        Reserves(q)' /\ Reserves(r)' /\ call'[q].key = call'[r].key => q = r
  BY <1>2, <1>3
<1> QED BY <1>4 DEF OneReserver, Reserves

ReservationOf(p) ==
    Runs(p, "comment") =>
        /\ pc[p] \in {"post", "answer", "note"} =>
            disk.receipts[call[p].key] = Started(call[p])
        /\ pc[p] = "post" => posts[Write(p)] = 0

LEMMA PostsChange ==
    ASSUME NEW p \in Processes, Acts(p)
    PROVE  posts' = posts \/ Post(p)
BY DEF Acts, Begins, ItemEnter, BindEnter, CommentAdmit, Step, ItemAcked, BindAcked,
   CommentAcked, Answered, Unanswered, ItemReadback, CommentReadback, BindLook,
   BindLeave, BindCheck, CommentNote, Mark, Crash, history

LEMMA ReservationsStep ==
    ASSUME GovernedInv, NEW p \in Processes, Acts(p), TypeOK'
    PROVE  Reservations'
<1> USE DEF Steps
<1>0. /\ TypeOK /\ OneReserver /\ CallsAreNamed /\ HeldCopies /\ Reservations
      /\ HistorySaved
  BY DEF GovernedInv
<1>1. FileStep(p) /\ Seats /\ Placed(p)
  BY <1>0, FileSteps, TypeParts DEF Basics
<1>2. ASSUME NEW q \in Processes, q # p PROVE ReservationOf(q)'
  <2> SUFFICES ASSUME Runs(q, "comment"), pc[q] \in {"post", "answer", "note"}
               PROVE  /\ disk'.receipts[call[q].key] = Started(call[q])
                      /\ pc[q] = "post" => posts'[Write(q)] = 0
    BY <1>0, <1>2, OthersStay DEF ReservationOf, Runs, Write
  <2>1. /\ call[q] \in Call /\ call[q].key \in Keys /\ Write(q) \in Writes
        /\ KindOf[call[q].mutation] = "comment"
    BY <1>0, CallTypes DEF Runs
  <2>2. /\ disk.receipts[call[q].key] = Started(call[q])
        /\ disk.receipts[call[q].key] # NoReceipt
        /\ disk.receipts[call[q].key].mutation = call[q].mutation
    <3>1. Started(call[q]) # NoReceipt /\ Started(call[q]).mutation = call[q].mutation
      BY <2>1, StartedType
    <3>2. disk.receipts[call[q].key] = Started(call[q])
      BY <1>0, <2>1 DEF Reservations
    <3> QED BY <3>1, <3>2
  <2>3. Reserves(q)
    BY DEF Reserves
  <2>4. ~Updated(p, call[q].key)
    <3> SUFFICES ASSUME pc[p] \in {"note", "mark"}, call[q].key = call[p].key,
                        call[p].mutation = call[q].mutation
                 PROVE  FALSE
      BY <2>2 DEF Updated
    <3>1. Runs(p, "comment")
      BY <1>0, <2>1, Located DEF Runs
    <3> QED BY <1>0, <1>2, <2>3, <3>1 DEF OneReserver, Reserves
  <2>5. disk'.receipts[call[q].key] = Started(call[q])
    BY <1>1, <2>1, <2>2, <2>4 DEF FileStep, Fresh
  <2>6. ASSUME pc[q] = "post" PROVE posts'[Write(q)] = 0
    <3>1. posts[Write(q)] = 0
      BY <1>0, <2>6 DEF Reservations
    <3>2. ASSUME Post(p) PROVE Write(p) # Write(q)
      <4> SUFFICES ASSUME Write(p) = Write(q) PROVE FALSE
        OBVIOUS
      <4>1. call[p].key = call[q].key /\ call[p].mutation = call[q].mutation
        BY DEF Write
      <4>2. Reserves(p)
        BY <1>0, <2>1, <3>2, <4>1, Located DEF Post, Reserves, Runs
      <4> QED BY <1>0, <1>2, <2>3, <4>1, <4>2 DEF OneReserver, Reserves
    <3> QED BY <1>0, <2>1, <3>1, <3>2, PostsChange DEF Post, TypeOK
  <2> QED BY <2>5, <2>6
<1>3. ReservationOf(p)'
  <2> SUFFICES ASSUME Runs(p, "comment")', pc'[p] \in {"post", "answer", "note"}
               PROVE  /\ disk'.receipts[call'[p].key] = Started(call'[p])
                      /\ pc'[p] = "post" => posts'[Write(p)'] = 0
    BY DEF ReservationOf
  <2>1. Reserves(p)'
    BY DEF Reserves
  <2>2. CASE pc[p] = "idle"
    <3>1. PICK c \in Call, a \in Auths :
            /\ CommentAdmit(p, c, a) /\ call'[p] = c /\ disk.receipts[c.key] = NoReceipt
            /\ disk' = Reserved(Consumed(a), c) /\ KindOf[c.mutation] = "comment"
      BY <1>0, <1>1, <2>1, <2>2, ReservesBefore DEF Reserves, Runs, Placed
    <3>2. Consumed(a) \in Ledger /\ c.key \in Keys /\ c.mutation \in Mutations
      BY <1>0 DEF Consumed, Ledger, TypeOK, Call
    <3>3. disk'.receipts[c.key] = Started(c)
      <4>1. Started(c) \in Receipt
        BY StartedType
      <4> QED BY <3>1, <3>2, <4>1, RecordValue DEF Reserved
    <3>4. <<c.key, c.mutation>> \in Writes /\ posts' = posts
      BY <3>1, <3>2 DEF Writes, CommentAdmit
    <3>5. posts[<<c.key, c.mutation>>] = 0
      <4>1. ~(posts[<<c.key, c.mutation>>] > 0)
        BY <1>0, <3>1, <3>4 DEF HistorySaved
      <4> QED BY <1>0, <3>4, <4>1 DEF TypeOK
    <3> QED BY <3>1, <3>3, <3>4, <3>5 DEF Write
  <2>3. CASE pc[p] # "idle"
    <3>1. Reserves(p) /\ call'[p] = call[p]
      BY <1>0, <2>1, <2>3, ReservesBefore
    <3>2. lock # p /\ ~Runs(p, "item") /\ ~Runs(p, "bind")
      BY <1>0, <3>1, Located DEF Reserves
    <3>3. CASE Post(p) \/ CommentAcked(p)
      BY <1>0, <1>1, <3>1, <3>3, GotoType
      DEF Reserves, Reservations, Post, CommentAcked, Answered
    <3>4. CASE Return(p)
      BY <1>1, <3>4, ReturnType
    <3>5. CASE CommentNote(p) \/ CommentReadback(p)
      BY <1>1, <3>4, <3>5, GotoType DEF CommentNote, CommentReadback
    <3> QED BY <1>0, <2>3, <3>1, <3>2, <3>3, <3>4, <3>5, Located
        DEF Acts, Begins, ItemEnter, BindEnter, CommentAdmit, Step, ItemAcked, BindAcked,
            Unanswered, ItemReadback, BindLook, BindLeave, BindCheck, Mark, Crash
  <2> QED BY <2>2, <2>3
<1>4. \A q \in Processes : ReservationOf(q)'
  BY <1>2, <1>3
<1> QED BY <1>4 DEF Reservations, ReservationOf
NamedCall(p) ==
    pc[p] \in {"leave", "check", "mark"} \/ Runs(p, "comment") =>
        /\ disk.receipts[call[p].key] # NoReceipt
        /\ disk.receipts[call[p].key].mutation = call[p].mutation

\* A receipt's mutation outlives every step (cf. the last part of ReceiptsKeep).
LEMMA NamesStay ==
    ASSUME GovernedInv, NEW p \in Processes, Acts(p), NEW k \in Keys,
           disk.receipts[k] # NoReceipt
    PROVE  /\ disk'.receipts[k] # NoReceipt
           /\ disk'.receipts[k].mutation = disk.receipts[k].mutation
<1>1. TypeOK /\ HeldCopies /\ CallsAreNamed
  BY DEF GovernedInv
<1>2. FileStep(p)
  BY <1>1, FileSteps
<1>3. call[p] # NoCall => call[p] \in Call
  BY <1>1, CallTypes
<1>4. pc[p] \in {"note", "mark"} => call[p] # NoCall
  BY <1>1, Located DEF Runs
<1> QED BY <1>2, <1>3, <1>4, NamesKeep

LEMMA CallsAreNamedStep ==
    ASSUME GovernedInv, NEW p \in Processes, Acts(p), TypeOK'
    PROVE  CallsAreNamed'
<1> USE DEF Steps
<1>0. TypeOK /\ CallsAreNamed /\ HeldCopies
  BY DEF GovernedInv
<1>1. Seats /\ Placed(p)
  BY <1>0, TypeParts DEF Basics
<1>2. ASSUME NEW q \in Processes, call'[q] = call[q], NamedCall(q),
             pc[q] \in {"leave", "check", "mark"} \/ Runs(q, "comment")
      PROVE  NamedCall(q)'
  <2>1. call[q].key \in Keys
    BY <1>0, <1>2, Located, CallTypes DEF Runs
  <2> QED BY <1>2, <2>1, NamesStay DEF NamedCall
<1>3. ASSUME NEW q \in Processes, q # p PROVE NamedCall(q)'
  <2>1. pc'[q] = pc[q] /\ call'[q] = call[q] /\ NamedCall(q)
    BY <1>0, <1>3, OthersStay DEF CallsAreNamed, NamedCall
  <2> QED BY <1>2, <2>1 DEF NamedCall, Runs
<1>4. NamedCall(p)'
  <2> SUFFICES ASSUME pc'[p] \in {"leave", "check", "mark"} \/ Runs(p, "comment")'
               PROVE  /\ disk'.receipts[call'[p].key] # NoReceipt
                      /\ disk'.receipts[call'[p].key].mutation = call'[p].mutation
    BY DEF NamedCall
  <2>0. NamedCall(p) /\ pc'[p] # "idle"
    BY <1>0 DEF CallsAreNamed, NamedCall, Runs, TypeOK
  <2>1. CASE Begins(p)
    <3>1. ASSUME NEW c \in Call, ItemEnter(p, c) PROVE FALSE
      BY <1>1, <3>1, GotoType DEF Seats, ItemEnter, Runs
    <3>2. ASSUME NEW c \in Call, BindEnter(p, c)
          PROVE  /\ disk'.receipts[call'[p].key] # NoReceipt
                 /\ disk'.receipts[call'[p].key].mutation = call'[p].mutation
      BY <1>1, <3>2, GotoType DEF Seats, BindEnter, Runs
    <3>3. ASSUME NEW c \in Call, NEW a \in Auths, CommentAdmit(p, c, a)
          PROVE  /\ disk'.receipts[call'[p].key] # NoReceipt
                 /\ disk'.receipts[call'[p].key].mutation = call'[p].mutation
      <4>1. call'[p] = c
        BY <1>1, <2>0, <3>3 DEF Seats, CommentAdmit, Placed
      <4>2. /\ Consumed(a) \in Ledger /\ Consumed(a).receipts = disk.receipts
            /\ c.key \in Keys /\ Started(c) \in Receipt
        <5>1. Started(c) \in Receipt
          BY StartedType
        <5> QED BY <1>0, <5>1 DEF Consumed, Ledger, TypeOK, Call
      <4>3. CASE disk' = Reserved(Consumed(a), c)
        <5>1. disk'.receipts[c.key] = Started(c)
          BY <4>2, <4>3, RecordValue DEF Reserved
        <5>2. Started(c) # NoReceipt /\ Started(c).mutation = c.mutation
          BY StartedType
        <5> QED BY <4>1, <5>1, <5>2
      <4>4. CASE /\ disk.receipts[c.key] # NoReceipt /\ disk' = Consumed(a)
                 /\ disk.receipts[c.key].mutation = c.mutation
        BY <4>1, <4>2, <4>4
      <4>5. c # call[p]
        BY <1>1, <3>3, NothingAssumption DEF CommentAdmit, Placed, NoCall
      <4> QED BY <3>3, <4>1, <4>3, <4>4, <4>5 DEF CommentAdmit
    <3> QED BY <2>1, <3>1, <3>2, <3>3 DEF Begins
  <2>2. CASE BindAcked(p)
    <3>1. /\ Runs(p, "bind") /\ call[p] \in Call /\ call[p].key \in Keys
          /\ lock = p /\ copy[p] \in Ledger
      BY <1>0, <2>2, Located, CallTypes DEF BindAcked, Answered, Runs
    <3>2. Found(call[p], "applied_pending_readback") \in Receipt
      BY <3>1, FoundType
    <3>3. disk'.receipts[call[p].key] = Found(call[p], "applied_pending_readback")
      BY <1>0, <2>2, <3>1, <3>2, RecordValue DEF BindAcked, TypeOK
    <3>4. /\ Found(call[p], "applied_pending_readback") # NoReceipt
          /\ Found(call[p], "applied_pending_readback").mutation = call[p].mutation
      BY <3>1, FoundType
    <3>5. call'[p] = call[p]
      BY <2>2 DEF BindAcked
    <3> QED BY <3>3, <3>4, <3>5
  <2>3. CASE Return(p)
    BY <1>1, <2>0, <2>3, ReturnType
  <2>4. CASE /\ call' = call
             /\ pc[p] \in {"leave", "check", "mark"} \/ Runs(p, "comment")
    BY <1>2, <2>0, <2>4 DEF NamedCall
  <2>5. CASE Post(p) \/ ItemAcked(p) \/ BindLook(p)
    BY <1>1, <2>3, <2>4, <2>5, GotoType
    DEF Post, ItemAcked, BindLook, Answered, Runs
  <2>6. CASE \/ CommentAcked(p) \/ CommentReadback(p) \/ BindLeave(p)
             \/ BindCheck(p) \/ CommentNote(p)
    BY <1>0, <2>3, <2>4, <2>6, Located
    DEF CommentAcked, CommentReadback, BindLeave, BindCheck, CommentNote
  <2> QED BY <2>1, <2>2, <2>3, <2>5, <2>6
      DEF Acts, Step, Unanswered, ItemReadback, Mark, Crash
<1>5. \A q \in Processes : NamedCall(q)'
  BY <1>3, <1>4
<1> QED BY <1>5 DEF CallsAreNamed, NamedCall

LEMMA HistoryStep ==
    ASSUME GovernedInv, NEW p \in Processes, Acts(p), TypeOK'
    PROVE  HistorySaved' /\ OneCallPerAuthorization'
<1>0. TypeOK /\ CallsAreNamed /\ HeldCopies /\ HistorySaved /\ OneCallPerAuthorization
  BY DEF GovernedInv
<1>1. disk.auths \subseteq disk'.auths
  BY <1>0, FileSteps DEF FileStep
<1>2. ASSUME NEW w \in Writes, KindOf[w[2]] = "comment", posts'[w] > 0
      PROVE  disk'.receipts[w[1]] # NoReceipt
  <2>0. w[1] \in Keys
    BY DEF Writes
  <2>1. CASE posts[w] > 0
    BY <1>0, <1>2, <2>0, <2>1, NamesStay DEF HistorySaved
  <2>2. CASE Post(p) /\ Write(p) = w
    <3>1. Runs(p, "comment") /\ call[p].key = w[1]
      BY <1>0, <1>2, <2>2, Located DEF Post, Runs, Write
    <3> QED BY <1>0, <2>0, <3>1, NamesStay DEF CallsAreNamed
  <2>3. posts'[w] = posts[w] \/ (Post(p) /\ Write(p) = w)
    BY <1>0, PostsChange DEF Post, TypeOK
  <2> QED BY <1>2, <2>1, <2>2, <2>3
<1>3. ASSUME NEW w \in acked', KindOf[w[2]] = "bind"
      PROVE  disk'.receipts[w[1]] # NoReceipt
  <2>0. w \in Writes /\ w[1] \in Keys
    BY DEF Writes, TypeOK
  <2>1. CASE w \in acked
    BY <1>0, <1>3, <2>0, <2>1, NamesStay DEF HistorySaved
  <2>2. CASE w \notin acked
    <3>1. Answered(p) /\ w = Write(p)
      BY <2>2 DEF Acts, Begins, ItemEnter, BindEnter, CommentAdmit, Step, Post, ItemAcked,
         BindAcked, CommentAcked, Answered, Unanswered, ItemReadback, CommentReadback,
         BindLook, BindLeave, BindCheck, CommentNote, Mark, Crash, history
    <3>2. Runs(p, "bind") /\ lock = p /\ copy[p] \in Ledger /\ call[p].key = w[1]
      BY <1>0, <1>3, <3>1, Located DEF Answered, Runs, Write
    <3>3. BindAcked(p)
      <4>1. pc[p] = "answer" /\ ~Runs(p, "item") /\ ~Runs(p, "comment")
        BY <1>0, <3>1, <3>2, Located DEF Answered
      <4>2. ~Unanswered(p)
        BY <2>2 DEF Unanswered, history
      <4>3. ~Crash(p) /\ ~Begins(p)
        BY <2>2, <4>1 DEF Crash, Begins, ItemEnter, BindEnter, CommentAdmit, history
      <4> QED BY <4>1, <4>2, <4>3 DEF Acts, Step, Post, ItemAcked, CommentAcked,
           ItemReadback, CommentReadback, BindLook, BindLeave, BindCheck, CommentNote, Mark
    <3>4. /\ call[p] \in Call
          /\ Found(call[p], "applied_pending_readback") \in Receipt
          /\ Found(call[p], "applied_pending_readback") # NoReceipt
      <4>1. call[p] \in Call
        BY <1>0, <3>2, CallTypes DEF Runs
      <4> QED BY <4>1, FoundType
    <3> QED BY <1>0, <2>0, <3>2, <3>3, <3>4, RecordValue DEF BindAcked, TypeOK
  <2> QED BY <2>1, <2>2
<1>4. ASSUME NEW a \in Auths
      PROVE  (admitted'[a] > 0 => a \in disk'.auths) /\ admitted'[a] <= 1
  <2>1. CASE admitted' = admitted
    BY <1>0, <1>1, <2>1 DEF HistorySaved, OneCallPerAuthorization
  <2>2. ASSUME NEW c \in Call, NEW b \in Auths, CommentAdmit(p, c, b)
        PROVE  (admitted'[a] > 0 => a \in disk'.auths) /\ admitted'[a] <= 1
    <3>1. admitted[b] = 0
      BY <1>0, <2>2 DEF CommentAdmit, HistorySaved, TypeOK
    <3>2. b \in disk'.auths
      <4>1. /\ b \in Consumed(b).auths /\ Consumed(b) \in Ledger /\ c.key \in Keys
            /\ Started(c) \in Receipt
        <5>1. Started(c) \in Receipt
          BY StartedType
        <5> QED BY <1>0, <5>1 DEF Consumed, Ledger, TypeOK, Call
      <4> QED BY <2>2, <4>1, RecordValue DEF CommentAdmit, Reserved
    <3>3. admitted' = [admitted EXCEPT ![b] = admitted[b] + 1]
      BY <2>2 DEF CommentAdmit
    <3>4. CASE a = b
      BY <1>0, <3>1, <3>2, <3>3, <3>4 DEF TypeOK
    <3>5. CASE a # b
      BY <1>0, <1>1, <3>3, <3>5 DEF TypeOK, HistorySaved, OneCallPerAuthorization
    <3> QED BY <3>4, <3>5
  <2>3. ~(\E c \in Call, b \in Auths : CommentAdmit(p, c, b)) => admitted' = admitted
    BY DEF Acts, Begins, ItemEnter, BindEnter, Step, Post, ItemAcked, BindAcked,
       CommentAcked, Answered, Unanswered, ItemReadback, CommentReadback, BindLook,
       BindLeave, BindCheck, CommentNote, Mark, Crash, history
  <2> QED BY <2>1, <2>2, <2>3
<1> QED BY <1>2, <1>3, <1>4 DEF HistorySaved, OneCallPerAuthorization
LEMMA PostsOnceStep ==
    ASSUME GovernedInv, NEW p \in Processes, Acts(p)
    PROVE  CommentsPostOnce'
<1>0. TypeOK /\ Reservations /\ CommentsPostOnce
  BY DEF GovernedInv
<1>1. ASSUME NEW w \in Writes, KindOf[w[2]] = "comment" PROVE posts'[w] <= 1
  <2>1. CASE Post(p) /\ Write(p) = w
    <3>1. Runs(p, "comment")
      BY <1>0, <1>1, <2>1, Located DEF Post, Runs, Write
    <3>2. posts[w] = 0
      BY <1>0, <2>1, <3>1 DEF Reservations, Post
    <3> QED BY <1>0, <2>1, <3>2 DEF Post, TypeOK
  <2>2. CASE posts'[w] = posts[w]
    BY <1>0, <1>1, <2>2 DEF CommentsPostOnce
  <2> QED BY <1>0, <2>1, <2>2, PostsChange DEF Post, TypeOK
<1> QED BY <1>1 DEF CommentsPostOnce

LEMMA GovernedInit == Init => GovernedInv
<1> SUFFICES ASSUME Init PROVE GovernedInv
  OBVIOUS
<1>1. TypeOK
  BY InitType
<1>2. \A p \in Processes : pc[p] = "idle" /\ call[p] = NoCall /\ ~Locked(p)
  BY DEF Init, Locked, Runs
<1>3. \A w \in Writes : posts[w] = 0
  BY DEF Init
<1>4. \A a \in Auths : admitted[a] = 0
  BY DEF Init
<1> QED
  BY <1>1, <1>2, <1>3, <1>4
  DEF GovernedInv, HeldCopies, Reservations, OneReserver, CallsAreNamed, HistorySaved,
      CommentsPostOnce, OneCallPerAuthorization, Runs, Init

\* A step that touches neither the file nor a call leaves the invariant alone.
LEMMA QuietStep ==
    ASSUME GovernedInv, TypeOK',
           UNCHANGED <<disk, copy, lock, pc, call, posts, acked, admitted>>
    PROVE  GovernedInv'
BY DEF GovernedInv, HeldCopies, Reservations, OneReserver, CallsAreNamed, HistorySaved,
       CommentsPostOnce, OneCallPerAuthorization, Runs, Locked, Write

LEMMA GovernedStep == GovernedInv /\ [Next]_vars => GovernedInv'
<1> SUFFICES ASSUME GovernedInv, [Next]_vars PROVE GovernedInv'
  OBVIOUS
<1>1. TypeOK'
  BY TypeStep DEF GovernedInv
<1>2. ASSUME NEW p \in Processes, Acts(p) PROVE GovernedInv'
  BY <1>1, <1>2, HeldCopiesStep, ReservationsStep, OneReserverStep, CallsAreNamedStep,
     HistoryStep, PostsOnceStep DEF GovernedInv
<1>3. ASSUME NEW w \in Writes, Land(w) PROVE GovernedInv'
  BY <1>1, <1>3, QuietStep DEF Land, history
<1>4. CASE UNCHANGED vars
  BY <1>1, <1>4, QuietStep DEF vars
<1> QED BY <1>2, <1>3, <1>4, NextActs

-----------------------------------------------------------------------------
(* The theorems.                                                           *)

\* The inductive invariant.
THEOREM GovernedInvariant == Spec => []GovernedInv
BY GovernedInit, GovernedStep, PTL DEF Spec

\* No crash, lost answer, retry or fresh authorization sends a comment twice.
THEOREM CommentsArePostedOnce == Spec => []CommentsPostOnce
<1>1. GovernedInv => CommentsPostOnce
  BY DEF GovernedInv
<1> QED BY <1>1, GovernedInvariant, PTL

\* An authorization lets one call through.
THEOREM AuthorizationsServeOnce == Spec => []OneCallPerAuthorization
<1>1. GovernedInv => OneCallPerAuthorization
  BY DEF GovernedInv
<1> QED BY <1>1, GovernedInvariant, PTL

\* Two processes never have writes of one key under way together.
LEMMA WritersDiffer == GovernedInv => OneWriterPerKey
<1> SUFFICES ASSUME GovernedInv, NEW p \in Processes, NEW q \in Processes,
                    pc[p] \in {"post", "answer"}, pc[q] \in {"post", "answer"},
                    call[p].key = call[q].key
             PROVE  p = q
  BY DEF OneWriterPerKey
<1>0. TypeOK /\ HeldCopies /\ OneReserver /\ CallsAreNamed
  BY DEF GovernedInv
<1>1. ASSUME NEW r \in Processes, pc[r] \in {"post", "answer"}
      PROVE  Runs(r, "comment") \/ (lock = r /\ Locked(r))
  <2>1. call[r] # NoCall /\ KindOf[call[r].mutation] \in Kinds
    BY <1>0, <1>1, Located, CallTypes
  <2>2. Runs(r, "item") \/ Runs(r, "bind") \/ Runs(r, "comment")
    BY <2>1 DEF Runs, Kinds
  <2> QED BY <1>0, <1>1, <2>2, Located DEF TypeOK
<1>2. CASE lock = p /\ Locked(p) /\ lock = q
  BY <1>2
<1>3. CASE Runs(p, "comment") /\ Runs(q, "comment")
  BY <1>0, <1>3 DEF OneReserver
<1>4. CASE Runs(p, "comment") /\ lock = q /\ Locked(q)
  BY <1>0, <1>4 DEF HeldCopies, CallsAreNamed
<1>5. CASE lock = p /\ Locked(p) /\ Runs(q, "comment")
  BY <1>0, <1>5 DEF HeldCopies, CallsAreNamed
<1> QED BY <1>1, <1>2, <1>3, <1>4, <1>5

\* No two processes have writes of one key under way: each kind of flow keeps
\* the others out, by the lock it holds or by the receipt it has put on disk.
THEOREM WritersAreAlone == Spec => []OneWriterPerKey
BY WritersDiffer, GovernedInvariant, PTL

\* No process undoes what another saved.
Keeps ==
    \A k \in Keys :
        LET old == disk.receipts[k]
            new == disk'.receipts[k]
        IN  old # NoReceipt =>
                /\ new # NoReceipt
                /\ new.mutation = old.mutation
                /\ old.id => new.id
                /\ old.status = "verified" => new.status = "verified"

LEMMA KeepsStep == GovernedInv /\ [Next]_vars => Keeps
<1> SUFFICES ASSUME GovernedInv, [Next]_vars PROVE Keeps
  OBVIOUS
<1>0. TypeOK /\ HeldCopies /\ CallsAreNamed /\ Reservations
  BY DEF GovernedInv
<1>1. ASSUME NEW p \in Processes, Acts(p) PROVE Keeps
  <2>1. FileStep(p)
    BY <1>0, <1>1, FileSteps
  <2>2. ASSUME NEW k \in Keys, Updated(p, k)
        PROVE  /\ disk'.receipts[k] # NoReceipt
               /\ disk'.receipts[k].mutation = disk.receipts[k].mutation
               /\ disk'.receipts[k].id = TRUE
               /\ disk.receipts[k].status = "verified"
                    => disk'.receipts[k].status = "verified"
    <3>1. call[p] \in Call
      BY <1>0, <2>2, Located, CallTypes DEF Updated, Runs
    <3>2. CASE pc[p] = "mark"
      <4>1. /\ Found(call[p], "verified") # NoReceipt
            /\ Found(call[p], "verified").mutation = call[p].mutation
            /\ Found(call[p], "verified").id = TRUE
            /\ Found(call[p], "verified").status = "verified"
        BY <3>1, FoundType
      <4> QED BY <2>2, <3>2, <4>1 DEF Updated
    <3>3. CASE pc[p] = "note"
      <4>1. disk.receipts[k] = Started(call[p])
        BY <1>0, <2>2, <3>3, Located DEF Updated, Reservations
      <4>2. LET new == Found(call[p], "applied_pending_readback")
            IN  new # NoReceipt /\ new.mutation = call[p].mutation /\ new.id = TRUE
        BY <3>1, FoundType
      <4>3. Started(call[p]).status # "verified"
        BY <3>1, StartedType
      <4> QED BY <2>2, <3>3, <4>1, <4>2, <4>3 DEF Updated
    <3> QED BY <2>2, <3>2, <3>3 DEF Updated
  <2> QED BY <2>1, <2>2 DEF FileStep, Fresh, Keeps
<1>2. ASSUME disk' = disk PROVE Keeps
  BY <1>2 DEF Keeps
<1> QED BY <1>1, <1>2, NextActs DEF Land, vars

\* A receipt on disk keeps its mutation and its provider id, and stays verified.
THEOREM ReceiptsAreKept == Spec => ReceiptsKeep
<1>1. GovernedInv /\ [Next]_vars => [Keeps]_vars
  BY KeepsStep
<1>2. ReceiptsKeep <=> [][Keeps]_vars
  BY DEF ReceiptsKeep, Keeps
<1> QED BY <1>1, <1>2, GovernedInvariant, PTL DEF Spec

\* A binding whose answer was received is on disk, so its write cannot go again.
LEMMA BindsStep == GovernedInv /\ [Next]_vars => ~Repeated("bind")
<1> SUFFICES ASSUME GovernedInv, [Next]_vars, NEW w \in acked,
                    KindOf[w[2]] = "bind", posts'[w] # posts[w]
             PROVE  FALSE
  BY DEF Repeated
<1>0. TypeOK /\ HeldCopies /\ HistorySaved
  BY DEF GovernedInv
<1>1. w \in Writes
  BY <1>0 DEF TypeOK
<1>2. PICK p \in Processes : Post(p)
  BY PostsChange, NextActs DEF Land, vars, history
<1>3. Write(p) = w
  BY <1>0, <1>1, <1>2 DEF Post, TypeOK
<1>4. Runs(p, "bind") /\ lock = p /\ call[p].key = w[1]
  BY <1>0, <1>2, <1>3, Located DEF Post, Runs, Write
<1>5. disk.receipts[w[1]] = NoReceipt
  BY <1>0, <1>2, <1>4 DEF HeldCopies, Post, TypeOK
<1> QED BY <1>0, <1>5 DEF HistorySaved

THEOREM AckedBindsAreNotRepeated == Spec => AckedBindsNeverRepeat
<1>1. GovernedInv /\ [Next]_vars => [~Repeated("bind")]_vars
  BY BindsStep
<1>2. AckedBindsNeverRepeat <=> [][~Repeated("bind")]_vars
  BY DEF AckedBindsNeverRepeat
<1> QED BY <1>1, <1>2, GovernedInvariant, PTL DEF Spec
-----------------------------------------------------------------------------
(* Item writes: where the code can lose the answer it has received.        *)

\* The process dies between the answer and the end of its section.
DiesUnsaved(p) == Runs(p, "item") /\ pc[p] = "readback" /\ Crash(p)

Keeping(p, w) == pc[p] = "readback" /\ Write(p) = w

ItemsHeld ==
    \A w \in acked : KindOf[w[2]] = "item" =>
        \/ disk.receipts[w[1]] # NoReceipt
        \/ \E p \in Processes : call[p] # NoCall /\ Keeping(p, w)

LEMMA KeeperGoesOn ==
    ASSUME GovernedInv, NEW p \in Processes, Acts(p), ~DiesUnsaved(p),
           NEW w \in Writes, KindOf[w[2]] = "item", call[p] # NoCall, Keeping(p, w)
    PROVE  disk'.receipts[w[1]] # NoReceipt
<1>0. TypeOK /\ HeldCopies
  BY DEF GovernedInv
<1>1. Runs(p, "item") /\ lock = p /\ Locked(p) /\ call[p] \in Call /\ call[p].key = w[1]
  <2>1. Runs(p, "item") /\ call[p].key = w[1]
    BY DEF Keeping, Write, Runs
  <2> QED BY <1>0, <2>1, Located, CallTypes DEF Locked, Runs
<1>2. ItemReadback(p)
  <2>1. ~Crash(p)
    BY <1>1 DEF DiesUnsaved, Keeping
  <2>2. pc[p] = "readback" /\ ~Runs(p, "comment")
    BY <1>0, <1>1, Located DEF Keeping
  <2> QED BY <2>1, <2>2
    DEF Acts, Begins, ItemEnter, BindEnter, CommentAdmit, Step, Post, ItemAcked,
        BindAcked, CommentAcked, Answered, Unanswered, CommentReadback, BindLook,
        BindLeave, BindCheck, CommentNote, Mark
<1>3. disk' = Record(disk, call[p].key, Found(call[p], "saved"))
  BY <1>0, <1>1, <1>2 DEF HeldCopies, Keeping, ItemReadback, LeaveUnchanged
<1>4. Found(call[p], "saved") \in Receipt /\ Found(call[p], "saved") # NoReceipt
  BY <1>1, FoundType
<1>5. w[1] \in Keys /\ disk \in Ledger
  BY <1>0 DEF Writes, TypeOK
<1> QED BY <1>1, <1>3, <1>4, <1>5, RecordValue

LEMMA ItemsHeldStep ==
    ASSUME GovernedInv, ItemsHeld, NEW p \in Processes, Acts(p), ~DiesUnsaved(p), TypeOK'
    PROVE  ItemsHeld'
<1>0. TypeOK /\ CallsAreNamed /\ HeldCopies
  BY DEF GovernedInv
<1> SUFFICES ASSUME NEW w \in acked', KindOf[w[2]] = "item"
             PROVE  \/ disk'.receipts[w[1]] # NoReceipt
                    \/ \E q \in Processes : call'[q] # NoCall /\ Keeping(q, w)'
  BY DEF ItemsHeld
<1>1. w \in Writes /\ w[1] \in Keys
  BY DEF Writes, TypeOK
<1>2. CASE w \in acked /\ disk.receipts[w[1]] # NoReceipt
  BY <1>0, <1>1, <1>2, NamesStay
<1>3. ASSUME w \in acked, NEW q \in Processes, call[q] # NoCall, Keeping(q, w)
      PROVE  \/ disk'.receipts[w[1]] # NoReceipt
             \/ call'[q] # NoCall /\ Keeping(q, w)'
  <2>1. CASE q = p
    BY <1>1, <1>3, <2>1, KeeperGoesOn
  <2>2. CASE q # p
    BY <1>0, <1>3, <2>2, OthersStay DEF Keeping, Write
  <2> QED BY <2>1, <2>2
<1>4. CASE w \notin acked
  <2>1. Answered(p) /\ w = Write(p)
    BY <1>4 DEF Acts, Begins, ItemEnter, BindEnter, CommentAdmit, Step, Post, ItemAcked,
       BindAcked, CommentAcked, Answered, Unanswered, ItemReadback, CommentReadback,
       BindLook, BindLeave, BindCheck, CommentNote, Mark, Crash, history
  <2>2. Runs(p, "item") /\ pc[p] = "answer"
    BY <1>0, <2>1, Located DEF Answered, Runs, Write
  <2>3. ItemAcked(p)
    <3>1. ~Runs(p, "bind") /\ ~Runs(p, "comment")
      BY <1>0, <2>2, Located
    <3>2. ~Unanswered(p) /\ ~Crash(p) /\ ~Begins(p)
      BY <1>4, <2>2 DEF Unanswered, Crash, Begins, ItemEnter, BindEnter, CommentAdmit, history
    <3> QED BY <2>2, <3>1, <3>2 DEF Acts, Step, Post, BindAcked, CommentAcked,
         ItemReadback, CommentReadback, BindLook, BindLeave, BindCheck, CommentNote, Mark
  <2>4. pc'[p] = "readback" /\ call' = call
    BY <1>0, <2>3 DEF ItemAcked, Goto, TypeOK
  <2> QED BY <2>1, <2>2, <2>4 DEF Keeping, Write, Runs
<1> QED BY <1>2, <1>3, <1>4 DEF ItemsHeld

LEMMA ItemsHeldInvariant ==
    Spec /\ [][\A p \in Processes : ~DiesUnsaved(p)]_vars => []ItemsHeld
<1>1. Init => ItemsHeld
  BY DEF Init, ItemsHeld
<1>2. GovernedInv /\ ItemsHeld /\ [Next]_vars /\ [\A p \in Processes : ~DiesUnsaved(p)]_vars
        => ItemsHeld'
  <2> SUFFICES ASSUME GovernedInv, ItemsHeld, [Next]_vars,
                      [\A p \in Processes : ~DiesUnsaved(p)]_vars
               PROVE  ItemsHeld'
    OBVIOUS
  <2>1. TypeOK'
    BY TypeStep DEF GovernedInv
  <2>2. CASE UNCHANGED <<disk, pc, call, acked>>
    BY <2>2 DEF ItemsHeld, Keeping, Write
  <2>3. CASE ~UNCHANGED <<disk, pc, call, acked>>
    <3>1. PICK p \in Processes : Acts(p)
      BY <2>3, NextActs DEF Land, history, vars
    <3>2. ~DiesUnsaved(p)
      BY <2>3 DEF vars
    <3> QED BY <2>1, <3>1, <3>2, ItemsHeldStep
  <2> QED BY <2>2, <2>3
<1> QED BY <1>1, <1>2, GovernedInvariant, PTL DEF Spec

\* Unless a process dies after it has the answer and before it leaves the ledger's
\* lock, an answered item write is never sent again: that one window is all that
\* keeps the comment at client.py:1729 from being true.
THEOREM OnlyADeathRepeatsItems ==
    Spec /\ [][\A p \in Processes : ~DiesUnsaved(p)]_vars => AckedItemsNeverRepeat
<1>1. GovernedInv /\ ItemsHeld /\ [Next]_vars => ~Repeated("item")
  <2> SUFFICES ASSUME GovernedInv, ItemsHeld, [Next]_vars, NEW w \in acked,
                      KindOf[w[2]] = "item", posts'[w] # posts[w]
               PROVE  FALSE
    BY DEF Repeated
  <2>0. TypeOK /\ HeldCopies
    BY DEF GovernedInv
  <2>1. w \in Writes
    BY <2>0 DEF TypeOK
  <2>2. PICK p \in Processes : Post(p)
    BY PostsChange, NextActs DEF Land, vars, history
  <2>3. Write(p) = w
    BY <2>0, <2>1, <2>2 DEF Post, TypeOK
  <2>4. Runs(p, "item") /\ lock = p /\ call[p].key = w[1]
    BY <2>0, <2>2, <2>3, Located DEF Post, Runs, Write
  <2>5. disk.receipts[w[1]] = NoReceipt
    BY <2>0, <2>2, <2>4 DEF HeldCopies, Post, TypeOK
  <2>6. PICK q \in Processes : call[q] # NoCall /\ Keeping(q, w)
    BY <2>5 DEF ItemsHeld
  <2>7. lock = q
    BY <2>0, <2>6, Located DEF Keeping, Write, Runs
  <2> QED BY <2>2, <2>4, <2>6, <2>7 DEF Keeping, Post
<1>2. GovernedInv /\ ItemsHeld /\ [Next]_vars => [~Repeated("item")]_vars
  BY <1>1
<1>3. AckedItemsNeverRepeat <=> [][~Repeated("item")]_vars
  BY DEF AckedItemsNeverRepeat
<1> QED BY <1>2, <1>3, ItemsHeldInvariant, GovernedInvariant, PTL DEF Spec

-----------------------------------------------------------------------------
(* The safety half of CallsEnd: a call only goes on, and who waits for the *)
(* lock is waited for by nobody.                                           *)

\* How many steps a call has before it at most.
StepsLeft(step) ==
    CASE step = "idle" -> 0
      [] step = "look" -> 6
      [] step = "post" -> 5
      [] step = "answer" -> 4
      [] step \in {"note", "leave"} -> 3
      [] step \in {"readback", "check"} -> 2
      [] step \in {"mark", "reread"} -> 1
      [] OTHER -> 0

CallGoesOn(p) ==
    pc[p] # "idle" => pc'[p] = pc[p] \/ StepsLeft(pc'[p]) < StepsLeft(pc[p])

\* A process about to enter a section is outside of all others: the holder of the
\* lock has only steps before it that need no lock.
WaitersHoldNothing ==
    \A p \in Processes : pc[p] \in {"note", "mark"} => lock # p

LEMMA WorkGoesOn ==
    ASSUME TypeOK, NEW p \in Processes, Step(p) \/ Crash(p)
    PROVE  CallGoesOn(p)
<1>1. pc[p] \in Steps /\ p \in DOMAIN pc
  BY DEF TypeOK
<1>2. CASE pc'[p] = "idle"
  BY <1>1, <1>2 DEF CallGoesOn, StepsLeft, Steps
<1>3. CASE Crash(p) \/ Unanswered(p) \/ ItemReadback(p) \/ Mark(p)
  BY <1>1, <1>2, <1>3 DEF Crash, Unanswered, ItemReadback, Mark, Return, Goto
<1>4. CASE Post(p) \/ ItemAcked(p) \/ BindAcked(p) \/ CommentAcked(p)
  BY <1>1, <1>4 DEF CallGoesOn, StepsLeft, Post, ItemAcked, BindAcked, CommentAcked,
     Answered, Goto
<1>5. CASE CommentNote(p) \/ BindLeave(p)
  BY <1>1, <1>5 DEF CallGoesOn, StepsLeft, CommentNote, BindLeave, Goto
<1>6. CASE CommentReadback(p)
  <2>1. \/ pc[p] = "readback" /\ pc'[p] = "mark"
        \/ pc'[p] = "idle"
    BY <1>1, <1>6 DEF CommentReadback, Return, Goto
  <2> QED BY <1>2, <2>1 DEF CallGoesOn, StepsLeft
<1>7. CASE BindLook(p)
  <2>1. /\ pc[p] = "look"
        /\ pc'[p] \in {"post", "idle"}
    BY <1>1, <1>7 DEF BindLook, Return, Goto
  <2> QED BY <1>2, <2>1 DEF CallGoesOn, StepsLeft
<1>8. CASE BindCheck(p)
  <2>1. /\ pc[p] = "check"
        /\ pc'[p] \in {"mark", "idle"}
    BY <1>1, <1>8 DEF BindCheck, Return, Goto
  <2> QED BY <1>2, <2>1 DEF CallGoesOn, StepsLeft
<1> QED BY <1>3, <1>4, <1>5, <1>6, <1>7, <1>8 DEF Step

LEMMA CallStep ==
    ASSUME TypeOK, [Next]_vars, NEW p \in Processes
    PROVE  CallGoesOn(p)
<1>1. CASE pc' = pc
  BY <1>1 DEF CallGoesOn
<1>2. CASE pc' # pc
  <2>1. PICK q \in Processes : Acts(q)
    BY <1>2, NextActs DEF Land, vars
  <2>2. CASE q # p
    BY <2>1, <2>2, OthersStay DEF CallGoesOn
  <2>3. CASE q = p /\ Begins(p)
    BY <2>3 DEF Begins, ItemEnter, BindEnter, CommentAdmit, CallGoesOn
  <2> QED BY <2>1, <2>2, <2>3, WorkGoesOn DEF Acts
<1> QED BY <1>1, <1>2

\* A governed call ends after at most six steps of its own, the waits at the lock
\* among them, and a process that waits for the lock holds none: since a dead
\* process leaves no lock behind, the holder is a process that is going on to its
\* end (client.py:1311-1760, 1872-1893).
THEOREM CallsAreBounded ==
    Spec => /\ []WaitersHoldNothing
            /\ [][\A p \in Processes : CallGoesOn(p)]_vars
<1>1. TypeOK => WaitersHoldNothing
  BY Located DEF WaitersHoldNothing
<1>2. TypeOK /\ [Next]_vars => \A p \in Processes : CallGoesOn(p)
  BY CallStep
<1> QED BY <1>1, <1>2, GovernedTypeCorrect, PTL DEF Spec
=============================================================================
