----------------------- MODULE ClassicExecutorProofs -----------------------
(***************************************************************************)
(* Theorems about ClassicExecutor for every number of processes, mutations *)
(* and authorizations.                                                     *)
(***************************************************************************)
EXTENDS ClassicExecutor, TLAPS

-----------------------------------------------------------------------------
(* Receipts.                                                               *)

LEMMA NoReceiptIsNone == NoReceipt \notin Receipt
BY DEF NoReceipt, Receipt

LEMMA StartedType ==
    ASSUME NEW m \in Mutations
    PROVE  /\ Started(m) \in Receipt /\ Started(m) # NoReceipt
           /\ Started(m).mutation = m
           /\ Started(m).status = "attempt_started"
           /\ Started(m).applied = FALSE
<1>1. Started(m) \in Receipt
  BY DEF Started, Receipt
<1> QED BY <1>1, NoReceiptIsNone DEF Started

LEMMA MovedType ==
    ASSUME receipt \in Receipt,
           NEW s \in {"rejected_not_applied"} \union Acknowledged
    PROVE  /\ Moved(s) \in Receipt /\ Moved(s) # NoReceipt
           /\ Moved(s).mutation = receipt.mutation
           /\ Moved(s).status = s
           /\ Moved(s).applied = receipt.applied
<1>1. Moved(s) \in Receipt
  BY DEF Moved, Receipt
<1>2. Moved(s).mutation = receipt.mutation /\ Moved(s).status = s
      /\ Moved(s).applied = receipt.applied
  BY DEF Moved, Receipt
<1> QED BY <1>1, <1>2, NoReceiptIsNone

LEMMA NotedType ==
    ASSUME receipt \in Receipt, NEW metadata \in BOOLEAN, NEW applied \in BOOLEAN,
           NEW s \in {"rejected_not_applied"} \union Acknowledged
    PROVE  /\ Noted(s, metadata, applied) \in Receipt
           /\ Noted(s, metadata, applied) # NoReceipt
           /\ Noted(s, metadata, applied).mutation = receipt.mutation
           /\ Noted(s, metadata, applied).status = s
           /\ Noted(s, metadata, applied).applied = applied
<1>1. Moved(s) \in Receipt /\ Moved(s).mutation = receipt.mutation
      /\ Moved(s).status = s
  BY MovedType
<1>2. Noted(s, metadata, applied) \in Receipt
  BY <1>1, Zenon DEF Noted, Receipt
<1>3. /\ Noted(s, metadata, applied).mutation = receipt.mutation
      /\ Noted(s, metadata, applied).status = s
      /\ Noted(s, metadata, applied).applied = applied
  BY <1>1 DEF Noted, Receipt
<1> QED BY <1>2, <1>3, NoReceiptIsNone

LEMMA NotedCas ==
    ASSUME TypeOK, NEW p \in Processes,
           NEW metadata \in BOOLEAN, NEW applied \in BOOLEAN,
           NEW s \in {"rejected_not_applied"} \union Acknowledged,
           NotedAs(p, s, metadata, applied)
    PROVE  receipt' \in Receipt \union {NoReceipt}
BY NotedType DEF NotedAs, Cas, TypeOK

LEMMA SettledType ==
    ASSUME receipt \in Receipt, NEW p \in Processes,
           receipt.status \in Acknowledged
    PROVE  /\ Settled(p) \in Receipt
           /\ Settled(p).mutation = receipt.mutation
           /\ Settled(p).status \in Acknowledged \ {"applied_pending_readback"}
              \/ Settled(p) = receipt
           /\ receipt.applied => Settled(p).applied
<1> DEFINE r == [Moved(Unproven) EXCEPT !.applied = TRUE]
<1>1. r \in Receipt /\ r.mutation = receipt.mutation
      /\ r.status = Unproven /\ r.applied
  <2>1. Moved(Unproven) \in Receipt /\ Moved(Unproven).mutation = receipt.mutation
        /\ Moved(Unproven).status = Unproven
    BY MovedType DEF Acknowledged, Unproven
  <2>2. r \in Receipt
    BY <2>1, Zenon DEF Receipt
  <2> QED BY <2>1, <2>2 DEF Receipt
<1>2. \A t \in {"verified", Unproven} :
        /\ Moved(t) \in Receipt /\ Moved(t).mutation = receipt.mutation
        /\ Moved(t).status = t /\ Moved(t).applied = receipt.applied
  BY MovedType DEF Acknowledged, Unproven
<1> HIDE DEF r
<1>3. Settled(p) \in {Moved("verified"), receipt, Moved(Unproven), r}
  BY DEF Settled, r
<1>4. "verified" \in Acknowledged \ {"applied_pending_readback"}
      /\ Unproven \in Acknowledged \ {"applied_pending_readback"}
  BY DEF Acknowledged, Unproven
<1> QED BY <1>1, <1>2, <1>3, <1>4

\* What the sender of the key's write notes is what it learnt.
LEMMA NotedValue ==
    ASSUME receipt \in Receipt, NEW p \in Processes,
           receipt.mutation = call[p].mutation,
           NEW metadata \in BOOLEAN, NEW applied \in BOOLEAN,
           NEW s \in {"rejected_not_applied"} \union Acknowledged,
           NotedAs(p, s, metadata, applied)
    PROVE  /\ receipt' # NoReceipt
           /\ receipt'.mutation = receipt.mutation
           /\ receipt'.status = s
BY NotedType, NoReceiptIsNone DEF NotedAs, Cas

LEMMA EntryType ==
    ASSUME TypeOK, NEW p \in Processes, pc[p] = "append"
    PROVE  Entry(p) \in Event
<1>1. call[p] \in Reconciliation /\ call[p].learnt \in Dispositions
  BY DEF TypeOK, Reconciling
<1> QED BY <1>1
  DEF TypeOK, Entry, Event, Reconciliation, Unfinished

\* What a process learns keeps the type of what it carries.
LEMMA LearnType ==
    ASSUME NEW c, NEW f, NEW d, d = [c EXCEPT !.learnt = f]
    PROVE  /\ c \in Call /\ f \in Findings => d \in Call /\ d.mutation = c.mutation
                /\ d.op = c.op /\ d.prior = c.prior /\ d.learnt = f
           /\ c \in Reconciliation /\ f \in Dispositions => d \in Reconciliation /\ d.op = c.op
                /\ d.auth = c.auth /\ d.prior = c.prior /\ d.learnt = f
BY DEF Call, Reconciliation

-----------------------------------------------------------------------------
(* Types.                                                                  *)

Placed(p) ==
    /\ pc[p] = "idle" => call[p] = None
    /\ Sending(p) \/ Proving(p) => call[p] \in Call
    /\ Reconciling(p) => call[p] \in Reconciliation
    /\ pc[p] = "append" => call[p].learnt \in Dispositions

LEMMA Placing ==
    ASSUME TypeOK, NEW p \in Processes, NEW s \in Steps,
           NEW c \in Call \union Reconciliation \union {None},
           pc' = [pc EXCEPT ![p] = s], call' = [call EXCEPT ![p] = c],
           s = "idle" => c = None,
           s \in {"send", "answer", "note", "readback", "settle"} => c \in Call,
           s \in {"archived", "active", "detail", "append"} =>
                c \in Reconciliation,
           s = "append" => c.learnt \in Dispositions
    PROVE  /\ pc' \in [Processes -> Steps]
           /\ call' \in [Processes -> Call \union Reconciliation \union {None}]
           /\ \A q \in Processes : Placed(q)'
<1>1. pc \in [Processes -> Steps]
      /\ call \in [Processes -> Call \union Reconciliation \union {None}]
  BY DEF TypeOK
<1>2. ASSUME NEW q \in Processes PROVE Placed(q)'
  <2>1. Placed(q)
    BY DEF TypeOK, Placed
  <2>2. CASE q = p
    BY <1>1, <2>2 DEF Placed, Sending, Proving, Reconciling
  <2>3. CASE q # p
    BY <1>1, <2>1, <2>3 DEF Placed, Sending, Proving, Reconciling
  <2> QED BY <2>2, <2>3
<1> QED BY <1>1, <1>2

LEMMA TypesKept ==
    TypeOK /\ [Next]_vars => TypeOK'
<1> SUFFICES ASSUME TypeOK, [Next]_vars PROVE TypeOK'
  OBVIOUS
<1> DEFINE Kept(p) ==
        /\ pc' \in [Processes -> Steps]
        /\ call' \in [Processes -> Call \union Reconciliation \union {None}]
        /\ \A q \in Processes : Placed(q)'
<1>1. ASSUME NEW p \in Processes, Begin(p) PROVE TypeOK'
  <2>1. ASSUME NEW m \in Mutations, Reserve(p, m) PROVE TypeOK'
    <3>1. Started(m) \in Receipt
      BY StartedType
    <3> DEFINE c == [op |-> "execute", mutation |-> m, prior |-> Started(m),
                     learnt |-> "nothing"]
    <3>2. c \in Call
      BY <3>1 DEF Call, Findings
    <3>3. Kept(p)
      BY <2>1, <3>2, Placing DEF Reserve, Goto, Steps
    <3> QED BY <2>1, <3>1, <3>3
      DEF TypeOK, Placed, Reserve, evidence, provider
  <2>2. ASSUME NEW m \in Mutations, Repeat(p, m) \/ Recover(p, m) PROVE TypeOK'
    <3>1. PICK op \in {"duplicate", "recover"} :
            receipt # NoReceipt /\ Rereads(p, m, op)
      BY <2>2 DEF Repeat, Recover
    <3> DEFINE c == [op |-> op, mutation |-> m, prior |-> receipt,
                     learnt |-> "nothing"]
    <3>2. c \in Call
      BY <3>1 DEF TypeOK, Call, Findings
    <3>3. Kept(p)
      BY <3>1, <3>2, Placing DEF Rereads, Goto, Steps
    <3> QED BY <3>1, <3>3 DEF TypeOK, Placed, Rereads, evidence, provider
  <2>3. ASSUME NEW a \in Auths, NEW kind \in {"archive", "update"},
               Reconcile(p, a, kind)
        PROVE  TypeOK'
    <3>1. CASE Matches(kind)
      <4> DEFINE c == [op |-> kind, auth |-> a, prior |-> receipt,
                       learnt |-> "nothing"]
      <4>1. c \in Reconciliation
        BY <3>1 DEF TypeOK, Matches, Reconciliation, Findings
      <4>2. Kept(p)
        <5>1. CASE kind = "archive"
          BY <2>3, <3>1, <4>1, <5>1, Placing
          DEF Reconcile, Frozen, Goto, Steps
        <5>2. CASE kind = "update"
          BY <2>3, <3>1, <4>1, <5>2, Placing
          DEF Reconcile, Frozen, Goto, Steps
        <5> QED BY <5>1, <5>2
      <4> QED BY <2>3, <4>2 DEF TypeOK, Placed, Reconcile, provider
    <3>2. CASE ~Matches(kind)
      BY <2>3, <3>2
      DEF TypeOK, Reconcile, provider, Sending, Proving, Reconciling
    <3> QED BY <3>1, <3>2
  <2> QED BY <1>1, <2>1, <2>2, <2>3 DEF Begin
<1>2. ASSUME NEW p \in Processes, Return(p) PROVE Kept(p)
  BY <1>2, Placing DEF Return, Goto, Steps
<1>3. ASSUME NEW p \in Processes, NEW f, NEW s \in Steps,
             Learn(p, f, s), pc[p] # "idle",
             \/ call[p] \in Call /\ f \in Findings /\ s \in {"note", "settle"}
             \/ /\ call[p] \in Reconciliation
                /\ f \in Dispositions /\ s = "append"
      PROVE  Kept(p)
  <2> DEFINE d == [call[p] EXCEPT !.learnt = f]
  <2>1. call[p] \in Call /\ f \in Findings => d \in Call
    BY LearnType
  <2>2. call[p] \in Reconciliation /\ f \in Dispositions =>
            d \in Reconciliation /\ d.learnt = f
    BY LearnType
  <2>3. call' = [call EXCEPT ![p] = d] /\ pc' = [pc EXCEPT ![p] = s]
    BY <1>3 DEF Learn, Goto
  <2> HIDE DEF d
  <2> QED BY <1>3, <2>1, <2>2, <2>3, Placing
<1>4. ASSUME NEW p \in Processes, Write(p) PROVE TypeOK'
  <2>1. CASE Send(p)
    <3>1. call' = [call EXCEPT ![p] = call[p]] /\ call[p] \in Call
      BY <2>1 DEF TypeOK, Send, Sending
    <3>2. Kept(p)
      BY <2>1, <3>1, Placing DEF Send, Goto, Steps
    <3>3. call[p].mutation \in Mutations
      BY <3>1 DEF Call
    <3> QED BY <2>1, <3>2, <3>3 DEF TypeOK, Placed, Send, evidence
  <2>2. CASE Answered(p)
    <3>1. call[p] \in Call
      BY <2>2 DEF TypeOK, Answered, Sending
    <3>2. Kept(p)
      BY <2>2, <3>1, <1>3 DEF Answered, Steps, Findings
    <3> QED BY <2>2, <3>2 DEF TypeOK, Placed, Answered, evidence, provider
  <2>3. CASE Refused(p)
    <3>1. call[p] \in Call
      BY <2>3 DEF TypeOK, Refused, Sending
    <3>2. Kept(p)
      BY <2>3, <3>1, <1>3 DEF Refused, Steps, Findings
    <3> QED BY <2>3, <3>2 DEF TypeOK, Placed, Refused, evidence
  <2>4. CASE Unanswered(p)
    BY <2>4, <1>2 DEF TypeOK, Placed, Unanswered, evidence, provider
  <2>5. CASE NoteAck(p)
    <3>1. call' = [call EXCEPT ![p] = call[p]] /\ call[p] \in Call
      BY <2>5 DEF TypeOK, NoteAck, Sending
    <3>2. Kept(p)
      BY <2>5, <3>1, Placing DEF NoteAck, Goto, Steps
    <3>3. receipt' \in Receipt \union {NoReceipt}
      BY <2>5, NotedCas DEF NoteAck, Acknowledged
    <3> QED BY <2>5, <3>2, <3>3
      DEF TypeOK, Placed, NoteAck, evidence, provider
  <2>6. CASE NoteInvalid(p)
    <3>1. receipt' \in Receipt \union {NoReceipt}
      BY <2>6, NotedCas DEF NoteInvalid, Acknowledged, Unproven
    <3> QED BY <2>6, <1>2, <3>1
      DEF TypeOK, Placed, NoteInvalid, evidence, provider
  <2>7. CASE NoteRejection(p)
    <3>1. receipt' \in Receipt \union {NoReceipt}
      BY <2>7, NotedCas DEF NoteRejection
    <3> QED BY <2>7, <1>2, <3>1
      DEF TypeOK, Placed, NoteRejection, evidence, provider
  <2> QED BY <1>4, <2>1, <2>2, <2>3, <2>4, <2>5, <2>6, <2>7 DEF Write
<1>5. ASSUME NEW p \in Processes, Prove(p) PROVE TypeOK'
  <2>1. CASE Confirm(p) \/ FailToConfirm(p)
    <3>1. call[p] \in Call /\ pc[p] # "idle"
      BY <2>1 DEF TypeOK, Confirm, FailToConfirm, Proving
    <3>2. Kept(p)
      BY <2>1, <3>1, <1>3 DEF Confirm, FailToConfirm, Steps, Findings
    <3> QED BY <2>1, <3>2
      DEF TypeOK, Placed, Confirm, FailToConfirm, evidence, provider
  <2>2. CASE GiveUp(p)
    BY <2>2, <1>2 DEF TypeOK, Placed, GiveUp, evidence, provider
  <2>3. CASE Settle(p)
    <3>1. receipt \in Receipt => Settled(p) \in Receipt
      <4> SUFFICES ASSUME receipt \in Receipt PROVE Settled(p) \in Receipt
        OBVIOUS
      <4>1. Moved("verified") \in Receipt /\ Moved(Unproven) \in Receipt
        BY MovedType DEF Acknowledged, Unproven
      <4>2. [Moved(Unproven) EXCEPT !.applied = TRUE] \in Receipt
        BY <4>1, Zenon DEF Receipt
      <4> QED BY <4>1, <4>2 DEF Settled
    <3>2. receipt' \in Receipt \union {NoReceipt}
      BY <2>3, <3>1 DEF TypeOK, Settle, Cas
    <3> QED BY <2>3, <1>2, <3>2
      DEF TypeOK, Placed, Settle, evidence, provider
  <2> QED BY <1>5, <2>1, <2>2, <2>3 DEF Prove
<1>6. ASSUME NEW p \in Processes, Observe(p) PROVE TypeOK'
  <2>1. call[p] \in Reconciliation
    BY <1>6 DEF TypeOK, Observe, LookArchived, LookActive, LookDetail,
       AppendEvent, Reconciling
  <2>2. CASE LookArchived(p) /\ pc'[p] = "active"
    <3>1. call' = [call EXCEPT ![p] = call[p]]
          /\ pc' = [pc EXCEPT ![p] = "active"]
      BY <2>2 DEF TypeOK, LookArchived, Goto, Learn
    <3>2. Kept(p)
      BY <2>1, <3>1, Placing DEF Steps
    <3> QED BY <2>2, <3>2 DEF TypeOK, Placed, LookArchived, evidence, provider
  <2>3. CASE \/ LookArchived(p) /\ pc'[p] # "active"
             \/ LookActive(p) \/ LookDetail(p)
    <3>1. PICK f \in Dispositions : Learn(p, f, "append") /\ pc[p] # "idle"
      BY <2>3 DEF TypeOK, LookArchived, LookActive, LookDetail, Goto, Dispositions
    <3>2. Kept(p)
      BY <2>1, <3>1, <1>3 DEF Steps
    <3> QED BY <2>3, <3>2
      DEF TypeOK, Placed, LookArchived, LookActive, LookDetail, evidence, provider
  <2>4. CASE AppendEvent(p)
    <3>1. Entry(p) \in Event
      BY <2>1, <2>4 DEF TypeOK, AppendEvent, Entry, Event, Reconciliation,
         Unfinished, Reconciling
    <3>2. events' \in Seq(Event)
      BY <2>4, <3>1 DEF TypeOK, AppendEvent
    <3> QED BY <2>4, <1>2, <3>2 DEF TypeOK, Placed, AppendEvent, provider
  <2> QED BY <1>6, <2>2, <2>3, <2>4 DEF Observe
<1>7. ASSUME NEW p \in Processes, Die(p) PROVE TypeOK'
  BY <1>7, <1>2 DEF TypeOK, Placed, Die, evidence, provider
<1>8. ASSUME NEW m \in Mutations, Land(m) \/ Others(m) PROVE TypeOK'
  BY <1>8 DEF TypeOK, Land, Others, evidence, Sending, Proving, Reconciling
<1>9. CASE UNCHANGED vars
  BY <1>9 DEF TypeOK, vars, Sending, Proving, Reconciling
<1> QED BY <1>1, <1>4, <1>5, <1>6, <1>7, <1>8, <1>9 DEF Next

-----------------------------------------------------------------------------
(* The inductive invariant.                                                *)

\* The parts of ClassicInv that speak of the receipt and the write.
Verdicts ==
    /\ NothingBeforeReservation
    /\ OneSender
    /\ OneWrite
    /\ SenderKnows
    /\ VerdictsAreTrue
    /\ ProvingIsAcknowledged

LEMMA VerdictsKept ==
    TypeOK /\ Verdicts /\ [Next]_vars => Verdicts'
<1> SUFFICES ASSUME TypeOK, Verdicts, [Next]_vars PROVE Verdicts'
  OBVIOUS
<1> USE DEF Verdicts, Sending, Proving
<1>1. ASSUME NEW p \in Processes, NEW m \in Mutations, Reserve(p, m)
      PROVE  Verdicts'
  <2>1. receipt' # NoReceipt /\ receipt'.status = "attempt_started"
        /\ receipt'.mutation = m
    BY <1>1, StartedType DEF Reserve
  <2>2. call'[p].mutation = m /\ call'[p].op = "execute"
    BY <1>1 DEF Reserve, TypeOK
  <2> QED BY <1>1, <2>1, <2>2
    DEF Reserve, Goto, TypeOK, provider, NothingBeforeReservation, OneSender,
        OneWrite, SenderKnows, VerdictsAreTrue, ProvingIsAcknowledged,
        Acknowledged, NoReceipt
<1>2. ASSUME NEW p \in Processes, NEW m \in Mutations,
             Repeat(p, m) \/ Recover(p, m)
      PROVE  Verdicts'
  <2>1. receipt.status \in Acknowledged /\ receipt.mutation = m
    BY <1>2 DEF Repeat, Recover, Acknowledged, Unproven
  <2>2. call'[p].mutation = m
    BY <1>2 DEF Repeat, Recover, Rereads, TypeOK
  <2> QED BY <1>2, <2>1, <2>2
    DEF Repeat, Recover, Rereads, Goto, TypeOK, provider,
        NothingBeforeReservation, OneSender, OneWrite, SenderKnows,
        VerdictsAreTrue, ProvingIsAcknowledged, Acknowledged, NoReceipt
<1>3. ASSUME NEW p \in Processes, NEW a \in Auths,
             NEW kind \in {"archive", "update"}, Reconcile(p, a, kind)
      PROVE  Verdicts'
  BY <1>3
  DEF Reconcile, Frozen, Goto, TypeOK, provider, NothingBeforeReservation,
      OneSender, OneWrite, SenderKnows, VerdictsAreTrue, ProvingIsAcknowledged
<1>4. ASSUME NEW p \in Processes, Send(p) PROVE Verdicts'
  BY <1>4
  DEF Send, Goto, TypeOK, NothingBeforeReservation, OneSender, OneWrite,
      SenderKnows, VerdictsAreTrue, ProvingIsAcknowledged, Acknowledged
<1>5. ASSUME NEW p \in Processes, Answered(p) PROVE Verdicts'
  BY <1>5
  DEF Answered, Learn, Goto, TypeOK, provider, NothingBeforeReservation,
      OneSender, OneWrite, SenderKnows, VerdictsAreTrue, ProvingIsAcknowledged
<1>6. ASSUME NEW p \in Processes, Refused(p) PROVE Verdicts'
  BY <1>6
  DEF Refused, Learn, Goto, TypeOK, NothingBeforeReservation,
      OneSender, OneWrite, SenderKnows, VerdictsAreTrue, ProvingIsAcknowledged
<1>7. ASSUME NEW p \in Processes, Return(p),
             UNCHANGED <<receipt, evidence, provider, posts>>
      PROVE  Verdicts'
  BY <1>7
  DEF Return, Goto, TypeOK, provider, NothingBeforeReservation,
      OneSender, OneWrite, SenderKnows, VerdictsAreTrue, ProvingIsAcknowledged
<1>8. ASSUME NEW p \in Processes, NoteAck(p) PROVE Verdicts'
  <2>1. receipt.status = "attempt_started" /\ receipt \in Receipt
        /\ receipt.mutation = call[p].mutation /\ call[p].mutation \in landed
    BY <1>8 DEF NoteAck, OneSender, SenderKnows, TypeOK, NoReceipt
  <2>2. receipt' # NoReceipt /\ receipt'.mutation = receipt.mutation
        /\ receipt'.status = "applied_pending_readback"
    BY <1>8, <2>1, NotedValue DEF NoteAck, Acknowledged
  <2> QED BY <1>8, <2>1, <2>2
    DEF NoteAck, Goto, TypeOK, provider, Acknowledged, NothingBeforeReservation,
      OneSender, OneWrite, SenderKnows, VerdictsAreTrue, ProvingIsAcknowledged
<1>9. ASSUME NEW p \in Processes, NoteInvalid(p) PROVE Verdicts'
  <2>1. receipt.status = "attempt_started" /\ receipt \in Receipt
        /\ receipt.mutation = call[p].mutation /\ call[p].mutation \in landed
    BY <1>9 DEF NoteInvalid, OneSender, SenderKnows, TypeOK, NoReceipt
  <2>2. receipt' # NoReceipt /\ receipt'.mutation = receipt.mutation
        /\ receipt'.status = Unproven
    <3>1. PICK passes \in BOOLEAN : NotedAs(p, Unproven, passes, TRUE)
      BY <1>9 DEF NoteInvalid
    <3> QED BY <2>1, <3>1, NotedValue DEF Acknowledged, Unproven
  <2> QED BY <1>9, <2>1, <2>2
    DEF NoteInvalid, Return, Goto, TypeOK, provider, Acknowledged, Unproven,
      NothingBeforeReservation,
      OneSender, OneWrite, SenderKnows, VerdictsAreTrue, ProvingIsAcknowledged
<1>10. ASSUME NEW p \in Processes, NoteRejection(p) PROVE Verdicts'
  <2>1. receipt.status = "attempt_started" /\ receipt \in Receipt
        /\ receipt.mutation = call[p].mutation
        /\ call[p].mutation \notin landed \union flying
    BY <1>10 DEF NoteRejection, OneSender, SenderKnows, TypeOK, NoReceipt
  <2>2. receipt' # NoReceipt /\ receipt'.mutation = receipt.mutation
        /\ receipt'.status = "rejected_not_applied"
    BY <1>10, <2>1, NotedValue DEF NoteRejection, Acknowledged
  <2> QED BY <1>10, <2>1, <2>2
    DEF NoteRejection, Return, Goto, TypeOK, provider, Acknowledged,
      NothingBeforeReservation,
      OneSender, OneWrite, SenderKnows, VerdictsAreTrue, ProvingIsAcknowledged
<1>11. ASSUME NEW p \in Processes, Confirm(p) \/ FailToConfirm(p)
       PROVE  Verdicts'
  <2>1. pc[p] = "readback" /\ pc' = [pc EXCEPT ![p] = "settle"]
        /\ \A q \in Processes \ {p} : call'[q] = call[q]
    BY <1>11 DEF Confirm, FailToConfirm, Learn, Goto, TypeOK
  <2>2. call'[p].mutation = call[p].mutation
    <3>1. PICK f \in Findings : call' = [call EXCEPT ![p].learnt = f]
      BY <1>11 DEF Confirm, FailToConfirm, Learn, Findings
    <3>2. call[p] \in Call
      BY <2>1 DEF TypeOK
    <3>3. call'[p] = [call[p] EXCEPT !.learnt = f]
      BY <3>1 DEF TypeOK
    <3> QED BY <3>2, <3>3, LearnType
  <2>3. UNCHANGED <<receipt, posts, flying, landed>>
    BY <1>11 DEF Confirm, FailToConfirm, provider
  <2> QED BY <2>1, <2>2, <2>3
    DEF TypeOK, NothingBeforeReservation,
      OneSender, OneWrite, SenderKnows, VerdictsAreTrue, ProvingIsAcknowledged
<1>12. ASSUME NEW p \in Processes, Settle(p) PROVE Verdicts'
  <2>1. receipt.status \in Acknowledged /\ receipt.mutation = call[p].mutation
    BY <1>12 DEF Settle, ProvingIsAcknowledged
  <2>2. receipt \in Receipt
    BY <2>1 DEF TypeOK, NoReceipt, Acknowledged
  <2>3. receipt' # NoReceipt /\ receipt'.mutation = receipt.mutation
        /\ receipt'.status \in Acknowledged
    BY <1>12, <2>1, <2>2, SettledType, NoReceiptIsNone DEF Settle, Cas
  <2> QED BY <1>12, <2>1, <2>3
    DEF Settle, Return, Goto, TypeOK, provider, Acknowledged, NothingBeforeReservation,
      OneSender, OneWrite, SenderKnows, VerdictsAreTrue, ProvingIsAcknowledged
<1>13. ASSUME NEW p \in Processes,
              LookArchived(p) \/ LookActive(p) \/ LookDetail(p)
       PROVE  Verdicts'
  <2>1. UNCHANGED <<receipt, posts, flying, landed>>
        /\ Reconciling(p) /\ Reconciling(p)'
        /\ \A q \in Processes \ {p} : pc'[q] = pc[q] /\ call'[q] = call[q]
    BY <1>13
    DEF LookArchived, LookActive, LookDetail, Learn, Goto, TypeOK, provider,
        Reconciling
  <2> QED BY <2>1
    DEF Reconciling, NothingBeforeReservation,
      OneSender, OneWrite, SenderKnows, VerdictsAreTrue, ProvingIsAcknowledged
<1>14. ASSUME NEW p \in Processes, AppendEvent(p) PROVE Verdicts'
  BY <1>14
  DEF AppendEvent, Return, Goto, TypeOK, provider, NothingBeforeReservation,
      OneSender, OneWrite, SenderKnows, VerdictsAreTrue, ProvingIsAcknowledged
<1>15. ASSUME NEW m \in Mutations, Land(m) PROVE Verdicts'
  BY <1>15
  DEF Land, TypeOK, Acknowledged, NothingBeforeReservation,
      OneSender, OneWrite, SenderKnows, VerdictsAreTrue, ProvingIsAcknowledged
<1>16. ASSUME NEW m \in Mutations, Others(m) PROVE Verdicts'
  BY <1>16
  DEF Others, evidence, NothingBeforeReservation,
      OneSender, OneWrite, SenderKnows, VerdictsAreTrue, ProvingIsAcknowledged
<1>17. CASE UNCHANGED vars
  BY <1>17
  DEF vars, NothingBeforeReservation,
      OneSender, OneWrite, SenderKnows, VerdictsAreTrue, ProvingIsAcknowledged
<1>18. ASSUME NEW p \in Processes, Begin(p) PROVE Verdicts'
  BY <1>18, <1>1, <1>2, <1>3 DEF Begin
<1>19. ASSUME NEW p \in Processes, Write(p) PROVE Verdicts'
  BY <1>19, <1>4, <1>5, <1>6, <1>7, <1>8, <1>9, <1>10 DEF Write, Unanswered
<1>20. ASSUME NEW p \in Processes, Prove(p) PROVE Verdicts'
  BY <1>20, <1>7, <1>11, <1>12 DEF Prove, GiveUp
<1>21. ASSUME NEW p \in Processes, Observe(p) PROVE Verdicts'
  BY <1>21, <1>13, <1>14 DEF Observe
<1>22. ASSUME NEW p \in Processes, Die(p) PROVE Verdicts'
  BY <1>22, <1>7 DEF Die
<1> QED BY <1>15, <1>16, <1>17, <1>18, <1>19, <1>20, <1>21, <1>22 DEF Next

\* The parts of ClassicInv that speak of the reconciliations.
Evidence == ReconcilersObserve /\ AuthorizationsAreOwn

LEMMA EvidenceKept ==
    TypeOK /\ Evidence /\ [Next]_vars => Evidence'
<1> SUFFICES ASSUME TypeOK, Evidence, [Next]_vars PROVE Evidence'
  OBVIOUS
<1> USE DEF Evidence
\* Steps of processes that are not reconciling, before or after.
<1>1. ASSUME NEW p \in Processes, ~Reconciling(p)', UNCHANGED evidence,
             \A q \in Processes \ {p} : pc'[q] = pc[q] /\ call'[q] = call[q]
      PROVE  Evidence'
  BY <1>1
  DEF evidence, Reconciling, Finished, ReconcilersObserve, AuthorizationsAreOwn
<1>2. ASSUME UNCHANGED <<evidence, pc, call>> PROVE Evidence'
  BY <1>2
  DEF evidence, Reconciling, Finished, ReconcilersObserve, AuthorizationsAreOwn
<1>3. ASSUME NEW p \in Processes, Return(p), UNCHANGED evidence PROVE Evidence'
  BY <1>3, <1>1 DEF Return, Goto, TypeOK, Reconciling
<1>4. ASSUME NEW p \in Processes, NEW a \in Auths,
             NEW kind \in {"archive", "update"}, Reconcile(p, a, kind)
      PROVE  Evidence'
  <2>1. a \notin consumed /\ consumed' = consumed \union {a}
        /\ ~Reconciling(p) /\ Finished' = Finished
        /\ \A q \in Processes \ {p} : pc'[q] = pc[q] /\ call'[q] = call[q]
    BY <1>4 DEF Reconcile, Frozen, Goto, TypeOK, Reconciling, Finished
  <2>2. CASE ~Matches(kind)
    BY <1>4, <2>1, <2>2
    DEF Reconcile, Reconciling, ReconcilersObserve, AuthorizationsAreOwn
  <2>3. CASE Matches(kind)
    <3>1. /\ call'[p].auth = a /\ call'[p].prior = receipt
          /\ call'[p].learnt = "nothing"
          /\ pc'[p] = IF kind = "archive" THEN "archived" ELSE "detail"
      BY <1>4, <2>3 DEF Reconcile, Frozen, Goto, TypeOK
    <3>2. kind = "archive" => receipt.status = "attempt_started"
      BY <2>3 DEF Matches
    <3>3. kind = "update" => receipt.status = Unproven
      BY <2>3 DEF Matches
    <3>4. ReconcilersObserve'
      BY <2>1, <3>1, <3>2, <3>3 DEF ReconcilersObserve, Reconciling
    <3>5. AuthorizationsAreOwn'
      BY <2>1, <3>1 DEF AuthorizationsAreOwn, Reconciling
    <3> QED BY <3>4, <3>5
  <2> QED BY <2>2, <2>3
<1>5. ASSUME NEW p \in Processes, Begin(p) PROVE Evidence'
  <2>1. ASSUME NEW m \in Mutations, Reserve(p, m) PROVE Evidence'
    BY <2>1, <1>1 DEF Reserve, Goto, TypeOK, Reconciling
  <2>2. ASSUME NEW m \in Mutations, Repeat(p, m) \/ Recover(p, m)
        PROVE  Evidence'
    BY <2>2, <1>1 DEF Repeat, Recover, Rereads, Goto, TypeOK, Reconciling
  <2> QED BY <1>5, <1>4, <2>1, <2>2 DEF Begin
<1>6. ASSUME NEW p \in Processes, Write(p) PROVE Evidence'
  <2>1. CASE Send(p) \/ NoteAck(p)
    BY <2>1, <1>1 DEF Send, NoteAck, Goto, TypeOK, Reconciling
  <2>2. CASE Answered(p) \/ Refused(p)
    BY <2>2, <1>1 DEF Answered, Refused, Learn, Goto, TypeOK, Reconciling
  <2>3. CASE Unanswered(p) \/ NoteInvalid(p) \/ NoteRejection(p)
    BY <2>3, <1>3 DEF Unanswered, NoteInvalid, NoteRejection
  <2> QED BY <1>6, <2>1, <2>2, <2>3 DEF Write
<1>7. ASSUME NEW p \in Processes, Prove(p) PROVE Evidence'
  <2>1. CASE Confirm(p) \/ FailToConfirm(p)
    BY <2>1, <1>1 DEF Confirm, FailToConfirm, Learn, Goto, TypeOK, Reconciling
  <2>2. CASE GiveUp(p) \/ Settle(p)
    BY <2>2, <1>3 DEF GiveUp, Settle
  <2> QED BY <1>7, <2>1, <2>2 DEF Prove
<1>8. ASSUME NEW p \in Processes,
             LookArchived(p) \/ LookActive(p) \/ LookDetail(p)
      PROVE  Evidence'
  <2>1. /\ Reconciling(p) /\ Reconciling(p)' /\ UNCHANGED evidence
        /\ \A q \in Processes \ {p} : pc'[q] = pc[q] /\ call'[q] = call[q]
    BY <1>8
    DEF LookArchived, LookActive, LookDetail, Learn, Goto, TypeOK, Reconciling
  <2>2. call[p] \in Reconciliation
    BY <2>1 DEF TypeOK
  <2>3. /\ call'[p].auth = call[p].auth /\ call'[p].prior = call[p].prior
        /\ \/ pc'[p] = "active" /\ call'[p] = call[p]
              /\ pc[p] = "archived"
           \/ pc'[p] = "append" /\ call'[p].learnt = "inconclusive"
           \/ pc'[p] = "append" /\ call'[p].learnt = "absent"
              /\ pc[p] = "active"
           \/ pc'[p] = "append" /\ call'[p].learnt = "present"
              /\ pc[p] = "detail"
    <3>1. CASE pc'[p] = "active" /\ call' = call
      BY <1>8, <3>1 DEF LookArchived, LookActive, LookDetail, Learn, Goto, TypeOK
    <3>2. CASE ~(pc'[p] = "active" /\ call' = call)
      <4>1. PICK f \in Dispositions :
              /\ Learn(p, f, "append")
              /\ f = "absent" => pc[p] = "active"
              /\ f = "present" => pc[p] = "detail"
        BY <1>8, <3>2
        DEF LookArchived, LookActive, LookDetail, Goto, TypeOK, Dispositions
      <4>2. call'[p] = [call[p] EXCEPT !.learnt = f] /\ pc'[p] = "append"
        BY <4>1 DEF Learn, Goto, TypeOK
      <4>3. call'[p].auth = call[p].auth /\ call'[p].prior = call[p].prior
            /\ call'[p].learnt = f
        BY <2>2, <4>2, LearnType
      <4> QED BY <4>1, <4>2, <4>3 DEF Dispositions
    <3> QED BY <3>1, <3>2
  <2>4. ReconcilersObserve'
    BY <2>1, <2>3 DEF ReconcilersObserve, Reconciling
  <2>5. AuthorizationsAreOwn'
    BY <2>1, <2>3 DEF AuthorizationsAreOwn, evidence, Finished, Reconciling
  <2> QED BY <2>4, <2>5
<1>9. ASSUME NEW p \in Processes, AppendEvent(p) PROVE Evidence'
  <2>1. CASE ~Unmoved(p)
    BY <1>9, <2>1, <1>3 DEF AppendEvent, evidence
  <2>2. CASE Unmoved(p)
    <3>1. /\ Finished' = Finished \union {call[p].auth}
          /\ consumed' = consumed
          /\ Reconciling(p) /\ ~Reconciling(p)'
          /\ \A q \in Processes \ {p} : pc'[q] = pc[q] /\ call'[q] = call[q]
      <4>1. Entry(p).auth = call[p].auth
        BY DEF Entry
      <4>2. events \in Seq(Event) /\ Entry(p) \in Event
        BY <1>9, EntryType DEF AppendEvent, TypeOK
      <4>3. events' = Append(events, Entry(p))
        BY <1>9, <2>2 DEF AppendEvent
      <4> HIDE DEF Evidence
      <4>4. Finished' = Finished \union {call[p].auth}
        BY <4>1, <4>2, <4>3 DEF Finished
      <4> QED BY <1>9, <4>4
        DEF AppendEvent, Return, Goto, TypeOK, Reconciling
    <3> QED BY <3>1 DEF ReconcilersObserve, AuthorizationsAreOwn, Reconciling
  <2> QED BY <2>1, <2>2
<1>10. ASSUME NEW p \in Processes, Observe(p) PROVE Evidence'
  BY <1>10, <1>8, <1>9 DEF Observe
<1>11. ASSUME NEW p \in Processes, Die(p) PROVE Evidence'
  BY <1>11, <1>3 DEF Die
<1>12. ASSUME NEW m \in Mutations, Land(m) \/ Others(m) PROVE Evidence'
  BY <1>12, <1>2 DEF Land, Others
<1>13. CASE UNCHANGED vars
  BY <1>13, <1>2 DEF vars, evidence
<1> QED BY <1>5, <1>6, <1>7, <1>10, <1>11, <1>12, <1>13 DEF Next

-----------------------------------------------------------------------------
(* The theorems.                                                           *)

\* The inductive invariant: types, one sender whose knowledge is true, and
\* authorizations that are their users' own.
THEOREM ClassicInvariant == Spec => []ClassicInv
<1>1. Init => ClassicInv
  BY DEF Init, ClassicInv, TypeOK, NothingBeforeReservation, OneSender, OneWrite,
     SenderKnows, VerdictsAreTrue, ProvingIsAcknowledged, ReconcilersObserve,
     AuthorizationsAreOwn, Finished, Sending, Proving, Reconciling, Steps,
     NoReceipt, Acknowledged
<1>2. ClassicInv /\ [Next]_vars => ClassicInv'
  <2>1. ClassicInv <=> TypeOK /\ Verdicts /\ Evidence
    BY DEF ClassicInv, Verdicts, Evidence
  <2>2. ClassicInv' <=> TypeOK' /\ Verdicts' /\ Evidence'
    BY DEF ClassicInv, Verdicts, Evidence
  <2> QED BY <2>1, <2>2, TypesKept, VerdictsKept, EvidenceKept
<1> QED BY <1>1, <1>2, PTL DEF Spec

\* Every variable keeps its type.
THEOREM ClassicTypeCorrect == Spec => []TypeOK
<1>1. ClassicInv => TypeOK
  BY DEF ClassicInv
<1> QED BY <1>1, ClassicInvariant, PTL

\* At most one write leaves under the key, whoever calls, repeats and dies.
THEOREM OneWriteLeaves == Spec => []OneWritePerKey
<1>1. ClassicInv => OneWritePerKey
  BY DEF ClassicInv, OneWrite, OneWritePerKey
<1> QED BY <1>1, ClassicInvariant, PTL

\* An acknowledged receipt stands on an applied write, a rejected one on none.
THEOREM VerdictsHold == Spec => []VerdictsAreTrue
<1>1. ClassicInv => VerdictsAreTrue
  BY DEF ClassicInv
<1> QED BY <1>1, ClassicInvariant, PTL

\* Receipts only move forward: a receipt of unknown outcome by its sender alone,
\* an acknowledged one never back.
THEOREM ReceiptsMove == Spec => ReceiptsMoveForward
<1>1. ASSUME ClassicInv, Next PROVE Forward
  <2> USE DEF Forward
  <2>1. ASSUME NEW p \in Processes, Begin(p) PROVE Forward
    BY <2>1 DEF Begin, Reserve, Repeat, Recover, Rereads, Reconcile
  <2>2. ASSUME NEW p \in Processes, Write(p) PROVE Forward
    <3>1. CASE \/ Send(p) \/ Answered(p) \/ Refused(p) \/ Unanswered(p)
      BY <3>1 DEF Send, Answered, Refused, Unanswered
    <3>2. CASE NoteAck(p) \/ NoteInvalid(p) \/ NoteRejection(p)
      <4>1. Sending(p)
        BY <3>2 DEF NoteAck, NoteInvalid, NoteRejection, Sending
      <4>2. receipt.status = "attempt_started"
        BY <1>1, <4>1 DEF ClassicInv, OneSender
      <4> QED BY <4>1, <4>2
    <3> QED BY <2>2, <3>1, <3>2 DEF Write
  <2>3. ASSUME NEW p \in Processes, Prove(p) PROVE Forward
    <3>1. CASE Confirm(p) \/ FailToConfirm(p) \/ GiveUp(p)
      BY <3>1 DEF Confirm, FailToConfirm, GiveUp
    <3>2. CASE Settle(p)
      <4>1. receipt.status \in Acknowledged
        BY <1>1, <3>2 DEF Settle, ClassicInv, ProvingIsAcknowledged, Proving
      <4>2. receipt \in Receipt
        BY <1>1, <4>1 DEF ClassicInv, TypeOK, NoReceipt, Acknowledged
      <4>3. receipt' \in {receipt, Settled(p)}
        BY <3>2 DEF Settle, Cas
      <4> QED BY <4>1, <4>2, <4>3, SettledType
    <3> QED BY <2>3, <3>1, <3>2 DEF Prove
  <2>4. ASSUME NEW p \in Processes, Observe(p) \/ Die(p) PROVE Forward
    BY <2>4 DEF Observe, LookArchived, LookActive, LookDetail, AppendEvent, Die
  <2>5. ASSUME NEW m \in Mutations, Land(m) \/ Others(m) PROVE Forward
    BY <2>5 DEF Land, Others
  <2> QED BY <1>1, <2>1, <2>2, <2>3, <2>4, <2>5 DEF Next
<1>2. ClassicInv /\ [Next]_vars => [Forward]_vars
  BY <1>1
<1> QED BY <1>2, ClassicInvariant, PTL DEF Spec, ReceiptsMoveForward

\* Evidence is one event for an authorization, fits the receipt it is about,
\* and leaves no authorization of the key unaccounted for.
THEOREM EvidenceFits == Spec => EvidenceFitsReceipt
<1> DEFINE A == events' # events => Fits(events'[Len(events')])
<1>1. ASSUME ClassicInv, Next PROVE A
  <2> SUFFICES ASSUME events' # events PROVE Fits(events'[Len(events')])
    OBVIOUS
  <2>1. PICK p \in Processes : AppendEvent(p)
    BY <1>1
    DEF Next, Begin, Reserve, Repeat, Recover, Rereads, Reconcile, Write, Send,
        Answered, Refused, Unanswered, NoteAck, NoteInvalid, NoteRejection,
        Prove, Confirm, FailToConfirm, GiveUp, Settle, Observe, LookArchived,
        LookActive, LookDetail, Die, Land, Others, evidence
  <2>2. TypeOK /\ pc[p] = "append" /\ Reconciling(p)
    BY <1>1, <2>1 DEF ClassicInv, AppendEvent, Reconciling
  <2>3. events \in Seq(Event) /\ Entry(p) \in Event
    BY <2>2, EntryType DEF TypeOK
  <2>4. events' = Append(events, Entry(p)) /\ receipt = call[p].prior
    BY <2>1 DEF AppendEvent, Unmoved
  <2>5. events'[Len(events')] = Entry(p)
    BY <2>3, <2>4
  <2>6. call[p] \in Reconciliation /\ call[p].auth \in consumed \ Finished
        /\ Finished \subseteq consumed
    BY <1>1, <2>2 DEF ClassicInv, AuthorizationsAreOwn, TypeOK
  <2>7. /\ call[p].learnt = "absent" => receipt.status = "attempt_started"
        /\ call[p].learnt = "present" => receipt.status = Unproven
    BY <1>1, <2>2, <2>4 DEF ClassicInv, ReconcilersObserve
  <2>8. receipt.status = Unproven => receipt.mutation \in landed
    BY <1>1 DEF ClassicInv, VerdictsAreTrue, Acknowledged, Unproven
  <2>9. /\ Entry(p).auth = call[p].auth /\ Entry(p).kind = call[p].op
        /\ Entry(p).disposition = call[p].learnt
        /\ Entry(p).unfinished = Unfinished(p)
    BY DEF Entry
  <2>10. call[p].op = "archive" =>
            consumed = Finished \union {call[p].auth} \union Unfinished(p)
    BY <2>6 DEF Unfinished
  <2> QED BY <2>5, <2>6, <2>7, <2>8, <2>9, <2>10 DEF Fits
<1>2. ClassicInv /\ [Next]_vars => [A]_vars
  <2>1. CASE Next
    BY <1>1, <2>1
  <2>2. CASE UNCHANGED vars
    BY <2>2
  <2> QED BY <2>1, <2>2
<1> QED BY <1>2, ClassicInvariant, PTL DEF Spec, EvidenceFitsReceipt
=============================================================================
